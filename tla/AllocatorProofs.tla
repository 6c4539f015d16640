-------------------------- MODULE AllocatorProofs --------------------------
(***************************************************************************)
(* Proofs about the allocators.  Buddy, for every size of memory, every    *)
(* set of available pages and every sequence of calls; Slab, for every     *)
(* size of the objects, every alignment that divides a page and every      *)
(* sequence of calls.                                                      *)
(***************************************************************************)
EXTENDS Buddy, Slab, Induction, SequenceTheorems, FiniteSetTheorems, TLAPS

-----------------------------------------------------------------------------
(* Levels and the sizes of their blocks *)

\* A block of a level has at least one page, and more pages than levels.
LEMMA Positive ==
  \A l \in 0 .. descriptors_size + 1 : PagesOf[l] \in Nat /\ PagesOf[l] > l
<1> DEFINE S == {n \in Nat : n <= descriptors_size + 1 => PagesOf[n] \in Nat /\ PagesOf[n] > n}
<1>1. 0 \in S
  BY PagesOfAssumption, SizeAssumption
<1>2. ASSUME NEW n \in S PROVE n + 1 \in S
  <2>1. n \in Nat /\ n + 1 \in Nat
    OBVIOUS
  <2>2. CASE n + 1 <= descriptors_size + 1
    <3>1. n \in 0 .. descriptors_size
      BY <2>1, <2>2, SizeAssumption
    <3>2. PagesOf[n] \in Nat /\ PagesOf[n] > n
      BY <3>1, SizeAssumption
    <3>3. PagesOf[n + 1] = 2 * PagesOf[n]
      BY <3>1, PagesOfAssumption
    <3> QED BY <2>1, <3>2, <3>3
  <2>3. CASE ~ (n + 1 <= descriptors_size + 1)
    BY <2>1, <2>3
  <2> QED BY <2>2, <2>3
<1>3. S = Nat
  <2> HIDE DEF S
  <2>1. S \in SUBSET Nat
    BY DEF S
  <2> QED BY <1>1, <1>2, <2>1, SetInduction
<1>4. ASSUME NEW l \in 0 .. descriptors_size + 1 PROVE PagesOf[l] \in Nat /\ PagesOf[l] > l
  <2>1. l \in Nat /\ l <= descriptors_size + 1
    BY SizeAssumption
  <2>2. l \in S
    BY <2>1, <1>3
  <2> QED BY <2>1, <2>2
<1> QED BY <1>4

\* There is a top level, its block holds all the memory, and PagesOf is
\* defined at it.
LEMMA Top ==
  /\ TopLevel \in 1 .. descriptors_size
  /\ PagesOf[TopLevel] >= descriptors_size
<1> DEFINE S == {n \in 1 .. descriptors_size : PagesOf[n] >= descriptors_size}
<1>1. descriptors_size \in S
  <2>1. descriptors_size \in 0 .. descriptors_size + 1 /\ descriptors_size \in 1 .. descriptors_size
    BY SizeAssumption
  <2>2. PagesOf[descriptors_size] \in Nat /\ PagesOf[descriptors_size] > descriptors_size
    BY <2>1, Positive
  <2> QED BY <2>1, <2>2, SizeAssumption
<1>2. S \in SUBSET Nat /\ S # {}
  BY <1>1, SizeAssumption
<1>3. PICK n \in S : \A m \in S : n <= m
  <2> HIDE DEF S
  <2> QED BY <1>2, Least
<1>4. \A m \in 1 .. n - 1 : PagesOf[m] < descriptors_size
  <2> SUFFICES ASSUME NEW m \in 1 .. n - 1 PROVE PagesOf[m] < descriptors_size
    OBVIOUS
  <2>1. n \in 1 .. descriptors_size
    OBVIOUS
  <2>2. m \in 1 .. descriptors_size /\ m < n /\ m \in Nat
    BY <2>1, SizeAssumption
  <2>3. m \notin S
    BY <1>3, <2>1, <2>2
  <2>4. PagesOf[m] \in Nat
    BY <2>2, Positive, SizeAssumption
  <2> QED BY <2>2, <2>3, <2>4, SizeAssumption
<1>5. n \in 1 .. descriptors_size /\ PagesOf[n] >= descriptors_size
  OBVIOUS
<1> HIDE DEF S
<1> QED BY <1>4, <1>5 DEF TopLevel

\* Facts about levels, collected for the arithmetic below.
LEMMA Levels ==
  /\ Level \subseteq 0 .. descriptors_size /\ Level \subseteq Nat
  /\ 0 \in Level /\ TopLevel \in Level
  /\ \A l \in Level : PagesOf[l] \in Nat /\ PagesOf[l] > 0
  /\ \A l \in Level : l # TopLevel => l + 1 \in Level /\ PagesOf[l + 1] = 2 * PagesOf[l]
<1>1. Level = 0 .. TopLevel /\ TopLevel \in Nat /\ TopLevel <= descriptors_size
  BY Top, SizeAssumption DEF Level, level_number
<1>2. Level \subseteq 0 .. descriptors_size /\ Level \subseteq Nat
  BY <1>1, SizeAssumption
<1>3. 0 \in Level /\ TopLevel \in Level
  BY <1>1
<1>4. ASSUME NEW l \in Level PROVE PagesOf[l] \in Nat /\ PagesOf[l] > 0
  <2>1. l \in 0 .. descriptors_size + 1 /\ l \in Nat
    BY <1>2, SizeAssumption
  <2> QED BY <2>1, Positive
<1>5. ASSUME NEW l \in Level, l # TopLevel
      PROVE  l + 1 \in Level /\ PagesOf[l + 1] = 2 * PagesOf[l]
  <2>1. l \in 0 .. TopLevel /\ l # TopLevel
    BY <1>1, <1>5
  <2>2. l + 1 \in 0 .. TopLevel /\ l \in 0 .. descriptors_size
    BY <1>1, <2>1, SizeAssumption
  <2> QED BY <1>1, <2>2, PagesOfAssumption
<1> QED BY <1>2, <1>3, <1>4, <1>5

\* The size of a block is a multiple of the size of any smaller one.
LEMMA Multiples ==
  ASSUME NEW k \in Level, NEW m \in Level, k <= m
  PROVE  \E j \in Nat \ {0} : PagesOf[m] = j * PagesOf[k]
<1> DEFINE S == {d \in Nat : k + d \in Level => \E j \in Nat \ {0} : PagesOf[k + d] = j * PagesOf[k]}
<1>0. k \in Nat /\ m \in Nat /\ PagesOf[k] \in Nat
  BY Levels
<1>1. 0 \in S
  <2>1. k + 0 = k /\ PagesOf[k] = 1 * PagesOf[k]
    BY <1>0
  <2> QED BY <2>1
<1>2. ASSUME NEW d \in S PROVE d + 1 \in S
  <2>0. d \in Nat /\ d + 1 \in Nat
    OBVIOUS
  <2> SUFFICES ASSUME k + (d + 1) \in Level
               PROVE  \E j \in Nat \ {0} : PagesOf[k + (d + 1)] = j * PagesOf[k]
    BY <2>0
  <2>1. k + d \in Level /\ k + d # TopLevel /\ (k + d) + 1 = k + (d + 1)
    BY <1>0, <2>0, Top, SizeAssumption DEF Level, level_number
  <2>2. PICK j \in Nat \ {0} : PagesOf[k + d] = j * PagesOf[k]
    BY <2>1
  <2>3. PagesOf[k + (d + 1)] = 2 * PagesOf[k + d]
    BY <2>1, Levels
  <2>4. 2 * j \in Nat \ {0} /\ 2 * (j * PagesOf[k]) = (2 * j) * PagesOf[k]
    BY <1>0
  <2> QED BY <2>2, <2>3, <2>4
<1>3. S = Nat
  <2> HIDE DEF S
  <2>1. S \in SUBSET Nat
    BY DEF S
  <2> QED BY <1>1, <1>2, <2>1, SetInduction
<1>4. m - k \in Nat /\ k + (m - k) = m
  BY <1>0
<1>5. m - k \in S
  BY <1>3, <1>4
<1> QED BY <1>4, <1>5

-----------------------------------------------------------------------------
(* Blocks and buddies *)

\* The numbers q with q * P <= x < q * P + P are only one.
LEMMA Quotient ==
  ASSUME NEW P \in Nat \ {0}, NEW a \in Int, NEW b \in Int,
         a * P <= b * P, b * P < a * P + P
  PROVE  a = b
<1>1. CASE a < b
  <2>1. (b - a) * P = b * P - a * P /\ (b - a) * P >= P
    <3>1. b - a >= 1 /\ b - a \in Nat
      BY <1>1
    <3>2. PICK d \in Nat : b = a + 1 + d
      BY <3>1
    <3>3. d * P \in Nat
      OBVIOUS
    <3> QED BY <3>2, <3>3
  <2> QED BY <2>1
<1>2. CASE a > b
  <2>1. PICK d \in Nat : a = b + 1 + d
    <3>1. a - b - 1 \in Nat /\ a = b + 1 + (a - b - 1)
      BY <1>2
    <3> QED BY <3>1
  <2>2. d * P \in Nat /\ a * P = b * P + P + d * P
    BY <2>1
  <2> QED BY <2>2
<1> QED BY <1>1, <1>2

LEMMA Distribute ==
  ASSUME NEW P \in Nat \ {0}, NEW q \in Int
  PROVE  (q - 1) * P = q * P - P
OBVIOUS

\* Division of a multiple.
LEMMA Division ==
  ASSUME NEW P \in Nat \ {0}, NEW q \in Nat
  PROVE  (q * P) \div P = q
<1> DEFINE d == (q * P) \div P
<1>1. q * P \in Nat
  OBVIOUS
<1>2. d \in Int /\ d * P <= q * P /\ q * P < d * P + P
  BY <1>1
<1> HIDE DEF d
<1>3. d = q
  BY <1>2, Quotient
<1> QED BY <1>3 DEF d

\* The buddy of block q of a level is block q + 1 or q - 1 of it.
LEMMA Buddy ==
  ASSUME NEW l \in Level, NEW q \in Nat, NEW i, i = q * PagesOf[l]
  PROVE  get_buddy(i, l) = IF q % 2 = 0 THEN (q + 1) * PagesOf[l] ELSE (q - 1) * PagesOf[l]
<1>1. PagesOf[l] \in Nat \ {0}
  BY Levels
<1>2. i \div PagesOf[l] = q
  BY <1>1, Division
<1>3. (q + 1) * PagesOf[l] = i + PagesOf[l] /\ (q - 1) * PagesOf[l] = i - PagesOf[l]
  BY <1>1
<1> QED BY <1>2, <1>3 DEF get_buddy

Aligned(i, l) == \E q \in Nat : i = q * PagesOf[l]

\* The pages of a block, as bounds.
LEMMA PagesAre ==
  ASSUME NEW i \in Int, NEW l \in Level
  PROVE  \A p : p \in Pages(<<i, l>>) <=> p \in Int /\ i <= p /\ p < i + PagesOf[l]
<1>1. PagesOf[l] \in Nat
  BY Levels
<1> QED BY <1>1 DEF Pages

\* Buddies are each other's buddies, and no block is its own.
LEMMA Involution ==
  ASSUME NEW l \in Level, NEW i \in Nat, Aligned(i, l)
  PROVE  /\ get_buddy(i, l) \in Nat /\ get_buddy(i, l) # i
         /\ Aligned(get_buddy(i, l), l)
         /\ get_buddy(get_buddy(i, l), l) = i
<1>1. PICK q \in Nat : i = q * PagesOf[l]
  BY DEF Aligned
<1>2. PagesOf[l] \in Nat \ {0}
  BY Levels
<1>3. CASE q % 2 = 0
  <2>1. get_buddy(i, l) = (q + 1) * PagesOf[l]
    BY <1>1, <1>3, Buddy
  <2>2. (q + 1) % 2 # 0 /\ q + 1 \in Nat
    BY <1>3
  <2>3. get_buddy((q + 1) * PagesOf[l], l) = ((q + 1) - 1) * PagesOf[l]
    BY <2>2, Buddy
  <2>4. (q + 1) * PagesOf[l] = q * PagesOf[l] + PagesOf[l] /\ (q + 1) - 1 = q
    BY <1>2
  <2>5. (q + 1) * PagesOf[l] \in Nat
    BY <1>2
  <2> QED BY <1>1, <1>2, <2>1, <2>2, <2>3, <2>4, <2>5 DEF Aligned
<1>4. CASE q % 2 # 0
  <2>1. get_buddy(i, l) = (q - 1) * PagesOf[l]
    BY <1>1, <1>4, Buddy
  <2>2. (q - 1) % 2 = 0 /\ q - 1 \in Nat
    BY <1>4
  <2>3. get_buddy((q - 1) * PagesOf[l], l) = ((q - 1) + 1) * PagesOf[l]
    BY <2>2, Buddy
  <2>4. (q - 1) * PagesOf[l] = q * PagesOf[l] - PagesOf[l]
    <3>1. q \in Int
      OBVIOUS
    <3> QED BY ONLY <1>2, <3>1, Distribute
  <2>6. (q - 1) + 1 = q
    OBVIOUS
  <2>5. (q - 1) * PagesOf[l] \in Nat
    BY <1>2, <2>2
  <2> QED BY <1>1, <1>2, <2>1, <2>2, <2>3, <2>4, <2>5, <2>6 DEF Aligned
<1> QED BY <1>3, <1>4

\* The halves of a block are buddies, and they are what it consists of.
LEMMA Halves ==
  ASSUME NEW k \in Level, k # TopLevel, NEW i \in Nat, Aligned(i, k + 1)
  PROVE  /\ get_buddy(i, k) = i + PagesOf[k]
         /\ Aligned(i, k) /\ Aligned(i + PagesOf[k], k)
         /\ Pages(<<i, k + 1>>) = Pages(<<i, k>>) \cup Pages(<<i + PagesOf[k], k>>)
         /\ Pages(<<i, k>>) \cap Pages(<<i + PagesOf[k], k>>) = {}
<1>1. /\ PagesOf[k] \in Nat \ {0} /\ k + 1 \in Level
      /\ PagesOf[k + 1] = 2 * PagesOf[k]
  BY Levels
<1>2. PICK q \in Nat : i = q * PagesOf[k + 1]
  BY DEF Aligned
<1>3. i = (2 * q) * PagesOf[k] /\ 2 * q \in Nat /\ (2 * q) % 2 = 0
  BY <1>1, <1>2
<1>4. i + PagesOf[k] = (2 * q + 1) * PagesOf[k] /\ 2 * q + 1 \in Nat
  BY <1>1, <1>3
<1>5. get_buddy(i, k) = i + PagesOf[k]
  BY <1>3, <1>4, Buddy
<1>6. Aligned(i, k) /\ Aligned(i + PagesOf[k], k)
  BY <1>3, <1>4 DEF Aligned
<1>7. i + PagesOf[k] \in Int
  BY <1>1
<1>8. /\ \A p : p \in Pages(<<i, k>>) <=> p \in Int /\ i <= p /\ p < i + PagesOf[k]
      /\ \A p : p \in Pages(<<i + PagesOf[k], k>>)
                  <=> p \in Int /\ i + PagesOf[k] <= p /\ p < i + PagesOf[k] + PagesOf[k]
      /\ \A p : p \in Pages(<<i, k + 1>>)
                  <=> p \in Int /\ i <= p /\ p < i + 2 * PagesOf[k]
  BY <1>1, <1>7, PagesAre
<1>9. Pages(<<i, k + 1>>) = Pages(<<i, k>>) \cup Pages(<<i + PagesOf[k], k>>)
  BY <1>1, <1>8
<1>10. Pages(<<i, k>>) \cap Pages(<<i + PagesOf[k], k>>) = {}
  BY <1>1, <1>8
<1> QED BY <1>5, <1>6, <1>9, <1>10

\* Two buddies are the halves of the block that begins at the smaller one.
LEMMA Pair ==
  ASSUME NEW k \in Level, k # TopLevel, NEW i \in Nat, Aligned(i, k)
  PROVE  LET j == get_buddy(i, k)
             m == IF i < j THEN i ELSE j
         IN /\ m \in Nat /\ Aligned(m, k + 1)
            /\ {i, j} = {m, m + PagesOf[k]}
<1>1. PICK q \in Nat : i = q * PagesOf[k]
  BY DEF Aligned
<1>2. /\ PagesOf[k] \in Nat \ {0} /\ k + 1 \in Level
      /\ PagesOf[k + 1] = 2 * PagesOf[k]
  BY Levels
<1>3. (q + 1) * PagesOf[k] = i + PagesOf[k] /\ (q - 1) * PagesOf[k] = i - PagesOf[k]
  BY <1>1, <1>2
<1>4. CASE q % 2 = 0
  <2>1. get_buddy(i, k) = i + PagesOf[k]
    BY <1>1, <1>3, <1>4, Buddy
  <2>2. PICK r \in Nat : q = 2 * r
    <3>1. q \div 2 \in Nat /\ q = 2 * (q \div 2)
      BY <1>4
    <3> QED BY <3>1
  <2>3. i = r * PagesOf[k + 1]
    BY <1>1, <1>2, <2>2
  <2>4. i < i + PagesOf[k]
    BY <1>2
  <2> QED BY <2>1, <2>3, <2>4 DEF Aligned
<1>5. CASE q % 2 # 0
  <2>1. get_buddy(i, k) = i - PagesOf[k]
    BY <1>1, <1>3, <1>5, Buddy
  <2>2. PICK r \in Nat : q = 2 * r + 1
    <3>1. q \div 2 \in Nat /\ q = 2 * (q \div 2) + 1
      BY <1>5
    <3> QED BY <3>1
  <2>3. i - PagesOf[k] = r * PagesOf[k + 1]
    BY <1>1, <1>2, <2>2
  <2>4. ~ (i < i - PagesOf[k]) /\ i = (i - PagesOf[k]) + PagesOf[k]
    BY <1>2
  <2>5. r * PagesOf[k + 1] \in Nat
    BY <1>2
  <2> QED BY <2>1, <2>3, <2>4, <2>5 DEF Aligned
<1> QED BY <1>4, <1>5

\* A block of a level and a block of the same level or a lower one that
\* begins in it: either it is where that one begins, or lies in it as a whole.
LEMMA Laminar ==
  ASSUME NEW k \in Level, NEW m \in Level, k <= m,
         NEW i \in Nat, Aligned(i, k), NEW j \in Nat, Aligned(j, m),
         Pages(<<i, k>>) \cap Pages(<<j, m>>) # {}
  PROVE  Pages(<<i, k>>) \subseteq Pages(<<j, m>>)
<1>1. PICK p : p \in Pages(<<i, k>>) /\ p \in Pages(<<j, m>>)
  OBVIOUS
<1>2. PICK c \in Nat \ {0} : PagesOf[m] = c * PagesOf[k]
  BY Multiples
<1>3. PICK q \in Nat : i = q * PagesOf[k]
  BY DEF Aligned
<1>4. PICK r \in Nat : j = r * PagesOf[m]
  BY DEF Aligned
<1> DEFINE P == PagesOf[k]
           s == r * c
<1>5. P \in Nat \ {0} /\ PagesOf[m] \in Nat \ {0} /\ s \in Nat /\ s + c \in Nat
  BY <1>2, Levels
<1>6. j = s * P /\ j + PagesOf[m] = (s + c) * P
  BY <1>2, <1>4, <1>5
<1>7. i <= p /\ p < i + P /\ j <= p /\ p < j + PagesOf[m] /\ p \in Int
  BY <1>1, PagesAre
<1>8. q >= s
  <2> SUFFICES ASSUME q + 1 <= s PROVE FALSE
    BY <1>5
  <2>1. (q + 1) * P <= s * P
    <3>1. PICK d \in Nat : s = (q + 1) + d
      <4>1. s - (q + 1) \in Nat /\ s = (q + 1) + (s - (q + 1))
        BY <1>5
      <4> QED BY <4>1
    <3>2. s * P = (q + 1) * P + d * P /\ d * P \in Nat /\ (q + 1) * P \in Nat
      <4>1. d * P \in Nat /\ (q + 1) * P \in Nat
        BY <1>5
      <4>2. ((q + 1) + d) * P = (q + 1) * P + d * P
        BY ONLY <1>5, q \in Nat, d \in Nat
      <4> QED BY <3>1, <4>1, <4>2
    <3> QED BY <3>2
  <2>2. (q + 1) * P = i + P
    BY <1>3, <1>5
  <2> QED BY <1>5, <1>6, <1>7, <2>1, <2>2
<1>9. q + 1 <= s + c
  <2> SUFFICES ASSUME s + c <= q PROVE FALSE
    BY <1>5
  <2>1. (s + c) * P <= q * P
    <3>1. PICK d \in Nat : q = (s + c) + d
      <4>1. q - (s + c) \in Nat /\ q = (s + c) + (q - (s + c))
        BY <1>5
      <4> QED BY <4>1
    <3>2. q * P = (s + c) * P + d * P /\ d * P \in Nat /\ (s + c) * P \in Nat
      BY <1>5, <3>1
    <3> QED BY <3>2
  <2> QED BY <1>3, <1>5, <1>6, <1>7, <2>1
<1>10. j <= i
  <2>1. PICK d \in Nat : q = s + d
    <3>1. q - s \in Nat /\ q = s + (q - s)
      BY <1>5, <1>8
    <3> QED BY <3>1
  <2>2. q * P = s * P + d * P /\ d * P \in Nat
    BY <1>5, <2>1
  <2> QED BY <1>3, <1>6, <2>2
<1>11. i + P <= j + PagesOf[m]
  <2>1. PICK d \in Nat : s + c = (q + 1) + d
    <3>1. (s + c) - (q + 1) \in Nat /\ s + c = (q + 1) + ((s + c) - (q + 1))
      BY <1>5, <1>9
    <3> QED BY <3>1
  <2>2. (s + c) * P = i + P + d * P /\ d * P \in Nat
    BY <1>3, <1>5, <2>1
  <2> QED BY <1>5, <1>6, <2>2
<1>12. \A x : x \in Pages(<<i, k>>) => x \in Pages(<<j, m>>)
  BY <1>5, <1>10, <1>11, PagesAre
<1> QED BY <1>12

\* A block that begins inside an aligned block of a lower level begins there.
LEMMA Heads ==
  ASSUME NEW k \in Level, NEW m \in Level, m <= k,
         NEW i \in Nat, Aligned(i, k), NEW j \in Nat, Aligned(j, m), i \in Pages(<<j, m>>)
  PROVE  i = j
<1>1. PICK c \in Nat \ {0} : PagesOf[k] = c * PagesOf[m]
  BY Multiples
<1>2. PICK q \in Nat : i = q * PagesOf[k]
  BY DEF Aligned
<1>3. PICK r \in Nat : j = r * PagesOf[m]
  BY DEF Aligned
<1>4. PagesOf[m] \in Nat \ {0} /\ q * c \in Nat
  BY <1>1, Levels
<1>5. i = (q * c) * PagesOf[m]
  BY <1>1, <1>2, <1>4
<1>6. j <= i /\ i < j + PagesOf[m]
  BY PagesAre
<1>7. r = q * c
  BY <1>3, <1>4, <1>5, <1>6, Quotient
<1> QED BY <1>3, <1>5, <1>7

-----------------------------------------------------------------------------
(* Memory in blocks *)

\* The blocks of S are aligned and apart, and they are the memory M.
Partition(S, M) ==
  /\ M \subseteq Page
  /\ S \subseteq Block
  /\ \A b \in S : Aligned(b[1], b[2])
  /\ \A b, c \in S : b # c => Pages(b) \cap Pages(c) = {}
  /\ UNION {Pages(b) : b \in S} = M

\* No block is empty.
LEMMA FirstPage ==
  ASSUME NEW b \in Block
  PROVE  b = <<b[1], b[2]>> /\ b[1] \in Nat /\ b[2] \in Level /\ b[1] \in Pages(b)
<1>1. b = <<b[1], b[2]>> /\ b[1] \in Page /\ b[2] \in Level
  BY DEF Block
<1>2. b[1] \in Nat
  BY <1>1, SizeAssumption DEF Page
<1>3. PagesOf[b[2]] \in Nat \ {0}
  BY <1>1, Levels
<1>4. b[1] \in Pages(<<b[1], b[2]>>)
  BY <1>1, <1>2, <1>3, PagesAre
<1> QED BY <1>1, <1>2, <1>4

\* A block that is in memory is a block of the model.
LEMMA InMemory ==
  ASSUME NEW M, M \subseteq Page, NEW i \in Nat, NEW l \in Level, Pages(<<i, l>>) \subseteq M
  PROVE  <<i, l>> \in Block
<1>1. PagesOf[l] \in Nat \ {0}
  BY Levels
<1>2. i \in Pages(<<i, l>>)
  BY <1>1, PagesAre
<1> QED BY <1>2 DEF Block

\* Splitting a block leaves a partition.
LEMMA SplitPart ==
  ASSUME NEW S, NEW M, Partition(S, M), NEW k \in Level, k # TopLevel,
         NEW i \in Nat, <<i, k + 1>> \in S
  PROVE  /\ Partition((S \ {<<i, k + 1>>}) \cup {<<i, k>>, <<i + PagesOf[k], k>>}, M)
         /\ <<i, k>> \notin S \ {<<i, k + 1>>}
         /\ <<i + PagesOf[k], k>> \notin S \ {<<i, k + 1>>}
         /\ <<i, k>> # <<i + PagesOf[k], k>>
<1> DEFINE whole == <<i, k + 1>>
           low == <<i, k>>
           high == <<i + PagesOf[k], k>>
           R == S \ {whole}
           T == R \cup {low, high}
<1>1. PagesOf[k] \in Nat \ {0} /\ k + 1 \in Level
  BY Levels
<1>2. Aligned(i, k + 1)
  BY DEF Partition
<1>3. /\ Aligned(i, k) /\ Aligned(i + PagesOf[k], k)
      /\ Pages(whole) = Pages(low) \cup Pages(high)
      /\ Pages(low) \cap Pages(high) = {}
  BY <1>2, Halves
<1>4. Pages(whole) \subseteq M /\ M \subseteq Page
  BY DEF Partition
<1>5. low \in Block /\ high \in Block
  <2>1. i + PagesOf[k] \in Nat
    BY <1>1
  <2>2. Pages(low) \subseteq M /\ Pages(high) \subseteq M
    BY <1>3, <1>4
  <2> QED BY <1>4, <2>1, <2>2, InMemory
<1>6. \A b \in R : b \in Block /\ Aligned(b[1], b[2]) /\ Pages(b) \cap Pages(whole) = {}
  BY DEF Partition
<1>7. low[1] = i /\ low[2] = k /\ high[1] = i + PagesOf[k] /\ high[2] = k
  OBVIOUS
<1>8. low \notin R /\ high \notin R /\ low # high
  <2>1. low[1] \in Pages(low) /\ high[1] \in Pages(high)
    BY <1>5, FirstPage
  <2> QED BY <1>1, <1>3, <1>6, <2>1
<1>9. UNION {Pages(b) : b \in T} = M
  <2>1. UNION {Pages(b) : b \in S} = M
    BY DEF Partition
  <2> QED BY <2>1, <1>3
<1>10. \A b, c \in T : b # c => Pages(b) \cap Pages(c) = {}
  <2>1. \A b, c \in R : b # c => Pages(b) \cap Pages(c) = {}
    BY DEF Partition
  <2>2. \A b \in R : Pages(b) \cap Pages(low) = {} /\ Pages(b) \cap Pages(high) = {}
    BY <1>3, <1>6
  <2> HIDE DEF R, low, high
  <2> QED BY <1>3, <2>1, <2>2
<1>11. T \subseteq Block /\ \A b \in T : Aligned(b[1], b[2])
  <2> HIDE DEF R
  <2> QED BY <1>3, <1>5, <1>6, <1>7
<1>12. Partition(T, M)
  <2> HIDE DEF T
  <2> QED BY <1>4, <1>9, <1>10, <1>11 DEF Partition
<1> QED BY <1>8, <1>12

\* Joining two buddies leaves a partition.
LEMMA JoinPart ==
  ASSUME NEW S, NEW M, Partition(S, M), NEW k \in Level, k # TopLevel,
         NEW i \in Nat, Aligned(i, k + 1), <<i, k>> \in S, <<i + PagesOf[k], k>> \in S
  PROVE  /\ Partition((S \ {<<i, k>>, <<i + PagesOf[k], k>>}) \cup {<<i, k + 1>>}, M)
         /\ <<i, k + 1>> \notin S \ {<<i, k>>, <<i + PagesOf[k], k>>}
<1> DEFINE whole == <<i, k + 1>>
           low == <<i, k>>
           high == <<i + PagesOf[k], k>>
           R == S \ {low, high}
           T == R \cup {whole}
<1>1. PagesOf[k] \in Nat \ {0} /\ k + 1 \in Level
  BY Levels
<1>2. /\ Pages(whole) = Pages(low) \cup Pages(high)
  BY Halves
<1>3. Pages(whole) \subseteq M /\ M \subseteq Page
  BY <1>2 DEF Partition
<1>4. whole \in Block
  BY <1>1, <1>3, InMemory
<1>5. \A b \in R : b \in Block /\ Aligned(b[1], b[2]) /\ Pages(b) \cap Pages(whole) = {}
  BY <1>2 DEF Partition
<1>6. whole \notin R
  <2>1. whole[1] \in Pages(whole)
    BY <1>4, FirstPage
  <2> QED BY <1>5, <2>1
<1>7. UNION {Pages(b) : b \in T} = M
  <2>1. UNION {Pages(b) : b \in S} = M
    BY DEF Partition
  <2> QED BY <2>1, <1>2
<1>8. \A b, c \in T : b # c => Pages(b) \cap Pages(c) = {}
  <2>1. \A b, c \in R : b # c => Pages(b) \cap Pages(c) = {}
    BY DEF Partition
  <2> HIDE DEF R, whole
  <2> QED BY <1>5, <2>1
<1>9. T \subseteq Block /\ \A b \in T : Aligned(b[1], b[2])
  <2>1. whole[1] = i /\ whole[2] = k + 1
    OBVIOUS
  <2> HIDE DEF R
  <2> QED BY <1>4, <1>5, <2>1
<1>10. Partition(T, M)
  <2> HIDE DEF T
  <2> QED BY <1>3, <1>7, <1>8, <1>9 DEF Partition
<1> QED BY <1>6, <1>10

\* So does adding a page that is in no block.
LEMMA AddPart ==
  ASSUME NEW S, NEW M, Partition(S, M), NEW i \in Page, i \notin M
  PROVE  /\ Partition(S \cup {<<i, 0>>}, M \cup {i})
         /\ <<i, 0>> \notin S
<1> DEFINE new == <<i, 0>>
           T == S \cup {new}
<1>1. 0 \in Level /\ PagesOf[0] = 1 /\ i \in Nat
  BY Levels, PagesOfAssumption, SizeAssumption DEF Page
<1>2. Pages(new) = {i}
  BY <1>1, PagesAre
<1>3. new \in Block /\ Aligned(new[1], new[2])
  <2>1. i = i * PagesOf[0]
    BY <1>1
  <2> QED BY <1>1, <2>1 DEF Block, Aligned
<1>4. \A b \in S : b \in Block /\ Aligned(b[1], b[2]) /\ Pages(b) \subseteq M
  BY DEF Partition
<1>5. new \notin S
  BY <1>2, <1>4
<1>6. UNION {Pages(b) : b \in T} = M \cup {i}
  <2>1. UNION {Pages(b) : b \in S} = M
    BY DEF Partition
  <2> QED BY <2>1, <1>2
<1>7. \A b, c \in T : b # c => Pages(b) \cap Pages(c) = {}
  <2>1. \A b, c \in S : b # c => Pages(b) \cap Pages(c) = {}
    BY DEF Partition
  <2> HIDE DEF new
  <2> QED BY <1>2, <1>4, <2>1
<1>8. T \subseteq Block /\ \A b \in T : Aligned(b[1], b[2])
  <2> HIDE DEF new
  <2> QED BY <1>3, <1>4
<1>9. Partition(T, M \cup {i})
  <2>1. M \cup {i} \subseteq Page
    BY DEF Partition
  <2> HIDE DEF T
  <2> QED BY <1>6, <1>7, <1>8, <2>1 DEF Partition
<1> QED BY <1>5, <1>9

-----------------------------------------------------------------------------
(* The inductive invariant *)

AllBlocks == Free \cup owned \cup InHand

\* Nothing is in two of the three places blocks can be in.
Apart == Free \cap owned = {} /\ InHand \cap (Free \cup owned) = {}

\* Descriptors are right where a block begins; elsewhere in a block they may
\* be stale, and outside all blocks no page is marked free.
Marks ==
  /\ \A b \in Free : is_free[b[1]] /\ level[b[1]] = b[2]
  /\ \A b \in owned : ~is_free[b[1]]
  /\ \A p \in Page : is_free[p] => \E b \in AllBlocks : p \in Pages(b)

\* No list has two buddies.
Unmergeable == \A l \in Level : \A i \in free[l] : get_buddy(i, l) \notin free[l]

IInv ==
  /\ TypeOK
  /\ Partition(AllBlocks, available \ unadded)
  /\ Apart
  /\ Marks
  /\ Unmergeable
  /\ call = "allocate" => wanted <= current_level

\* The free blocks of lists f.
FreeOf(f) == {b \in Block : b[1] \in f[b[2]]}

\* Taking a block off a list, and putting one on it.
LEMMA ListChange ==
  ASSUME NEW f \in [Level -> SUBSET Page], NEW l \in Level, NEW i \in Page
  PROVE  /\ FreeOf([f EXCEPT ![l] = @ \ {i}]) = FreeOf(f) \ {<<i, l>>}
         /\ FreeOf([f EXCEPT ![l] = @ \cup {i}]) = FreeOf(f) \cup {<<i, l>>}
<1>1. <<i, l>> \in Block
  BY DEF Block
<1>2. ASSUME NEW b \in Block
      PROVE  /\ b[1] \in [f EXCEPT ![l] = @ \ {i}][b[2]] <=> b[1] \in f[b[2]] /\ b # <<i, l>>
             /\ b[1] \in [f EXCEPT ![l] = @ \cup {i}][b[2]] <=> b[1] \in f[b[2]] \/ b = <<i, l>>
  <2>1. b = <<b[1], b[2]>> /\ b[2] \in Level
    BY DEF Block
  <2> QED BY <2>1
<1> QED BY <1>1, <1>2 DEF FreeOf

LEMMA FreeIs == Free = FreeOf(free) /\ Free' = FreeOf(free')
BY DEF Free, FreeOf

\* A larger block that holds the buddy of a block holds the block.
LEMMA Enclosing ==
  ASSUME NEW k \in Level, NEW n \in Level, k < n,
         NEW i \in Nat, Aligned(i, k), NEW j \in Nat, Aligned(j, n),
         get_buddy(i, k) \in Pages(<<j, n>>)
  PROVE  i \in Pages(<<j, n>>)
<1> DEFINE B == get_buddy(i, k)
<1>1. k # TopLevel /\ k + 1 \in Level /\ k + 1 <= n
  BY Top, SizeAssumption DEF Level, level_number
<1>2. PICK m \in Nat : Aligned(m, k + 1) /\ {i, B} = {m, m + PagesOf[k]}
  BY <1>1, Pair
<1>3. Pages(<<m, k + 1>>) = Pages(<<m, k>>) \cup Pages(<<m + PagesOf[k], k>>)
  BY <1>1, <1>2, Halves
<1>4. PagesOf[k] \in Nat /\ PagesOf[k] > 0
  BY Levels
<1>5. m \in Pages(<<m, k>>) /\ m + PagesOf[k] \in Pages(<<m + PagesOf[k], k>>)
  BY <1>4, PagesAre
<1>6. i \in Pages(<<m, k + 1>>) /\ B \in Pages(<<m, k + 1>>)
  BY <1>2, <1>3, <1>5
<1>7. Pages(<<m, k + 1>>) \cap Pages(<<j, n>>) # {}
  BY <1>6
<1>8. Pages(<<m, k + 1>>) \subseteq Pages(<<j, n>>)
  BY <1>1, <1>2, <1>7, Laminar
<1> QED BY <1>6, <1>8

\* What free_page reads in the descriptor of a buddy is true of it.
LEMMA BuddyRight ==
  ASSUME IInv, call = "free", NEW b \in InHand
  PROVE  CanMerge(b[1], b[2]) <=> get_buddy(b[1], b[2]) \in free[b[2]]
<1> DEFINE i == b[1]
           k == b[2]
           B == get_buddy(i, k)
<1> USE DEF IInv
<1>1. b \in Block /\ b \in AllBlocks /\ Aligned(i, k) /\ b = <<i, k>>
  <2>1. b \in AllBlocks
    BY DEF AllBlocks
  <2>2. b \in Block /\ Aligned(i, k)
    BY <2>1 DEF Partition
  <2> QED BY <2>1, <2>2, FirstPage
<1>2. i \in Nat /\ k \in Level
  BY <1>1, FirstPage
<1>3. B \in Nat /\ B # i /\ Aligned(B, k)
  BY <1>1, <1>2, Involution
<1>4. ASSUME B \in free[k] PROVE CanMerge(i, k)
  <2>1. B \in Page /\ <<B, k>> \in Free
    BY <1>2, <1>4 DEF TypeOK, Free, Block
  <2>2. is_free[B] /\ level[B] = k
    BY <2>1 DEF Marks
  <2>3. B < descriptors_size
    BY <2>1, SizeAssumption DEF Page
  <2> QED BY <2>2, <2>3 DEF CanMerge
<1>5. ASSUME CanMerge(i, k) PROVE B \in free[k]
  <2>1. B \in Page /\ is_free[B] /\ level[B] = k
    BY <1>3, <1>5, SizeAssumption DEF CanMerge, Page
  <2>2. PICK c \in AllBlocks : B \in Pages(c)
    BY <2>1 DEF Marks
  <2>3. c \in Block /\ Aligned(c[1], c[2])
    BY DEF Partition
  <2>4. c = <<c[1], c[2]>> /\ c[1] \in Nat /\ c[2] \in Level
    BY <2>3, FirstPage
  <2>5. ASSUME c[2] > k PROVE FALSE
    <3>1. k < c[2]
      BY <1>2, <2>4, <2>5, Levels
    <3>2. B \in Pages(<<c[1], c[2]>>)
      BY <2>2, <2>4
    <3>3. i \in Pages(<<c[1], c[2]>>)
      <4> HIDE DEF i, k
      <4> QED BY <1>1, <1>2, <2>3, <2>4, <3>1, <3>2, Enclosing
    <3>4. i \in Pages(c)
      BY <2>4, <3>3
    <3>5. i \in Pages(b)
      BY <1>1, FirstPage
    <3>6. b = c
      BY <1>1, <3>4, <3>5 DEF Partition
    <3> QED BY <1>2, <2>4, <2>5, <3>6, Levels
  <2>6. c[2] <= k
    <3>1. c[2] \in Nat /\ k \in Nat
      BY <1>2, <2>4, Levels
    <3> QED BY <2>5, <3>1
  <2>7. B = c[1]
    BY <1>2, <1>3, <2>2, <2>3, <2>4, <2>6, Heads
  <2>8. c \notin InHand
    <3>1. ASSUME c \in InHand PROVE FALSE
      <4>1. b = c
        BY <3>1 DEF InHand
      <4> QED BY <1>3, <2>7, <4>1
    <3> QED BY <3>1
  <2>9. c \notin owned
    BY <2>1, <2>7 DEF Marks
  <2>10. c \in Free
    BY <2>8, <2>9 DEF AllBlocks
  <2>11. level[c[1]] = c[2] /\ c[1] \in free[c[2]]
    BY <2>10 DEF Marks, Free
  <2> QED BY <2>1, <2>7, <2>11
<1> QED BY <1>4, <1>5

\* Different blocks of a partition begin at different pages.
LEMMA HeadsApart ==
  ASSUME NEW S, NEW M, Partition(S, M)
  PROVE  \A b, c \in S : b[1] = c[1] => b = c
<1>1. \A b \in S : b[1] \in Pages(b)
  BY FirstPage DEF Partition
<1> QED BY <1>1 DEF Partition

\* A block of the highest level begins at page 0 and has no buddy in memory.
LEMMA AtTop ==
  ASSUME NEW b \in Block, Aligned(b[1], b[2]), b[2] = TopLevel
  PROVE  ~CanMerge(b[1], b[2])
<1> DEFINE T == PagesOf[TopLevel]
<1>1. b[1] \in Nat /\ b[1] < descriptors_size /\ T \in Nat \ {0} /\ descriptors_size <= T
  BY Levels, Top, SizeAssumption DEF Block, Page
<1>2. PICK q \in Nat : b[1] = q * T
  BY DEF Aligned
<1>3. q = 0
  <2> HIDE DEF T
  <2>1. CASE q >= 1
    <3>1. PICK d \in Nat : q = d + 1
      <4>1. q - 1 \in Nat /\ q = (q - 1) + 1
        BY <2>1
      <4> QED BY <4>1
    <3>2. q * T = d * T + T /\ d * T \in Nat
      BY <1>1, <3>1
    <3> QED BY <1>1, <1>2, <3>2, SizeAssumption
  <2> QED BY <2>1
<1>4. b[1] = 0
  BY ONLY <1>1, <1>2, <1>3
<1>5. get_buddy(0, TopLevel) = T
  <2>1. (0 \div T) % 2 = 0
    <3> HIDE DEF T
    <3>1. 0 \div T = 0
      BY <1>1, Division
    <3> QED BY <3>1
  <2> QED BY <1>1, <2>1 DEF get_buddy
<1> QED BY <1>1, <1>4, <1>5, SizeAssumption DEF CanMerge

-----------------------------------------------------------------------------
(* The steps preserve the invariant. *)

LEMMA InitInv == Init => IInv
<1> SUFFICES ASSUME Init PROVE IInv
  OBVIOUS
<1>1. 0 \in Page /\ 0 \in Level
  BY SizeAssumption, Levels DEF Page
<1>2. TypeOK
  BY <1>1, MemoriesAssumption, GarbageAssumption DEF Init, TypeOK
<1>3. Free = {} /\ owned = {} /\ InHand = {} /\ available \ unadded = {}
  BY DEF Init, Free, InHand, Block
<1>4. AllBlocks = {} /\ Apart
  BY <1>3 DEF AllBlocks, Apart
<1>5. Partition(AllBlocks, available \ unadded)
  BY <1>3, <1>4 DEF Partition
<1>6. Marks
  BY <1>3 DEF Marks, Init
<1>7. Unmergeable
  BY DEF Unmergeable, Init
<1> QED BY <1>2, <1>4, <1>5, <1>6, <1>7 DEF IInv, Init

LEMMA AllocatePageInv ==
  ASSUME IInv, NEW l \in 0 .. MaxRequest, AllocatePage(l)
  PROVE  IInv'
<1> USE DEF IInv
<1>1. PICK up \in l .. level_number - 1 : \E i \in free[up] :
        free' = [free EXCEPT ![up] = @ \ {i}] /\ Start("allocate", i, up, l)
  BY DEF AllocatePage
<1>2. PICK i \in free[up] :
        free' = [free EXCEPT ![up] = @ \ {i}] /\ Start("allocate", i, up, l)
  BY <1>1
<1>3. l \in Level /\ up \in Level /\ l <= up
  BY RequestAssumption, Levels, Top, SizeAssumption DEF Level, level_number
<1>4. i \in Page
  BY <1>2, <1>3 DEF TypeOK
<1>5. TypeOK'
  BY <1>2, <1>3, <1>4 DEF TypeOK, AllocatePage, Start, descriptors
<1>6. Free' = Free \ {<<i, up>>} /\ <<i, up>> \in Free
  <2>1. Free' = Free \ {<<i, up>>}
    BY <1>2, <1>3, <1>4, FreeIs, ListChange DEF TypeOK
  <2> QED BY <1>2, <1>3, <1>4, <2>1 DEF Free, Block
<1>7. InHand = {} /\ InHand' = {<<i, up>>} /\ owned' = owned
  BY <1>2 DEF InHand, Start, AllocatePage
<1>8. AllBlocks' = AllBlocks
  BY <1>6, <1>7 DEF AllBlocks
<1>9. Apart'
  BY <1>6, <1>7 DEF Apart
<1>10. is_free' = is_free /\ level' = level /\ available' = available /\ unadded' = unadded
  BY DEF AllocatePage, descriptors
<1>11. Marks'
  BY <1>6, <1>7, <1>8, <1>10 DEF Marks
<1>12. Unmergeable'
  <2>1. \A k \in Level : free'[k] \subseteq free[k]
    BY <1>2, <1>3 DEF TypeOK
  <2> QED BY <2>1 DEF Unmergeable
<1>13. Partition(AllBlocks, available \ unadded)'
  BY <1>8, <1>10 DEF Partition
<1>14. (call = "allocate" => wanted <= current_level)'
  BY <1>2, <1>3 DEF Start
<1> QED BY <1>5, <1>9, <1>11, <1>12, <1>13, <1>14

\* Listing a block whose buddy is not in the list leaves no two buddies there.
LEMMA ListedUnmergeable ==
  ASSUME TypeOK, Unmergeable, \A b \in Free : Aligned(b[1], b[2]),
         NEW k \in Level, NEW j \in Page, Aligned(j, k), get_buddy(j, k) \notin free[k],
         free' = [free EXCEPT ![k] = @ \cup {j}]
  PROVE  Unmergeable'
<1>1. j \in Nat
  BY DEF Page
<1>2. get_buddy(j, k) # j /\ get_buddy(get_buddy(j, k), k) = j
  BY <1>1, Involution
<1>3. ASSUME NEW i \in free[k] PROVE get_buddy(i, k) # j
  <2>1. i \in Page /\ <<i, k>> \in Free
    BY DEF TypeOK, Free, Block
  <2>2. i \in Nat /\ Aligned(i, k)
    BY <2>1 DEF Page
  <2>3. get_buddy(get_buddy(i, k), k) = i
    BY <2>2, Involution
  <2> QED BY <2>3
<1>4. \A l \in Level : free'[l] = IF l = k THEN free[k] \cup {j} ELSE free[l]
  BY DEF TypeOK
<1> SUFFICES ASSUME NEW l \in Level, NEW i \in free'[l] PROVE get_buddy(i, l) \notin free'[l]
  BY DEF Unmergeable, get_buddy
<1>5. CASE l # k
  BY <1>4, <1>5 DEF Unmergeable
<1>6. CASE l = k /\ i = j
  BY <1>2, <1>4, <1>6
<1>7. CASE l = k /\ i \in free[k]
  <2>1. get_buddy(i, k) \notin free[k]
    BY <1>7 DEF Unmergeable
  <2> QED BY <1>3, <1>4, <1>7, <2>1
<1> QED BY <1>4, <1>5, <1>6, <1>7

LEMMA SplitInv ==
  ASSUME IInv, Split
  PROVE  IInv'
<1> DEFINE k == current_level - 1
           P == PagesOf[k]
           whole == <<id, current_level>>
           low == <<id, k>>
           high == <<id + P, k>>
           M == available \ unadded
<1> USE DEF IInv
<1>1. call = "allocate" /\ current_level > wanted /\ wanted \in Level /\ current_level \in Level /\ id \in Page
  BY DEF Split, TypeOK
<1>2. k \in Level /\ k # TopLevel /\ k + 1 = current_level /\ P \in Nat
  <2>1. k \in Level /\ k # TopLevel /\ k + 1 = current_level
    BY <1>1, Top, SizeAssumption DEF Level, level_number
  <2> QED BY <2>1, Levels
<1>3. id \in Nat /\ whole \in InHand /\ whole \in AllBlocks
  BY <1>1 DEF InHand, AllBlocks, Page
<1>4. Aligned(id, k + 1)
  BY <1>2, <1>3 DEF Partition
<1>5. get_buddy(id, k) = id + P
  BY <1>2, <1>3, <1>4, Halves
<1>6. /\ Partition((AllBlocks \ {whole}) \cup {low, high}, M)
      /\ low \notin AllBlocks \ {whole} /\ high \notin AllBlocks \ {whole} /\ low # high
  <2>1. <<id, k + 1>> \in AllBlocks
    BY <1>2, <1>3
  <2> HIDE DEF k
  <2> QED BY <1>2, <1>3, <2>1, SplitPart
<1>7. id + P \in Page
  BY <1>6 DEF Partition, Block
<1>8. /\ free' = [free EXCEPT ![k] = @ \cup {id + P}]
      /\ is_free' = [is_free EXCEPT ![id + P] = TRUE]
      /\ level' = [level EXCEPT ![id + P] = k]
      /\ current_level' = k
  BY <1>5 DEF Split, Listed
<1>9. /\ available' = available /\ unadded' = unadded /\ owned' = owned /\ reply' = reply
      /\ call' = call /\ id' = id /\ wanted' = wanted
  BY DEF Split
<1> HIDE DEF k, P
<1>10. TypeOK'
  <2>1. k \in Nat
    BY <1>2, Levels
  <2> QED BY <2>1, <1>2, <1>7, <1>8, <1>9 DEF TypeOK
<1>11. Free' = Free \cup {high}
  BY <1>2, <1>7, <1>8, FreeIs, ListChange DEF TypeOK
<1>12. InHand = {whole} /\ InHand' = {low} /\ whole \notin Free \cup owned
  <2>1. InHand = {whole} /\ InHand' = {low}
    BY <1>1, <1>8, <1>9 DEF InHand
  <2> QED BY <2>1 DEF Apart
<1>13. AllBlocks' = (AllBlocks \ {whole}) \cup {low, high}
  <2> HIDE DEF low, high, whole
  <2> QED BY <1>9, <1>11, <1>12 DEF AllBlocks
<1>14. Partition(AllBlocks, M)'
  <2> HIDE DEF low, high, whole
  <2> QED BY <1>6, <1>9, <1>13 DEF Partition
<1>15. Apart'
  <2>1. low \notin Free \cup owned /\ high \notin owned
    <3> HIDE DEF low, high, whole
    <3> QED BY <1>6, <1>12 DEF AllBlocks
  <2> HIDE DEF low, high, whole
  <2> QED BY <1>6, <1>9, <1>11, <1>12, <2>1 DEF Apart
<1>16. \A b \in AllBlocks' : b[1] = id + P => b = high
  <2>1. high \in AllBlocks' /\ high[1] = id + P
    BY <1>13
  <2>2. Partition(AllBlocks', M')
    BY <1>14
  <2> QED BY <2>1, <2>2, HeadsApart
<1>17. Marks'
  <2>1. ASSUME NEW b \in Free' PROVE is_free'[b[1]] /\ level'[b[1]] = b[2]
    <3>1. CASE b = high
      BY <1>7, <1>8, <3>1 DEF TypeOK
    <3>2. CASE b # high
      <4>1. b \in Free /\ b \in AllBlocks' /\ b[1] \in Page
        BY <1>11, <2>1, <3>2 DEF AllBlocks, Free, Block
      <4>2. b[1] # id + P
        BY <1>16, <3>2, <4>1
      <4> QED BY <1>8, <4>1, <4>2 DEF Marks, TypeOK
    <3> QED BY <3>1, <3>2
  <2>2. ASSUME NEW b \in owned' PROVE ~is_free'[b[1]]
    <3>1. b \in owned /\ b \in AllBlocks' /\ b[1] \in Page
      BY <1>9, <2>2 DEF AllBlocks, TypeOK, Block
    <3>2. b # high
      BY <1>11, <1>15, <2>2 DEF Apart
    <3>3. b[1] # id + P
      BY <1>16, <3>1, <3>2
    <3> QED BY <1>8, <3>1, <3>3 DEF Marks, TypeOK
  <2>3. ASSUME NEW p \in Page, is_free'[p] PROVE \E b \in AllBlocks' : p \in Pages(b)
    <3>1. p \in M
      <4>1. CASE p = id + P
        <5>1. high \in AllBlocks' /\ high[1] = p
          BY <1>13, <4>1
        <5>2. high \in Block
          BY <1>6 DEF Partition
        <5>3. p \in Pages(high)
          BY <5>1, <5>2, FirstPage
        <5> QED BY <1>6, <5>3 DEF Partition
      <4>2. CASE p # id + P
        <5>1. is_free[p]
          BY <1>8, <2>3, <4>2 DEF TypeOK
        <5> QED BY <5>1 DEF Marks, Partition
      <4> QED BY <4>1, <4>2
    <3> QED BY <1>6, <1>13, <3>1 DEF Partition
  <2> QED BY <2>1, <2>2, <2>3 DEF Marks
<1>18. Unmergeable'
  <2>1. Aligned(id + P, k) /\ get_buddy(id + P, k) = id
    <3>1. Aligned(id, k)
      BY <1>2, <1>3, <1>4, Halves
    <3> QED BY <1>2, <1>3, <1>5, <3>1, Involution
  <2>2. id \notin free[k]
    <3>1. low \notin Free
      BY <1>11, <1>12, <1>15 DEF Apart
    <3> QED BY <1>1, <1>2, <3>1 DEF Free, Block
  <2>3. \A b \in Free : Aligned(b[1], b[2])
    BY DEF Partition, AllBlocks
  <2> QED BY <1>2, <1>7, <1>8, <2>1, <2>2, <2>3, ListedUnmergeable
<1>19. (call = "allocate" => wanted <= current_level)'
  <2>1. wanted <= k
    BY <1>1, Levels DEF k
  <2> QED BY <1>8, <1>9, <2>1
<1> QED BY <1>10, <1>14, <1>15, <1>17, <1>18, <1>19

LEMMA HandOverInv ==
  ASSUME IInv, HandOver
  PROVE  IInv'
<1> DEFINE b0 == <<id, wanted>>
<1> USE DEF IInv
<1>1. call = "allocate" /\ current_level = wanted /\ id \in Page /\ wanted \in Level
  BY DEF HandOver, TypeOK
<1>2. InHand = {b0} /\ InHand' = {} /\ owned' = owned \cup {b0} /\ Free' = Free
  BY <1>1 DEF HandOver, InHand, Return, Free
<1>3. AllBlocks' = AllBlocks
  BY <1>2 DEF AllBlocks
<1>4. TypeOK'
  <2>1. 0 \in Page /\ 0 \in Level /\ wanted \in Nat
    BY <1>1, SizeAssumption, Levels DEF Page
  <2>2. b0 \in Block
    BY <1>1 DEF Block
  <2> QED BY <1>1, <1>2, <2>1, <2>2 DEF TypeOK, HandOver, ClearMark, Return
<1>5. Partition(AllBlocks, available \ unadded)'
  BY <1>3 DEF Partition, HandOver
<1>6. Apart'
  BY <1>2 DEF Apart
<1>7. \A b \in Free \cup owned : b[1] # id
  <2>1. b0 \in AllBlocks /\ b0[1] = id
    BY <1>2 DEF AllBlocks
  <2>2. \A b \in Free \cup owned : b \in AllBlocks /\ b # b0
    BY <1>2 DEF AllBlocks, Apart
  <2> HIDE DEF b0
  <2> QED BY <2>1, <2>2, HeadsApart
<1>8. is_free' = [is_free EXCEPT ![id] = FALSE] /\ level' = [level EXCEPT ![id] = wanted]
  BY DEF HandOver, ClearMark
<1>9. Marks'
  <2>1. \A b \in Free' : is_free'[b[1]] /\ level'[b[1]] = b[2]
    <3>1. \A b \in Free : b[1] \in Page
      BY DEF Free, Block
    <3> QED BY <1>2, <1>7, <1>8, <3>1 DEF Marks, TypeOK
  <2>2. \A b \in owned' : ~is_free'[b[1]]
    <3>1. \A b \in owned : b[1] \in Page
      BY DEF TypeOK, Block
    <3> QED BY <1>1, <1>2, <1>7, <1>8, <3>1 DEF Marks, TypeOK
  <2>3. \A p \in Page : is_free'[p] => is_free[p]
    BY <1>8 DEF TypeOK
  <2> QED BY <1>3, <2>1, <2>2, <2>3 DEF Marks
<1>10. Unmergeable'
  BY DEF Unmergeable, HandOver, get_buddy
<1>11. (call = "allocate" => wanted <= current_level)'
  BY DEF HandOver, Return
<1> QED BY <1>4, <1>5, <1>6, <1>9, <1>10, <1>11

LEMMA AddPageInv ==
  ASSUME IInv, AddPage
  PROVE  IInv'
<1> USE DEF IInv
<1>1. PICK i \in unadded : /\ is_free' = [is_free EXCEPT ![i] = TRUE]
                           /\ unadded' = unadded \ {i}
                           /\ Start("free", i, 0, 0)
  BY DEF AddPage
<1> DEFINE M == available \ unadded
           new == <<i, 0>>
<1>2. i \in Page /\ i \notin M /\ (available \ unadded)' = M \cup {i} /\ 0 \in Level
  BY <1>1, Levels DEF TypeOK, AddPage
<1>3. Partition(AllBlocks \cup {new}, M \cup {i}) /\ new \notin AllBlocks
  BY <1>2, AddPart
<1>4. InHand = {} /\ InHand' = {new} /\ owned' = owned /\ Free' = Free
  BY <1>1 DEF InHand, Start, AddPage, Free
<1>5. AllBlocks' = AllBlocks \cup {new}
  BY <1>4 DEF AllBlocks
<1>6. TypeOK'
  BY <1>1, <1>2 DEF TypeOK, AddPage, Start
<1>7. Partition(AllBlocks, available \ unadded)'
  BY <1>2, <1>3, <1>5 DEF Partition
<1>8. Apart'
  BY <1>3, <1>4 DEF Apart, AllBlocks
<1>9. Marks'
  <2>1. \A b \in Free : is_free'[b[1]] /\ level'[b[1]] = b[2]
    <3>1. \A b \in Free : b[1] \in Page
      BY DEF Free, Block
    <3> QED BY <1>1, <3>1 DEF Marks, TypeOK, AddPage
  <2>2. ASSUME NEW b \in owned PROVE ~is_free'[b[1]]
    <3>1. b \in AllBlocks /\ b \in Block /\ b[1] \in Page
      BY DEF AllBlocks, TypeOK, Block
    <3>2. b[1] \in M
      BY <3>1, FirstPage DEF Partition
    <3>3. b[1] # i
      BY <1>2, <3>2
    <3> QED BY <1>1, <3>1, <3>3 DEF Marks, TypeOK
  <2>3. ASSUME NEW p \in Page, is_free'[p] PROVE \E b \in AllBlocks' : p \in Pages(b)
    <3>1. p \in M \cup {i}
      <4>1. p = i \/ is_free[p]
        BY <1>1, <2>3 DEF TypeOK
      <4> QED BY <4>1 DEF Marks, Partition
    <3> QED BY <1>3, <1>5, <3>1 DEF Partition
  <2> QED BY <1>4, <2>1, <2>2, <2>3 DEF Marks
<1>10. Unmergeable'
  BY DEF Unmergeable, AddPage, get_buddy
<1>11. (call = "allocate" => wanted <= current_level)'
  BY <1>1 DEF Start
<1> QED BY <1>6, <1>7, <1>8, <1>9, <1>10, <1>11

LEMMA FreePageInv ==
  ASSUME IInv, NEW b0 \in owned, FreePage(b0)
  PROVE  IInv'
<1> USE DEF IInv
<1>1. b0 \in Block /\ b0 = <<b0[1], b0[2]>> /\ b0[1] \in Page /\ b0[2] \in Level
  BY DEF TypeOK, Block
<1>2. InHand = {} /\ InHand' = {b0} /\ owned' = owned \ {b0} /\ Free' = Free
  BY <1>1 DEF InHand, Start, FreePage, Free
<1>3. AllBlocks' = AllBlocks
  BY <1>2 DEF AllBlocks
<1>4. TypeOK'
  BY <1>1, Levels DEF TypeOK, FreePage, Start, descriptors
<1>5. Partition(AllBlocks, available \ unadded)'
  BY <1>3 DEF Partition, FreePage
<1>6. Apart'
  BY <1>2 DEF Apart
<1>7. Marks'
  BY <1>2, <1>3 DEF Marks, FreePage, descriptors
<1>8. Unmergeable'
  BY DEF Unmergeable, FreePage, get_buddy
<1>9. (call = "allocate" => wanted <= current_level)'
  BY DEF FreePage, Start
<1> QED BY <1>4, <1>5, <1>6, <1>7, <1>8, <1>9

\* The block free_page holds, and what it knows of its buddy.
LEMMA FreeInHand ==
  ASSUME IInv, call = "free"
  PROVE  /\ id \in Page /\ current_level \in Level /\ Aligned(id, current_level)
         /\ <<id, current_level>> \in InHand /\ <<id, current_level>> \in AllBlocks
         /\ InHand = {<<id, current_level>>}
         /\ CanMerge(id, current_level) <=> get_buddy(id, current_level) \in free[current_level]
         /\ CanMerge(id, current_level) => current_level # TopLevel
<1> DEFINE b == <<id, current_level>>
<1> USE DEF IInv
<1>1. id \in Page /\ current_level \in Level
  BY DEF TypeOK
<1>2. b \in InHand /\ b \in AllBlocks /\ InHand = {b} /\ b[1] = id /\ b[2] = current_level
  BY DEF InHand, AllBlocks
<1> HIDE DEF b
<1>3. b \in Block /\ Aligned(b[1], b[2])
  BY <1>2 DEF Partition
<1>4. CanMerge(b[1], b[2]) <=> get_buddy(b[1], b[2]) \in free[b[2]]
  BY <1>2, BuddyRight
<1>5. b[2] = TopLevel => ~CanMerge(b[1], b[2])
  BY <1>3, AtTop
<1> QED BY <1>1, <1>2, <1>3, <1>4, <1>5 DEF b

LEMMA MergeInv ==
  ASSUME IInv, Merge
  PROVE  IInv'
<1> DEFINE k == current_level
           B == get_buddy(id, k)
           m == IF id < B THEN id ELSE B
           mine == <<id, k>>
           other == <<B, k>>
           whole == <<m, k + 1>>
           M == available \ unadded
<1> USE DEF IInv
<1>1. call = "free" /\ CanMerge(id, k)
  BY DEF Merge
<1>2. /\ id \in Page /\ k \in Level /\ Aligned(id, k) /\ mine \in AllBlocks /\ InHand = {mine}
      /\ B \in free[k] /\ k # TopLevel
  BY <1>1, FreeInHand
<1>3. id \in Nat /\ B \in Page /\ other \in Free /\ other \in AllBlocks
  BY <1>2 DEF TypeOK, Page, Free, Block, AllBlocks
<1>4. k + 1 \in Level
  BY <1>2, Levels
<1>5. m \in Nat /\ Aligned(m, k + 1) /\ {id, B} = {m, m + PagesOf[k]}
  BY <1>2, <1>3, Pair
<1>6. m \in Page
  BY <1>2, <1>3
<1>7. /\ free' = [free EXCEPT ![k] = @ \ {B}]
      /\ id' = m /\ current_level' = k + 1
  BY DEF Merge
<1>8. /\ available' = available /\ is_free' = is_free /\ level' = level /\ unadded' = unadded
      /\ owned' = owned /\ reply' = reply /\ call' = call /\ wanted' = wanted
  BY DEF Merge, descriptors
<1> HIDE DEF m, B, k
<1>9. /\ Partition((AllBlocks \ {mine, other}) \cup {whole}, M)
      /\ whole \notin AllBlocks \ {mine, other}
  <2>1. {mine, other} = {<<m, k>>, <<m + PagesOf[k], k>>}
    BY <1>5
  <2>2. <<m, k>> \in AllBlocks /\ <<m + PagesOf[k], k>> \in AllBlocks
    BY <1>2, <1>3, <2>1
  <2> HIDE DEF mine, other
  <2> QED BY <1>2, <1>5, <2>1, <2>2, JoinPart
<1>10. Free' = Free \ {other}
  BY <1>2, <1>3, <1>7, FreeIs, ListChange DEF TypeOK
<1>11. InHand' = {whole}
  BY <1>1, <1>7, <1>8 DEF InHand
<1>12. mine \notin Free \cup owned /\ other \notin owned
  BY <1>2, <1>3 DEF Apart
<1> HIDE DEF mine, other, whole
<1>13. AllBlocks' = (AllBlocks \ {mine, other}) \cup {whole}
  BY <1>2, <1>8, <1>10, <1>11, <1>12 DEF AllBlocks
<1>14. Partition(AllBlocks, M)'
  BY <1>8, <1>9, <1>13
<1>15. TypeOK'
  BY <1>2, <1>4, <1>6, <1>7, <1>8 DEF TypeOK
<1>16. Apart'
  <2>1. whole \notin Free' \cup owned'
    BY <1>8, <1>9, <1>10, <1>12 DEF AllBlocks
  <2> QED BY <1>8, <1>10, <1>11, <2>1 DEF Apart
<1>17. Marks'
  <2>1. \A p \in Page : is_free'[p] => p \in M
    BY <1>8 DEF Marks, Partition
  <2>2. \A p \in M : \E b \in AllBlocks' : p \in Pages(b)
    BY <1>9, <1>13 DEF Partition
  <2> QED BY <1>8, <1>10, <2>1, <2>2 DEF Marks
<1>18. Unmergeable'
  <2>1. \A l \in Level : free'[l] \subseteq free[l]
    BY <1>2, <1>7 DEF TypeOK
  <2> QED BY <2>1 DEF Unmergeable, get_buddy
<1>19. (call = "allocate" => wanted <= current_level)'
  BY <1>1, <1>8
<1> QED BY <1>14, <1>15, <1>16, <1>17, <1>18, <1>19

LEMMA PutBackInv ==
  ASSUME IInv, PutBack
  PROVE  IInv'
<1> DEFINE k == current_level
           b0 == <<id, k>>
<1> USE DEF IInv
<1>1. call = "free" /\ ~CanMerge(id, k)
  BY DEF PutBack
<1>2. /\ id \in Page /\ k \in Level /\ Aligned(id, k) /\ b0 \in AllBlocks /\ InHand = {b0}
      /\ get_buddy(id, k) \notin free[k]
  BY <1>1, FreeInHand
<1>3. /\ free' = [free EXCEPT ![k] = @ \cup {id}]
      /\ is_free' = [is_free EXCEPT ![id] = TRUE]
      /\ level' = [level EXCEPT ![id] = k]
  BY DEF PutBack, Listed
<1>4. /\ call' = "none" /\ id' = 0 /\ current_level' = 0 /\ wanted' = 0
      /\ available' = available /\ unadded' = unadded /\ owned' = owned /\ reply' = reply
  BY DEF PutBack, Return
<1> HIDE DEF k
<1>5. Free' = Free \cup {b0} /\ InHand' = {}
  <2>1. Free' = Free \cup {b0}
    BY <1>2, <1>3, FreeIs, ListChange DEF TypeOK
  <2> QED BY <1>4, <2>1 DEF InHand
<1>6. AllBlocks' = AllBlocks
  BY <1>2, <1>4, <1>5 DEF AllBlocks
<1>7. Partition(AllBlocks, available \ unadded)'
  BY <1>4, <1>6
<1>8. TypeOK'
  <2>1. 0 \in Page /\ 0 \in Level /\ k \in Nat
    BY <1>2, SizeAssumption, Levels DEF Page
  <2> QED BY <1>2, <1>3, <1>4, <2>1 DEF TypeOK
<1>9. Apart'
  BY <1>2, <1>4, <1>5 DEF Apart
<1>10. \A b \in AllBlocks : b[1] = id => b = b0
  <2>1. b0[1] = id
    OBVIOUS
  <2> QED BY <1>2, <2>1, HeadsApart
<1>11. Marks'
  <2>1. ASSUME NEW b \in Free' PROVE is_free'[b[1]] /\ level'[b[1]] = b[2]
    <3>1. CASE b = b0
      BY <1>2, <1>3, <3>1 DEF TypeOK
    <3>2. CASE b # b0
      <4>1. b \in Free /\ b \in AllBlocks /\ b[1] \in Page
        BY <1>5, <2>1, <3>2 DEF AllBlocks, Free, Block
      <4>2. b[1] # id
        BY <1>10, <3>2, <4>1
      <4> QED BY <1>3, <4>1, <4>2 DEF Marks, TypeOK
    <3> QED BY <3>1, <3>2
  <2>2. ASSUME NEW b \in owned' PROVE ~is_free'[b[1]]
    <3>1. b \in owned /\ b \in AllBlocks /\ b[1] \in Page
      BY <1>4, <2>2 DEF AllBlocks, TypeOK, Block
    <3>2. b # b0
      BY <1>2, <3>1 DEF Apart
    <3>3. b[1] # id
      BY <1>10, <3>1, <3>2
    <3> QED BY <1>3, <3>1, <3>3 DEF Marks, TypeOK
  <2>3. ASSUME NEW p \in Page, is_free'[p] PROVE \E b \in AllBlocks' : p \in Pages(b)
    <3>1. CASE p = id
      <4>1. b0 \in Block /\ b0[1] = p
        BY <1>2, <3>1 DEF Block
      <4>2. p \in Pages(b0)
        BY <4>1, FirstPage
      <4> QED BY <1>2, <1>6, <4>2
    <3>2. CASE p # id
      <4>1. is_free[p]
        BY <1>3, <2>3, <3>2 DEF TypeOK
      <4> QED BY <1>6, <4>1 DEF Marks
    <3> QED BY <3>1, <3>2
  <2> QED BY <2>1, <2>2, <2>3 DEF Marks
<1>12. Unmergeable'
  <2>1. \A b \in Free : Aligned(b[1], b[2])
    BY DEF Partition, AllBlocks
  <2> QED BY <1>2, <1>3, <2>1, ListedUnmergeable
<1>13. (call = "allocate" => wanted <= current_level)'
  BY <1>4
<1> QED BY <1>7, <1>8, <1>9, <1>11, <1>12, <1>13

-----------------------------------------------------------------------------
(* The theorems *)

LEMMA Invariant == Spec => []IInv
<1>1. Init => IInv
  BY InitInv
<1>2. IInv /\ [Next]_vars => IInv'
  <2> SUFFICES ASSUME IInv, [Next]_vars PROVE IInv'
    OBVIOUS
  <2>1. CASE AddPage
    BY <2>1, AddPageInv
  <2>2. CASE \E l \in 0 .. MaxRequest : AllocatePage(l)
    BY <2>2, AllocatePageInv
  <2>3. CASE \E l \in 0 .. MaxRequest : AllocateNone(l)
    <3>1. /\ UNCHANGED <<available, is_free, level, free, unadded, owned, call, id, current_level, wanted>>
          /\ reply' = <<>>
      BY <2>3 DEF AllocateNone, descriptors, locals
    <3>2. TypeOK'
      BY <3>1 DEF IInv, TypeOK
    <3>3. AllBlocks' = AllBlocks /\ Free' = Free /\ InHand' = InHand
      BY <3>1 DEF AllBlocks, Free, InHand
    <3> QED BY <3>1, <3>2, <3>3 DEF IInv, Apart, Marks, Unmergeable, get_buddy
  <2>4. CASE Split
    BY <2>4, SplitInv
  <2>5. CASE HandOver
    BY <2>5, HandOverInv
  <2>6. CASE \E b \in owned : FreePage(b)
    BY <2>6, FreePageInv
  <2>7. CASE Merge
    BY <2>7, MergeInv
  <2>8. CASE PutBack
    BY <2>8, PutBackInv
  <2>9. CASE UNCHANGED vars
    <3>1. UNCHANGED <<available, is_free, level, free, unadded, owned, reply, call, id, current_level, wanted>>
      BY <2>9 DEF vars, descriptors, locals
    <3>2. TypeOK'
      BY <3>1 DEF IInv, TypeOK
    <3>3. AllBlocks' = AllBlocks /\ Free' = Free /\ InHand' = InHand
      BY <3>1 DEF AllBlocks, Free, InHand
    <3> QED BY <3>1, <3>2, <3>3 DEF IInv, Apart, Marks, Unmergeable, get_buddy
  <2> QED BY <2>1, <2>2, <2>3, <2>4, <2>5, <2>6, <2>7, <2>8, <2>9 DEF Next
<1> QED BY <1>1, <1>2, PTL DEF Spec

\* Every reachable state has the types the code's variables have; in
\* particular, no loop of allocate_page or free_page leaves the levels.
THEOREM TypeCorrect == Spec => []TypeOK
<1>1. IInv => TypeOK
  BY DEF IInv
<1> QED BY <1>1, Invariant, PTL

\* No page is lost or handed out twice, for every size of the memory, every
\* memory map and every sequence of calls of allocate_page and free_page.
THEOREM PagesConserved == Spec => []Conserved
<1>1. IInv => Conserved
  BY DEF IInv, Conserved, Partition, AllBlocks, Apart
<1> QED BY <1>1, Invariant, PTL

\* What free_page reads in a descriptor, stale or not, tells it whether the
\* buddy of its block is free as a whole.
THEOREM BuddyAlwaysKnown == Spec => []BuddyKnown
<1>1. IInv => BuddyKnown
  <2> SUFFICES ASSUME IInv, call = "free"
               PROVE  CanMerge(id, current_level) <=> get_buddy(id, current_level) \in free[current_level]
    BY DEF BuddyKnown
  <2> QED BY FreeInHand
<1> QED BY <1>1, Invariant, PTL

\* A block is no larger than one it is in.
LEMMA Fits ==
  ASSUME NEW k \in Level, NEW n \in Level, NEW i \in Nat, NEW j \in Nat,
         Pages(<<i, k>>) \subseteq Pages(<<j, n>>)
  PROVE  k <= n
<1> SUFFICES ASSUME n < k PROVE FALSE
  BY Levels
<1> DEFINE P == PagesOf[k]
           Q == PagesOf[n]
<1>1. P \in Nat /\ P > 0 /\ Q \in Nat /\ Q > 0
  BY Levels
<1>2. n \in Nat /\ k \in Nat /\ n # TopLevel
  BY Levels, Top, SizeAssumption DEF Level, level_number
<1>3. n + 1 \in Level /\ PagesOf[n + 1] = 2 * Q /\ n + 1 <= k
  BY <1>2, Levels
<1>4. PICK c \in Nat \ {0} : P = c * PagesOf[n + 1]
  BY <1>3, Multiples
<1>5. P >= 2 * Q
  <2> HIDE DEF P, Q
  <2>1. c * (2 * Q) >= 2 * Q
    <3>1. PICK d \in Nat : c = d + 1
      <4>1. c - 1 \in Nat /\ c = (c - 1) + 1
        OBVIOUS
      <4> QED BY <4>1
    <3>2. c * (2 * Q) = d * (2 * Q) + 2 * Q /\ d * (2 * Q) >= 0
      BY <1>1, <3>1
    <3> QED BY <1>1, <3>2
  <2> QED BY <1>3, <1>4, <2>1
<1>6. i \in Pages(<<i, k>>) /\ i + P - 1 \in Pages(<<i, k>>)
  BY <1>1, PagesAre
<1>7. j <= i /\ i + P - 1 < j + Q
  BY <1>6, PagesAre
<1> HIDE DEF P, Q
<1> QED BY <1>1, <1>5, <1>7

LEMMA Remainder ==
  ASSUME NEW l \in Level, NEW i \in Nat
  PROVE  i % PagesOf[l] = 0 <=> Aligned(i, l)
<1> DEFINE P == PagesOf[l]
<1>1. P \in Nat \ {0}
  BY Levels
<1>2. i \div P \in Nat /\ i = (P * (i \div P)) + (i % P)
  <2> HIDE DEF P
  <2> QED BY <1>1
<1>3. ASSUME i % P = 0 PROVE Aligned(i, l)
  <2>1. i = (i \div P) * P
    <3> HIDE DEF P
    <3> QED BY <1>1, <1>2, <1>3
  <2> QED BY <1>2, <2>1 DEF Aligned
<1>4. ASSUME Aligned(i, l) PROVE i % P = 0
  <2>1. PICK q \in Nat : i = q * P
    BY <1>4 DEF Aligned
  <2> HIDE DEF P
  <2>2. i \div P = q
    BY <1>1, <2>1, Division
  <2>3. P * q = q * P
    BY <1>1
  <2>4. i % P \in Nat
    BY <1>1
  <2> QED BY <1>2, <2>1, <2>2, <2>3, <2>4
<1> QED BY <1>3, <1>4

\* Under the invariant, runs of free pages are inside free blocks.
LEMMA CoalescedInv ==
  ASSUME IInv, NEW l \in Level, NEW i \in Nat, Aligned(i, l),
         Pages(<<i, l>>) \subseteq FreePages
  PROVE  \E b \in Free : b[2] >= l /\ Pages(<<i, l>>) \subseteq Pages(b)
<1> DEFINE U == FreePages
           Inside(j, k) == \E b \in Free : b[2] >= k /\ Pages(<<j, k>>) \subseteq Pages(b)
           S == {k \in Nat : k \in Level =>
                   \A j \in Nat : Aligned(j, k) /\ Pages(<<j, k>>) \subseteq U => Inside(j, k)}
<1>1. \A b \in Free : /\ b \in Block /\ Aligned(b[1], b[2]) /\ b = <<b[1], b[2]>>
                      /\ b[1] \in Nat /\ b[2] \in Level /\ b[1] \in free[b[2]]
  <2>1. \A b \in Free : b \in Block /\ Aligned(b[1], b[2]) /\ b[1] \in free[b[2]]
    BY DEF IInv, Partition, AllBlocks, Free
  <2> QED BY <2>1, FirstPage
<1>2. 0 \in S
  <2> SUFFICES ASSUME NEW j \in Nat, Pages(<<j, 0>>) \subseteq U PROVE Inside(j, 0)
    OBVIOUS
  <2>1. 0 \in Level /\ PagesOf[0] = 1
    BY Levels, PagesOfAssumption, SizeAssumption
  <2>2. \A p : p \in Pages(<<j, 0>>) <=> p = j
    BY <2>1, PagesAre
  <2>3. PICK b \in Free : j \in Pages(b)
    BY <2>2 DEF FreePages
  <2>4. b[2] >= 0
    BY <1>1, Levels
  <2> QED BY <2>2, <2>3, <2>4
<1>3. ASSUME NEW k \in S PROVE k + 1 \in S
  <2> SUFFICES ASSUME k + 1 \in Level, NEW j \in Nat, Aligned(j, k + 1),
                      Pages(<<j, k + 1>>) \subseteq U
               PROVE  Inside(j, k + 1)
    OBVIOUS
  <2> DEFINE P == PagesOf[k]
             low == <<j, k>>
             high == <<j + P, k>>
  <2>1. k \in Nat /\ k \in Level /\ k # TopLevel
    BY Levels, Top, SizeAssumption DEF Level, level_number
  <2>2. P \in Nat /\ P > 0
    BY <2>1, Levels
  <2>3. /\ get_buddy(j, k) = j + P /\ Aligned(j, k) /\ Aligned(j + P, k)
        /\ Pages(<<j, k + 1>>) = Pages(low) \cup Pages(high)
    BY <2>1, Halves
  <2>4. PICK b \in Free : b[2] >= k /\ Pages(low) \subseteq Pages(b)
    BY <2>1, <2>3
  <2>5. PICK c \in Free : c[2] >= k /\ Pages(high) \subseteq Pages(c)
    BY <2>1, <2>2, <2>3
  <2>6. b \in Block /\ c \in Block
    BY <1>1
  <2>7. ASSUME NEW d \in Free, d[2] >= k, d[2] # k, NEW p, p \in Pages(<<j, k + 1>>), p \in Pages(d)
        PROVE  Inside(j, k + 1)
    <3>1. d[2] \in Level /\ d[1] \in Nat /\ Aligned(d[1], d[2]) /\ d = <<d[1], d[2]>>
      BY <1>1
    <3>2. k + 1 <= d[2]
      BY <2>1, <2>7, <3>1, Levels
    <3>3. Pages(<<j, k + 1>>) \cap Pages(<<d[1], d[2]>>) # {}
      BY <2>7, <3>1
    <3>4. Pages(<<j, k + 1>>) \subseteq Pages(<<d[1], d[2]>>)
      BY <3>1, <3>2, <3>3, Laminar
    <3> QED BY <2>1, <2>7, <3>1, <3>2, <3>4
  <2>8. j \in Pages(low) /\ j + P \in Pages(high)
    <3>1. j \in Int /\ j + P \in Int
      BY <2>2
    <3>2. j <= j /\ j < j + P /\ j + P < j + P + P
      BY <2>2
    <3>3. j \in Pages(low)
      BY <2>1, <3>1, <3>2, PagesAre
    <3>4. j + P \in Pages(high)
      <4>1. \A p : p \in Pages(<<j + P, k>>) <=> p \in Int /\ j + P <= p /\ p < j + P + P
        BY <2>1, <3>1, PagesAre
      <4> QED BY <3>1, <3>2, <4>1
    <3> QED BY <3>3, <3>4
  <2>9. CASE b[2] # k
    BY <2>3, <2>4, <2>7, <2>8, <2>9
  <2>10. CASE c[2] # k
    BY <2>3, <2>5, <2>7, <2>8, <2>10
  <2>11. CASE b[2] = k /\ c[2] = k
    <3>1. b = <<b[1], k>> /\ b[1] \in Nat /\ Aligned(b[1], k) /\ j \in Pages(<<b[1], k>>)
      BY <1>1, <2>4, <2>8, <2>11
    <3>2. j = b[1]
      BY <2>1, <2>3, <3>1, Heads, Levels
    <3>3. c = <<c[1], k>> /\ c[1] \in Nat /\ Aligned(c[1], k) /\ j + P \in Pages(<<c[1], k>>)
      BY <1>1, <2>5, <2>8, <2>11
    <3>4. j + P = c[1]
      BY <2>1, <2>2, <2>3, <3>3, Heads, Levels
    <3>5. j \in free[k] /\ get_buddy(j, k) \in free[k]
      BY <1>1, <2>3, <2>11, <3>2, <3>4
    <3> QED BY <2>1, <3>5 DEF IInv, Unmergeable
  <2> QED BY <2>9, <2>10, <2>11
<1>4. S = Nat
  <2> HIDE DEF S
  <2>1. S \in SUBSET Nat
    BY DEF S
  <2> QED BY <1>2, <1>3, <2>1, SetInduction
<1> QED BY <1>4, Levels

\* Free memory is merged as far as it can be whenever no call is under way.
THEOREM FreeMemoryCoalesced == Spec => []Coalesced
<1>1. ASSUME IInv, call = "none", NEW l \in Level, NEW i \in Page, i % PagesOf[l] = 0,
             Pages(<<i, l>>) \subseteq FreePages
      PROVE  \E b \in Free : Pages(<<i, l>>) \subseteq Pages(b)
  <2>1. i \in Nat
    BY DEF Page
  <2>2. Aligned(i, l)
    BY <1>1, <2>1, Remainder
  <2>3. \E b \in Free : b[2] >= l /\ Pages(<<i, l>>) \subseteq Pages(b)
    BY <1>1, <2>1, <2>2, CoalescedInv
  <2> QED BY <2>3
<1>2. ASSUME IInv PROVE Coalesced
  <2>1. SUFFICES ASSUME call = "none", NEW l \in Level, NEW i \in Page,
                        i % PagesOf[l] = 0, Pages(<<i, l>>) \subseteq FreePages
                 PROVE  \E b \in Free : Pages(<<i, l>>) \subseteq Pages(b)
    BY ZenonT(30) DEF Coalesced
  <2> QED BY <1>1, <1>2, <2>1
<1>3. IInv => Coalesced
  BY <1>2
<1> QED BY <1>3, Invariant, PTL

\* The free lists implement the page allocator: a call returns an aligned block
\* nobody owns, and fails only when memory has none.
THEOREM Implements == Spec => ImplementsPageAllocator
<1>1. Init => Promise!Init
  BY DEF Init, Promise!Init
<1>2. IInv /\ [Next]_vars => [Promise!Next]_(Promise!vars)
  <2> SUFFICES ASSUME IInv, [Next]_vars, ~UNCHANGED Promise!vars PROVE Promise!Next
    OBVIOUS
  <2> USE DEF Promise!vars
  <2>1. CASE AddPage \/ Split \/ Merge \/ PutBack \/ UNCHANGED vars
    BY <2>1 DEF AddPage, Split, Merge, PutBack, vars
  <2>2. CASE \E l \in 0 .. MaxRequest : AllocatePage(l)
    BY <2>2 DEF AllocatePage
  <2>3. ASSUME NEW l \in 0 .. MaxRequest, AllocateNone(l) PROVE Promise!Next
    <3>1. l \in Level
      BY RequestAssumption, Levels, Top, SizeAssumption DEF Level, level_number
    <3>2. InHand = {} /\ available \ unadded = available
      BY <2>3 DEF AllocateNone, InHand
    <3>3. ASSUME NEW i \in available, i % PagesOf[l] = 0,
                 i .. i + PagesOf[l] - 1 \subseteq available \ Promise!Taken
          PROVE  FALSE
      <4>1. i \in Nat
        BY DEF IInv, TypeOK, Page
      <4>2. Aligned(i, l)
        BY <3>1, <3>3, <4>1, Remainder
      <4>3. Pages(<<i, l>>) \subseteq FreePages
        <5>1. UNION {Pages(b) : b \in Free \cup owned} = available
          BY <3>2 DEF IInv, Partition, AllBlocks
        <5>2. \A b \in owned : Pages(b) \subseteq Promise!Taken
          BY DEF Promise!Taken, Promise!Pages, Pages
        <5>3. Pages(<<i, l>>) = i .. i + PagesOf[l] - 1
          BY DEF Pages
        <5> QED BY <3>3, <5>1, <5>2, <5>3 DEF FreePages
      <4>4. PICK b \in Free : b[2] >= l /\ Pages(<<i, l>>) \subseteq Pages(b)
        BY <3>1, <4>1, <4>2, <4>3, CoalescedInv
      <4>5. b[2] \in Level /\ b[1] \in free[b[2]]
        BY <4>4 DEF Free, Block
      <4>6. b[2] \in l .. level_number - 1
        BY <3>1, <4>4, <4>5, Levels, Top DEF Level, level_number
      <4> QED BY <2>3, <4>5, <4>6 DEF AllocateNone
    <3>4. Promise!Candidates(l) = {}
      BY <3>3 DEF Promise!Candidates
    <3>5. Promise!Fail(l)
      BY <2>3, <3>4 DEF AllocateNone, Promise!Fail
    <3> QED BY <3>1, <3>5 DEF Promise!Next
  <2>4. ASSUME HandOver PROVE Promise!Next
    <3> DEFINE b0 == <<id, wanted>>
    <3>1. wanted \in Level /\ id \in Page /\ InHand = {b0}
      BY <2>4 DEF HandOver, IInv, TypeOK, InHand
    <3>2. b0 \in AllBlocks /\ Aligned(id, wanted) /\ id \in Nat
      <4>1. b0 \in AllBlocks /\ id \in Nat
        BY <3>1 DEF AllBlocks, Page
      <4>2. \A b \in AllBlocks : Aligned(b[1], b[2])
        BY DEF IInv, Partition
      <4>3. Aligned(b0[1], b0[2])
        BY <4>1, <4>2
      <4> QED BY <4>1, <4>3
    <3>3. id % PagesOf[wanted] = 0
      BY <3>1, <3>2, Remainder
    <3>4. Pages(b0) \subseteq available
      BY <3>2 DEF IInv, Partition
    <3>5. Pages(b0) \cap Promise!Taken = {}
      <4>1. \A b \in owned : b \in AllBlocks /\ b # b0
        BY <3>1 DEF AllBlocks, IInv, Apart
      <4>2. \A b \in owned : Pages(b) \cap Pages(b0) = {}
        BY <3>2, <4>1 DEF IInv, Partition
      <4>3. Promise!Taken = UNION {Pages(b) : b \in owned}
        BY DEF Promise!Taken, Promise!Pages, Pages
      <4> QED BY <4>2, <4>3
    <3>6. id \in Pages(b0)
      <4>1. b0 \in Block
        BY <3>1 DEF Block
      <4> QED BY <4>1, FirstPage
    <3>7. Pages(b0) = id .. id + PagesOf[wanted] - 1
      BY DEF Pages
    <3>8. b0 \in Promise!Candidates(wanted)
      BY <3>3, <3>4, <3>5, <3>6, <3>7 DEF Promise!Candidates
    <3>9. Promise!Allocate(wanted)
      BY <2>4, <3>8 DEF HandOver, Promise!Allocate
    <3> QED BY <3>1, <3>9 DEF Promise!Next
  <2>5. ASSUME NEW b \in owned, FreePage(b) PROVE Promise!Next
    BY <2>5 DEF FreePage, Promise!Free, Promise!Next
  <2> QED BY <2>1, <2>2, <2>3, <2>4, <2>5 DEF Next
<1> QED BY <1>1, <1>2, Invariant, PTL DEF Spec, ImplementsPageAllocator, Promise!Spec

-----------------------------------------------------------------------------
(* The slab allocators.  The invariant is about any heap and the objects    *)
(* that are taken from it, so that it holds between the nested calls too.   *)

Node(a) == IF IsBig(a) THEN 0 ELSE NodeSize

BlocksOf(p, a) == Blocks(p, Node(a) + size[a], alignment[a])

\* The addresses of the objects of page p when it is a slab of a.
Objects(p, a) == {BlocksOf(p, a)[i] + Node(a) : i \in DOMAIN BlocksOf(p, a)}

Entries == [at : Nat, address : Nat]

\* A list of descriptors of exactly the objects X of a, each once.
Describes(s, X, a) ==
  /\ {s[i].address : i \in DOMAIN s} = X
  /\ \A i, j \in DOMAIN s : s[i].address = s[j].address => i = j
  /\ ~IsBig(a) => \A i \in DOMAIN s : s[i].at = s[i].address - NodeSize

Ats(s) == {s[i].at : i \in DOMAIN s}

OnceAt(s) == \A i, j \in DOMAIN s : s[i].at = s[j].at => i = j

SlabsOf(h, a) == {h.slabs[a][i] : i \in DOMAIN h.slabs[a]}

Heaps ==
  {h \in [free : Seq(Seq(Entries)), small : Seq(BOOLEAN), slabs : [Allocator -> Seq(Nat)]] :
     /\ Len(h.small) = Len(h.free)
     /\ \A a \in Allocator : SlabsOf(h, a) \subseteq 1 .. Len(h.free)}

\* Each page is a slab of one allocator, and its list has the objects that are
\* not in T.
Consistent(h, T) ==
  /\ h \in Heaps
  /\ \A p \in 1 .. Len(h.free) : \E a \in Allocator : p \in SlabsOf(h, a)
  /\ \A a, b \in Allocator : a # b => SlabsOf(h, a) \cap SlabsOf(h, b) = {}
  /\ T \subseteq Allocator \X Nat
  /\ \A o \in T : get_slab(o[2]) \in SlabsOf(h, o[1]) /\ o[2] \in Objects(get_slab(o[2]), o[1])
  /\ \A a \in Allocator : \A p \in SlabsOf(h, a) :
       /\ h.small[p] = ~IsBig(a)
       /\ Describes(h.free[p], {x \in Objects(p, a) : <<a, x>> \notin T}, a)

BigOf(h) == {p \in DOMAIN h.free : ~h.small[p]}

\* The descriptors that free objects of big slabs have.
Described(h) == UNION {Ats(h.free[p]) : p \in BigOf(h)}

\* All that is taken when the callers have the objects L.
TakenIn(h, L) == L \cup {Descriptors} \X Described(h)

\* No descriptor is used for two objects.
Once(h) ==
  /\ \A p \in BigOf(h) : OnceAt(h.free[p])
  /\ \A p, q \in BigOf(h) : p # q => Ats(h.free[p]) \cap Ats(h.free[q]) = {}

Whole(h, L) ==
  /\ Consistent(h, TakenIn(h, L)) /\ Once(h)
  /\ \A o \in L : o[1] # Descriptors

SlabInv ==
  /\ {Descriptors, Structs} \subseteq created /\ created \subseteq Allocator
  /\ Whole(heap, live)

-----------------------------------------------------------------------------
(* The layout of a slab *)

LEMMA Dividing ==
  ASSUME NEW m \in Int, NEW n \in Nat \ {0}
  PROVE  /\ m \div n \in Int /\ m % n \in Nat /\ m % n < n
         /\ m = (m \div n) * n + (m % n)
  OBVIOUS

LEMMA Products ==
  ASSUME NEW m \in Int, NEW k \in Int, NEW n \in Nat \ {0}
  PROVE  /\ m * n \in Int /\ k * n \in Int
         /\ m <= k <=> m * n <= k * n
         /\ (m + 1) * n = m * n + n
  <1>1. m * n \in Int /\ k * n \in Int /\ (m + 1) * n = m * n + n
    OBVIOUS
  <1>2. ASSUME m <= k PROVE m * n <= k * n
    <2>1. PICK c \in Nat : k = m + c
      BY <1>2
    <2>2. k * n = m * n + c * n /\ c * n >= 0
      BY <2>1
    <2> QED BY <2>2
  <1>3. ASSUME m > k PROVE m * n > k * n
    <2>1. PICK c \in Nat : m = (k + 1) + c
      BY <1>3
    <2>2. m * n = k * n + n + c * n /\ c * n >= 0
      BY <2>1
    <2> QED BY <2>2
  <1> QED BY <1>1, <1>2, <1>3

\* A number between a multiple and the next one.
LEMMA Between ==
  ASSUME NEW m \in Int, NEW n \in Nat \ {0}, NEW x \in Int, m * n <= x, x < (m + 1) * n
  PROVE  x \div n = m /\ x % n = x - m * n
  <1>1. PICK d \in Int, r \in Nat : d = x \div n /\ r = x % n /\ r < n /\ x = d * n + r
    BY Dividing
  <1>2. (m + 1) * n = m * n + n /\ (d + 1) * n = d * n + n /\ m * n \in Int /\ d * n \in Int
    BY <1>1, Products
  <1>3. ~ (m + 1 <= d)
    <2>1. m + 1 \in Int /\ (m + 1 <= d => (m + 1) * n <= d * n)
      BY <1>1, Products
    <2> QED BY <2>1, <1>1, <1>2
  <1>4. ~ (d + 1 <= m)
    <2>1. d + 1 \in Int /\ (d + 1 <= m => (d + 1) * n <= m * n)
      BY <1>1, Products
    <2> QED BY <2>1, <1>1, <1>2
  <1>5. d = m
    BY <1>1, <1>3, <1>4
  <1> QED BY <1>1, <1>5

LEMMA PageSizes ==
  /\ PageSize \in Nat \ {0} /\ SlabSize \in Nat \ {0} /\ SlabSize < PageSize
  /\ NodeSize \in Nat \ {0}
  BY SlabAssumption

LEMMA SizesOf ==
  ASSUME NEW a \in Allocator
  PROVE  /\ size[a] \in Nat \ {0} /\ Node(a) \in Nat /\ Node(a) + size[a] \in Nat \ {0}
         /\ alignment[a] \in Nat \ {0} /\ PageSize % alignment[a] = 0
         /\ ~IsBig(a) => Node(a) = NodeSize
         /\ IsBig(a) => Node(a) = 0
  <1>1. size[a] \in Nat \ {0} /\ alignment[a] \in Nat \ {0} /\ PageSize % alignment[a] = 0
    BY SizesAssumption
  <1>2. Node(a) \in Nat /\ (~IsBig(a) => Node(a) = NodeSize) /\ (IsBig(a) => Node(a) = 0)
    BY PageSizes DEF Node
  <1> QED BY <1>1, <1>2

LEMMA FirstBlock ==
  ASSUME NEW p \in Nat, NEW n \in Nat \ {0}, PageSize % n = 0
  PROVE  align(p * PageSize, n) = p * PageSize
  <1>1. PICK P \in Nat \ {0} : P = PageSize
    BY PageSizes
  <1>2. PICK d \in Int : P = d * n
    BY <1>1, Dividing
  <1>3. p * P = (p * d) * n /\ p * d \in Int
    BY <1>2
  <1>4. (p * d) * n < ((p * d) + 1) * n /\ (p * d) * n \in Int
    BY <1>3, Products
  <1>5. ((p * d) * n) % n = 0
    <2> DEFINE m == p * d
    <2>1. m \in Int /\ m * n \in Int /\ m * n < (m + 1) * n
      BY <1>3, <1>4
    <2> HIDE DEF m
    <2>2. (m * n) % n = m * n - m * n
      BY <2>1, Between
    <2>3. (m * n) % n = 0
      BY <2>1, <2>2
    <2> QED BY <2>3 DEF m
  <1>6. (p * PageSize) % n = 0
    BY <1>1, <1>3, <1>5
  <1> QED BY <1>6 DEF align

LEMMA StepOf ==
  ASSUME NEW b \in Nat \ {0}, NEW n \in Nat \ {0}
  PROVE  align(b, n) \in Nat \ {0} /\ align(b, n) >= b
  <1>1. PICK d \in Int, r \in Nat : d = b \div n /\ r = b % n /\ r < n /\ b = d * n + r
    BY Dividing
  <1>2. align(b, n) = IF r = 0 THEN b ELSE d * n + n
    BY <1>1 DEF align
  <1>3. d * n \in Int
    BY <1>1
  <1> QED BY <1>1, <1>2, <1>3

\* A set of numbers that has every number below each of its elements.
LEMMA Initial ==
  ASSUME NEW N \in Nat, NEW S \in SUBSET (0 .. N), \A k \in S : \A m \in 0 .. k : m \in S
  PROVE  Cardinality(S) \in Nat /\ S = 0 .. Cardinality(S) - 1
  <1> DEFINE R == {k \in Nat : k \notin S}
  <1>1. R # {} /\ R \in SUBSET Nat
    <2>1. N + 1 \in R
      OBVIOUS
    <2> QED BY <2>1
  <1>2. PICK n \in R : \A k \in R : n <= k
    <2> HIDE DEF R
    <2> QED BY <1>1, Least
  <1>3. n \in Nat /\ n \notin S
    OBVIOUS
  <1>4. \A k \in Nat : k < n => k \in S
    <2>1. \A k \in Nat : k \notin S => k \in R
      OBVIOUS
    <2> HIDE DEF R
    <2> QED BY <2>1, <1>2, <1>3
  <1>5. \A k \in S : k < n
    <2> SUFFICES ASSUME NEW k \in S, ~ (k < n) PROVE FALSE
      OBVIOUS
    <2>1. k \in Nat
      OBVIOUS
    <2>2. n \in 0 .. k
      BY <2>1, <1>3
    <2> QED BY <2>2, <1>3
  <1>6. S = 0 .. n - 1
    <2>1. ASSUME NEW k \in S PROVE k \in 0 .. n - 1
      <3>1. k \in Nat /\ k < n
        BY <1>5
      <3> QED BY <3>1, <1>3
    <2>2. ASSUME NEW k \in 0 .. n - 1 PROVE k \in S
      <3>1. k \in Nat /\ k < n
        BY <1>3
      <3> QED BY <3>1, <1>4
    <2> QED BY <2>1, <2>2
  <1>7. Cardinality(0 .. n - 1) = n
    <2>1. n - 1 \in Int /\ 0 \in Int
      BY <1>3
    <2>2. Cardinality(0 .. n - 1) = IF 0 > n - 1 THEN 0 ELSE (n - 1) - 0 + 1
      BY <2>1, FS_Interval
    <2> QED BY <2>2, <1>3
  <1> QED BY <1>3, <1>6, <1>7

\* Every block lies in its slab, a step of at least its size behind the one before.
LEMMA BlocksAre ==
  ASSUME NEW p \in Nat, NEW a \in Allocator
  PROVE  \E step \in Nat \ {0}, count \in Nat :
           /\ step >= Node(a) + size[a]
           /\ BlocksOf(p, a) = [i \in 1 .. count |-> p * PageSize + (i - 1) * step]
           /\ \A i \in 1 .. count :
                p * PageSize + (i - 1) * step + (Node(a) + size[a]) <= SlabAddress(p)
           /\ p * PageSize + (Node(a) + size[a]) <= SlabAddress(p) => count # 0
  <1>1. PICK B \in Nat \ {0}, n \in Nat \ {0}, P \in Nat \ {0} :
          B = Node(a) + size[a] /\ n = alignment[a] /\ P = PageSize /\ P % n = 0
    BY SizesOf, PageSizes
  <1>2. PICK step \in Nat \ {0} : step = align(B, n) /\ step >= B
    BY StepOf
  <1>3. PICK first \in Nat : first = p * PageSize /\ first = align(p * PageSize, n)
    BY <1>1, FirstBlock
  <1>4. SlabAddress(p) \in Int
    BY PageSizes DEF SlabAddress
  <1> DEFINE K == {k \in 0 .. PageSize : first + k * step + B <= SlabAddress(p)}
             count == Cardinality(K)
  <1>5. \A k \in K : \A m \in 0 .. k : m \in K
    <2> SUFFICES ASSUME NEW k \in K, NEW m \in 0 .. k PROVE m \in K
      OBVIOUS
    <2>1. k \in 0 .. P /\ m \in 0 .. P /\ m <= k
      BY <1>1
    <2>2. m * step <= k * step /\ m * step \in Int /\ k * step \in Int
      <3>1. m \in Int /\ k \in Int
        BY <2>1
      <3> QED BY <2>1, <3>1, Products
    <2>3. first + k * step + B <= SlabAddress(p)
      OBVIOUS
    <2>4. first + m * step + B <= SlabAddress(p)
      BY <2>2, <2>3, <1>4
    <2> QED BY <2>1, <2>4, <1>1
  <1>6. count \in Nat /\ K = 0 .. count - 1
    <2>1. PageSize \in Nat /\ K \in SUBSET (0 .. PageSize)
      BY PageSizes
    <2> HIDE DEF K
    <2> QED BY <1>5, <2>1, Initial
  <1>7. BlocksOf(p, a) = [i \in 1 .. count |-> first + (i - 1) * step]
    BY <1>1, <1>2, <1>3 DEF BlocksOf, Blocks
  <1>8. ASSUME NEW i \in 1 .. count PROVE first + (i - 1) * step + B <= SlabAddress(p)
    <2>1. i - 1 \in 0 .. count - 1
      <3> HIDE DEF count
      <3> QED BY <1>6
    <2>2. i - 1 \in K
      <3> HIDE DEF K
      <3> QED BY <1>6, <2>1
    <2> QED BY <2>2
  <1>9. ASSUME first + B <= SlabAddress(p) PROVE count # 0
    <2>1. 0 \in K
      <3>1. 0 * step = 0 /\ 0 \in 0 .. PageSize /\ first + 0 + B = first + B
        BY PageSizes, <1>2
      <3> QED BY <3>1, <1>9
    <2> HIDE DEF K, count
    <2> QED BY <2>1, <1>6
  <1> HIDE DEF count, K
  <1>10. count \in Nat
    BY <1>6
  <1>11. BlocksOf(p, a) = [i \in 1 .. count |-> p * PageSize + (i - 1) * step]
    BY <1>3, <1>7
  <1>12. step >= Node(a) + size[a]
    BY <1>1, <1>2
  <1>13. \A i \in 1 .. count :
           p * PageSize + (i - 1) * step + (Node(a) + size[a]) <= SlabAddress(p)
    BY <1>1, <1>3, <1>8
  <1>14. p * PageSize + (Node(a) + size[a]) <= SlabAddress(p) => count # 0
    BY <1>1, <1>3, <1>9
  <1> QED BY <1>10, <1>11, <1>12, <1>13, <1>14

InPage(p, x) == x \in Nat /\ p * PageSize <= x /\ x < (p + 1) * PageSize

LEMMA PageOf ==
  ASSUME NEW p \in Nat, NEW x, InPage(p, x)
  PROVE  get_slab(x) = p
  BY PageSizes, Between DEF InPage, get_slab

\* Behind the objects of a page is its slab structure, and no two of them, with
\* the nodes in front of them, overlap.
LEMMA ObjectsLie ==
  ASSUME NEW p \in Nat, NEW a \in Allocator, NEW x \in Objects(p, a)
  PROVE  /\ InPage(p, x) /\ x - Node(a) >= p * PageSize /\ x + size[a] <= SlabAddress(p)
         /\ get_slab(x) = p
         /\ p > 0 => x > 0
         /\ \A y \in Objects(p, a) :
              x # y => x + size[a] <= y - Node(a) \/ y + size[a] <= x - Node(a)
  <1>1. PICK s \in Nat \ {0}, n \in Nat :
           /\ s >= Node(a) + size[a]
           /\ BlocksOf(p, a) = [i \in 1 .. n |-> p * PageSize + (i - 1) * s]
           /\ \A i \in 1 .. n : p * PageSize + (i - 1) * s + (Node(a) + size[a]) <= SlabAddress(p)
    BY BlocksAre
  <1>2. PICK z \in Nat \ {0}, k \in Nat, P \in Nat \ {0}, S \in Nat \ {0} :
          z = size[a] /\ k = Node(a) /\ P = PageSize /\ S = SlabSize /\ S < P
    BY SizesOf, PageSizes
  <1>3. PICK first \in Nat : first = p * P
    BY <1>2
  <1>4. (p + 1) * P = first + P
    BY <1>3, Products
  <1>5. SlabAddress(p) = first + P - S
    BY <1>2, <1>4 DEF SlabAddress
  <1>6. Objects(p, a) = {first + (i - 1) * s + k : i \in 1 .. n}
    <2>1. BlocksOf(p, a) = [i \in 1 .. n |-> first + (i - 1) * s]
      BY <1>1, <1>2, <1>3
    <2>2. DOMAIN BlocksOf(p, a) = 1 .. n /\ \A i \in 1 .. n : BlocksOf(p, a)[i] = first + (i - 1) * s
      BY <2>1
    <2> QED BY <2>2, <1>2 DEF Objects
  <1>7. PICK i \in 1 .. n : x = first + (i - 1) * s + k
    BY <1>6
  <1>8. i - 1 \in Nat /\ (i - 1) * s \in Nat
    BY <1>1
  <1>9. first + (i - 1) * s + (k + z) <= first + P - S
    BY <1>1, <1>2, <1>3, <1>5
  <1>10. x \in Nat /\ x - k >= first /\ x + z <= first + P - S
    BY <1>7, <1>8, <1>9
  <1>11. InPage(p, x)
    BY <1>2, <1>3, <1>4, <1>10 DEF InPage
  <1>12. p > 0 => x > 0
    <2>1. p > 0 => 1 * P <= p * P
      BY Products
    <2> QED BY <2>1, <1>2, <1>3, <1>10
  <1>13. ASSUME NEW y \in Objects(p, a), x # y
         PROVE  x + size[a] <= y - Node(a) \/ y + size[a] <= x - Node(a)
    <2>1. PICK j \in 1 .. n : y = first + (j - 1) * s + k
      BY <1>6
    <2>2. j - 1 \in Nat /\ (j - 1) * s \in Nat /\ i # j
      BY <1>1, <1>7, <1>13, <2>1
    <2>3. s >= k + z
      BY <1>1, <1>2
    <2>4. CASE i < j
      <3>1. i <= j - 1 /\ i \in Int
        BY <2>4
      <3>2. i * s <= (j - 1) * s /\ i * s = (i - 1) * s + s /\ i * s \in Int
        <4>1. (i - 1) + 1 = i
          BY <3>1
        <4> QED BY <3>1, <2>2, <1>8, <4>1, Products
      <3> QED BY <3>2, <2>1, <2>2, <2>3, <1>2, <1>7, <1>8
    <2>5. CASE j < i
      <3>1. j <= i - 1 /\ j \in Int
        BY <2>5
      <3>2. j * s <= (i - 1) * s /\ j * s = (j - 1) * s + s /\ j * s \in Int
        <4>1. (j - 1) + 1 = j
          BY <3>1
        <4> QED BY <3>1, <2>2, <1>8, <4>1, Products
      <3> QED BY <3>2, <2>1, <2>2, <2>3, <1>2, <1>7, <1>8
    <2> QED BY <2>2, <2>4, <2>5
  <1>14. get_slab(x) = p
    BY <1>11, PageOf
  <1> QED BY <1>2, <1>3, <1>5, <1>10, <1>11, <1>12, <1>13, <1>14

\* The blocks are different numbers, and there are some if one fits.
LEMMA BlocksList ==
  ASSUME NEW p \in Nat, NEW a \in Allocator
  PROVE  /\ BlocksOf(p, a) \in Seq(Nat)
         /\ \A i, j \in DOMAIN BlocksOf(p, a) : BlocksOf(p, a)[i] = BlocksOf(p, a)[j] => i = j
         /\ Node(a) + size[a] <= PageSize - SlabSize => Objects(p, a) # {}
  <1>1. PICK s \in Nat \ {0}, n \in Nat :
           /\ s >= Node(a) + size[a]
           /\ BlocksOf(p, a) = [i \in 1 .. n |-> p * PageSize + (i - 1) * s]
           /\ \A i \in 1 .. n : p * PageSize + (i - 1) * s + (Node(a) + size[a]) <= SlabAddress(p)
           /\ p * PageSize + (Node(a) + size[a]) <= SlabAddress(p) => n # 0
    BY BlocksAre
  <1>2. PICK P \in Nat \ {0}, S \in Nat \ {0}, B \in Nat \ {0} :
          P = PageSize /\ S = SlabSize /\ S < P /\ B = Node(a) + size[a]
    BY PageSizes, SizesOf
  <1>3. PICK first \in Nat : first = p * P
    BY <1>2
  <1>4. (p + 1) * P = first + P
    BY <1>3, Products
  <1>5. \A i \in 1 .. n : first + (i - 1) * s \in Nat
    <2> SUFFICES ASSUME NEW i \in 1 .. n PROVE first + (i - 1) * s \in Nat
      OBVIOUS
    <2>1. i - 1 \in Nat
      BY <1>1
    <2>2. (i - 1) * s \in Nat
      BY <2>1
    <2> QED BY <2>2
  <1>6. BlocksOf(p, a) = [i \in 1 .. n |-> first + (i - 1) * s]
    BY <1>1, <1>2, <1>3
  <1>7. BlocksOf(p, a) \in Seq(Nat)
    BY <1>5, <1>6
  <1>8. ASSUME NEW i \in 1 .. n, NEW j \in 1 .. n, first + (i - 1) * s = first + (j - 1) * s
        PROVE  i = j
    <2>1. i - 1 \in Int /\ j - 1 \in Int /\ (i - 1) * s \in Int /\ (j - 1) * s \in Int
      BY <1>1
    <2>2. (i - 1) * s = (j - 1) * s
      BY <1>8, <2>1
    <2>3. i - 1 <= j - 1 /\ j - 1 <= i - 1
      BY <2>1, <2>2, Products
    <2> QED BY <2>3
  <1>9. DOMAIN BlocksOf(p, a) = 1 .. n /\ \A i \in 1 .. n : BlocksOf(p, a)[i] = first + (i - 1) * s
    BY <1>6
  <1>10. ASSUME B <= P - S PROVE Objects(p, a) # {}
    <2>1. SlabAddress(p) = first + P - S
      BY <1>2, <1>4 DEF SlabAddress
    <2>2. n # 0
      BY <2>1, <1>1, <1>2, <1>3, <1>10
    <2>3. 1 \in DOMAIN BlocksOf(p, a)
      BY <2>2, <1>9
    <2> QED BY <2>3 DEF Objects
  <1> QED BY <1>2, <1>7, <1>8, <1>9, <1>10

-----------------------------------------------------------------------------
(* Lists of descriptors *)

LEMMA ListEnds ==
  ASSUME NEW s \in Seq(Entries)
  PROVE  /\ DOMAIN s = 1 .. Len(s) /\ Len(s) \in Nat
         /\ \A i \in DOMAIN s : s[i] \in Entries
         /\ s # <<>> => /\ 1 \in DOMAIN s /\ Head(s) = s[1] /\ Tail(s) \in Seq(Entries)
                        /\ DOMAIN Tail(s) = 1 .. Len(s) - 1
                        /\ \A i \in DOMAIN Tail(s) : Tail(s)[i] = s[i + 1] /\ i + 1 \in DOMAIN s
                        /\ \A i \in DOMAIN s : i # 1 =>
                             i - 1 \in DOMAIN Tail(s) /\ Tail(s)[i - 1] = s[i]
  OBVIOUS

LEMMA Beheaded ==
  ASSUME NEW s \in Seq(Entries), s # <<>>, NEW a \in Allocator, NEW X, Describes(s, X, a)
  PROVE  /\ Head(s) \in Entries /\ Tail(s) \in Seq(Entries) /\ Head(s).address \in X
         /\ ~IsBig(a) => Head(s).at = Head(s).address - NodeSize
         /\ Describes(Tail(s), X \ {Head(s).address}, a)
  <1>1. /\ {s[i].address : i \in DOMAIN s} = X
        /\ \A i, j \in DOMAIN s : s[i].address = s[j].address => i = j
        /\ ~IsBig(a) => \A i \in DOMAIN s : s[i].at = s[i].address - NodeSize
    BY DEF Describes
  <1>2. Head(s) \in Entries /\ Head(s).address \in X
    BY <1>1, ListEnds
  <1>3. {Tail(s)[i].address : i \in DOMAIN Tail(s)} = X \ {Head(s).address}
    <2>1. ASSUME NEW i \in DOMAIN Tail(s) PROVE Tail(s)[i].address \in X \ {Head(s).address}
      <3>1. i \in Nat /\ i # 0 /\ i + 1 \in DOMAIN s /\ Tail(s)[i] = s[i + 1] /\ 1 \in DOMAIN s /\ Head(s) = s[1]
        BY ListEnds
      <3>2. s[i + 1].address # s[1].address
        BY <3>1, <1>1
      <3> QED BY <3>1, <3>2, <1>1
    <2>2. ASSUME NEW x \in X \ {Head(s).address}
          PROVE  \E i \in DOMAIN Tail(s) : Tail(s)[i].address = x
      <3>1. PICK i \in DOMAIN s : s[i].address = x
        BY <1>1
      <3>2. i # 1
        BY <3>1, ListEnds
      <3> QED BY <3>1, <3>2, ListEnds
    <2> QED BY <2>1, <2>2
  <1>4. ASSUME NEW i \in DOMAIN Tail(s), NEW j \in DOMAIN Tail(s), Tail(s)[i].address = Tail(s)[j].address
        PROVE  i = j
    <2>1. i \in Nat /\ j \in Nat /\ i + 1 \in DOMAIN s /\ j + 1 \in DOMAIN s
          /\ Tail(s)[i] = s[i + 1] /\ Tail(s)[j] = s[j + 1]
      BY ListEnds
    <2>2. i + 1 = j + 1
      BY <2>1, <1>1, <1>4
    <2> QED BY <2>1, <2>2
  <1>5. ~IsBig(a) => \A i \in DOMAIN Tail(s) : Tail(s)[i].at = Tail(s)[i].address - NodeSize
    BY <1>1, ListEnds
  <1>6. ~IsBig(a) => Head(s).at = Head(s).address - NodeSize
    BY <1>1, ListEnds
  <1> QED BY <1>2, <1>3, <1>4, <1>5, <1>6, ListEnds DEF Describes

LEMMA BeheadedAts ==
  ASSUME NEW s \in Seq(Entries), s # <<>>, OnceAt(s)
  PROVE  /\ Head(s).at \in Ats(s) /\ Ats(Tail(s)) = Ats(s) \ {Head(s).at} /\ OnceAt(Tail(s))
  <1>1. \A i, j \in DOMAIN s : s[i].at = s[j].at => i = j
    BY DEF OnceAt
  <1>2. Head(s).at \in Ats(s)
    BY ListEnds DEF Ats
  <1>3. ASSUME NEW i \in DOMAIN Tail(s) PROVE Tail(s)[i].at \in Ats(s) \ {Head(s).at}
    <2>1. i \in Nat /\ i # 0 /\ i + 1 \in DOMAIN s /\ Tail(s)[i] = s[i + 1] /\ 1 \in DOMAIN s /\ Head(s) = s[1]
      BY ListEnds
    <2>2. s[i + 1].at # s[1].at
      BY <2>1, <1>1
    <2> QED BY <2>1, <2>2 DEF Ats
  <1>4. ASSUME NEW x \in Ats(s) \ {Head(s).at} PROVE \E i \in DOMAIN Tail(s) : Tail(s)[i].at = x
    <2>1. PICK i \in DOMAIN s : s[i].at = x
      BY DEF Ats
    <2>2. i # 1
      BY <2>1, ListEnds
    <2> QED BY <2>1, <2>2, ListEnds
  <1>5. Ats(Tail(s)) = Ats(s) \ {Head(s).at}
    <2>1. Ats(Tail(s)) = {Tail(s)[i].at : i \in DOMAIN Tail(s)}
      BY DEF Ats
    <2> QED BY <2>1, <1>3, <1>4
  <1>6. ASSUME NEW i \in DOMAIN Tail(s), NEW j \in DOMAIN Tail(s), Tail(s)[i].at = Tail(s)[j].at
        PROVE  i = j
    <2>1. i \in Nat /\ j \in Nat /\ i + 1 \in DOMAIN s /\ j + 1 \in DOMAIN s
          /\ Tail(s)[i] = s[i + 1] /\ Tail(s)[j] = s[j + 1]
      BY ListEnds
    <2>2. i + 1 = j + 1
      BY <2>1, <1>1, <1>6
    <2> QED BY <2>1, <2>2
  <1> QED BY <1>2, <1>5, <1>6 DEF OnceAt

LEMMA PrependedIs ==
  ASSUME NEW s \in Seq(Entries), NEW d \in Entries
  PROVE  /\ <<d>> \o s \in Seq(Entries) /\ DOMAIN (<<d>> \o s) = 1 .. Len(s) + 1
         /\ (<<d>> \o s)[1] = d
         /\ \A i \in DOMAIN s : i + 1 \in DOMAIN (<<d>> \o s) /\ (<<d>> \o s)[i + 1] = s[i]
         /\ \A i \in DOMAIN (<<d>> \o s) : i # 1 =>
              i - 1 \in DOMAIN s /\ (<<d>> \o s)[i] = s[i - 1]
  <1>1. <<d>> \in Seq(Entries) /\ Len(<<d>>) = 1 /\ <<d>>[1] = d
    OBVIOUS
  <1>2. Len(s) \in Nat /\ DOMAIN s = 1 .. Len(s)
    OBVIOUS
  <1> DEFINE t == <<d>> \o s
  <1>3. /\ t \in Seq(Entries) /\ Len(t) = 1 + Len(s)
        /\ \A i \in 1 .. 1 + Len(s) : t[i] = IF i <= 1 THEN <<d>>[i] ELSE s[i - 1]
    BY <1>1, <1>2, ConcatProperties
  <1> HIDE DEF t
  <1>4. DOMAIN t = 1 .. Len(s) + 1
    BY <1>2, <1>3
  <1>5. t[1] = d
    BY <1>1, <1>2, <1>3
  <1>6. \A i \in DOMAIN s : i + 1 \in DOMAIN t /\ t[i + 1] = s[i]
    BY <1>2, <1>3, <1>4
  <1>7. \A i \in DOMAIN t : i # 1 => i - 1 \in DOMAIN s /\ t[i] = s[i - 1]
    BY <1>2, <1>3, <1>4
  <1> QED BY <1>3, <1>4, <1>5, <1>6, <1>7 DEF t

LEMMA Prepended ==
  ASSUME NEW s \in Seq(Entries), NEW a \in Allocator, NEW X, Describes(s, X, a),
         NEW d \in Entries, d.address \notin X, ~IsBig(a) => d.at = d.address - NodeSize
  PROVE  <<d>> \o s \in Seq(Entries) /\ Describes(<<d>> \o s, X \cup {d.address}, a)
  <1> DEFINE t == <<d>> \o s
  <1>0. /\ t \in Seq(Entries) /\ DOMAIN t = 1 .. Len(s) + 1 /\ t[1] = d
        /\ \A i \in DOMAIN s : i + 1 \in DOMAIN t /\ t[i + 1] = s[i]
        /\ \A i \in DOMAIN t : i # 1 => i - 1 \in DOMAIN s /\ t[i] = s[i - 1]
    BY PrependedIs
  <1>1. /\ {s[i].address : i \in DOMAIN s} = X
        /\ \A i, j \in DOMAIN s : s[i].address = s[j].address => i = j
        /\ ~IsBig(a) => \A i \in DOMAIN s : s[i].at = s[i].address - NodeSize
    BY DEF Describes
  <1>2. Len(s) \in Nat /\ DOMAIN s = 1 .. Len(s)
    BY ListEnds
  <1> HIDE DEF t
  <1>3. {t[i].address : i \in DOMAIN t} = X \cup {d.address}
    <2>1. ASSUME NEW i \in DOMAIN t PROVE t[i].address \in X \cup {d.address}
      <3>1. CASE i = 1
        BY <3>1, <1>0
      <3>2. CASE i # 1
        BY <3>2, <1>0, <1>1
      <3> QED BY <3>1, <3>2
    <2>2. ASSUME NEW x \in X PROVE \E i \in DOMAIN t : t[i].address = x
      <3>1. PICK i \in DOMAIN s : s[i].address = x
        BY <1>1
      <3> QED BY <3>1, <1>0
    <2>3. 1 \in DOMAIN t /\ t[1].address = d.address
      BY <1>0, <1>2
    <2> QED BY <2>1, <2>2, <2>3
  <1>4. ASSUME NEW i \in DOMAIN t, NEW j \in DOMAIN t, t[i].address = t[j].address
        PROVE  i = j
    <2>1. \A k \in DOMAIN t : k # 1 => t[k].address # d.address
      BY <1>0, <1>1
    <2>2. CASE i = 1 \/ j = 1
      BY <2>1, <2>2, <1>0, <1>4
    <2>3. CASE i # 1 /\ j # 1
      <3>1. i - 1 \in DOMAIN s /\ j - 1 \in DOMAIN s /\ t[i] = s[i - 1] /\ t[j] = s[j - 1]
        BY <2>3, <1>0
      <3>2. i - 1 = j - 1 /\ i \in Int /\ j \in Int
        BY <3>1, <1>0, <1>1, <1>2, <1>4
      <3> QED BY <3>2
    <2> QED BY <2>2, <2>3
  <1>5. ASSUME ~IsBig(a), NEW i \in DOMAIN t PROVE t[i].at = t[i].address - NodeSize
    BY <1>0, <1>1, <1>5
  <1> QED BY <1>0, <1>3, <1>4, <1>5 DEF Describes, t

LEMMA PrependedAts ==
  ASSUME NEW s \in Seq(Entries), OnceAt(s), NEW d \in Entries, d.at \notin Ats(s)
  PROVE  Ats(<<d>> \o s) = Ats(s) \cup {d.at} /\ OnceAt(<<d>> \o s)
  <1> DEFINE t == <<d>> \o s
  <1>0. /\ t \in Seq(Entries) /\ DOMAIN t = 1 .. Len(s) + 1 /\ t[1] = d
        /\ \A i \in DOMAIN s : i + 1 \in DOMAIN t /\ t[i + 1] = s[i]
        /\ \A i \in DOMAIN t : i # 1 => i - 1 \in DOMAIN s /\ t[i] = s[i - 1]
    BY PrependedIs
  <1>1. /\ \A i \in DOMAIN s : s[i].at \in Ats(s)
        /\ \A x \in Ats(s) : \E i \in DOMAIN s : s[i].at = x
        /\ \A i, j \in DOMAIN s : s[i].at = s[j].at => i = j
    BY DEF OnceAt, Ats
  <1>2. Len(s) \in Nat /\ DOMAIN s = 1 .. Len(s)
    BY ListEnds
  <1> HIDE DEF t
  <1>3. Ats(t) = Ats(s) \cup {d.at}
    <2>1. ASSUME NEW i \in DOMAIN t PROVE t[i].at \in Ats(s) \cup {d.at}
      <3>1. CASE i = 1
        BY <3>1, <1>0
      <3>2. CASE i # 1
        BY <3>2, <1>0, <1>1
      <3> QED BY <3>1, <3>2
    <2>2. ASSUME NEW x \in Ats(s) PROVE \E i \in DOMAIN t : t[i].at = x
      <3>1. PICK i \in DOMAIN s : s[i].at = x
        BY <1>1
      <3> QED BY <3>1, <1>0
    <2>3. 1 \in DOMAIN t /\ t[1].at = d.at
      BY <1>0, <1>2
    <2>4. Ats(t) = {t[i].at : i \in DOMAIN t}
      BY DEF Ats
    <2> QED BY <2>1, <2>2, <2>3, <2>4
  <1>4. ASSUME NEW i \in DOMAIN t, NEW j \in DOMAIN t, t[i].at = t[j].at
        PROVE  i = j
    <2>1. \A k \in DOMAIN t : k # 1 => t[k].at # d.at
      BY <1>0, <1>1
    <2>2. CASE i = 1 \/ j = 1
      BY <2>1, <2>2, <1>0, <1>4
    <2>3. CASE i # 1 /\ j # 1
      <3>1. i - 1 \in DOMAIN s /\ j - 1 \in DOMAIN s /\ t[i] = s[i - 1] /\ t[j] = s[j - 1]
        BY <2>3, <1>0
      <3>2. i - 1 = j - 1 /\ i \in Int /\ j \in Int
        BY <3>1, <1>0, <1>1, <1>2, <1>4
      <3> QED BY <3>2
    <2> QED BY <2>2, <2>3
  <1> QED BY <1>3, <1>4 DEF OnceAt, t

-----------------------------------------------------------------------------
(* Changes of a heap *)

LEMMA ListOver ==
  ASSUME NEW S, NEW n \in Nat, NEW s \in [1 .. n -> S]
  PROVE  s \in Seq(S)
  OBVIOUS

LEMMA HeapsAre ==
  ASSUME NEW h \in Heaps
  PROVE  /\ h.free \in Seq(Seq(Entries)) /\ h.small \in Seq(BOOLEAN)
         /\ h.slabs \in [Allocator -> Seq(Nat)]
         /\ Len(h.free) \in Nat /\ Len(h.small) = Len(h.free)
         /\ DOMAIN h.free = 1 .. Len(h.free) /\ DOMAIN h.small = 1 .. Len(h.free)
         /\ \A p \in 1 .. Len(h.free) : h.free[p] \in Seq(Entries) /\ h.small[p] \in BOOLEAN
         /\ \A a \in Allocator : /\ SlabsOf(h, a) \subseteq 1 .. Len(h.free)
                                 /\ h.slabs[a] \in Seq(1 .. Len(h.free))
  <1>1. /\ h.free \in Seq(Seq(Entries)) /\ h.small \in Seq(BOOLEAN)
        /\ h.slabs \in [Allocator -> Seq(Nat)]
        /\ Len(h.small) = Len(h.free)
        /\ \A a \in Allocator : SlabsOf(h, a) \subseteq 1 .. Len(h.free)
    BY DEF Heaps
  <1>2. /\ Len(h.free) \in Nat /\ DOMAIN h.free = 1 .. Len(h.free) /\ DOMAIN h.small = 1 .. Len(h.free)
    BY <1>1
  <1>3. \A p \in 1 .. Len(h.free) : h.free[p] \in Seq(Entries) /\ h.small[p] \in BOOLEAN
    BY <1>1, <1>2
  <1>4. ASSUME NEW a \in Allocator PROVE h.slabs[a] \in Seq(1 .. Len(h.free))
    <2>1. PICK s \in Seq(Nat) : s = h.slabs[a]
      BY <1>1
    <2>2. \A i \in DOMAIN s : s[i] \in 1 .. Len(h.free)
      BY <1>1, <2>1 DEF SlabsOf
    <2>3. DOMAIN s = 1 .. Len(s) /\ Len(s) \in Nat
      OBVIOUS
    <2>4. s \in [1 .. Len(s) -> 1 .. Len(h.free)]
      BY <2>2, <2>3
    <2>5. s \in Seq(1 .. Len(h.free))
      BY <2>3, <2>4, ListOver
    <2> QED BY <2>1, <2>5
  <1> QED BY <1>1, <1>2, <1>3, <1>4

Relisted(h, p, s) == [h EXCEPT !.free[p] = s]

Extended(h, a, b, s) ==
  [h EXCEPT !.slabs[a] = <<NewPage(h)>> \o @, !.small = Append(@, b), !.free = Append(@, s)]

RelistedBy(h, p, s, g) ==
  /\ g \in Heaps /\ g.small = h.small /\ g.slabs = h.slabs /\ Len(g.free) = Len(h.free)
  /\ g.free[p] = s /\ \A q \in 1 .. Len(h.free) : q # p => g.free[q] = h.free[q]
  /\ \A a : SlabsOf(g, a) = SlabsOf(h, a)

LEMMA Replacing ==
  ASSUME NEW h \in Heaps, NEW p \in 1 .. Len(h.free), NEW s \in Seq(Entries)
  PROVE  RelistedBy(h, p, s, Relisted(h, p, s))
  <1> DEFINE f == [h.free EXCEPT ![p] = s]
             g == [free |-> f, small |-> h.small, slabs |-> h.slabs]
  <1>1. Relisted(h, p, s) = g
    <2>1. h \in [free : Seq(Seq(Entries)), small : Seq(BOOLEAN), slabs : [Allocator -> Seq(Nat)]]
      BY DEF Heaps
    <2>2. h = [free |-> h.free, small |-> h.small, slabs |-> h.slabs]
      BY <2>1
    <2>3. \A r, x, y, z, v : r = [free |-> x, small |-> y, slabs |-> z] =>
            [r EXCEPT !.free = v] = [free |-> v, small |-> y, slabs |-> z]
      OBVIOUS
    <2>4. [h EXCEPT !.free = f] = g
      <3> HIDE DEF f
      <3> QED BY <2>2, <2>3
    <2> QED BY <2>4 DEF Relisted
  <1>2. /\ f \in Seq(Seq(Entries)) /\ Len(f) = Len(h.free) /\ f[p] = s
        /\ \A q \in 1 .. Len(h.free) : q # p => f[q] = h.free[q]
    <2>1. h.free \in Seq(Seq(Entries)) /\ p \in 1 .. Len(h.free)
      BY HeapsAre
    <2>2. f \in Seq(Seq(Entries)) /\ Len(f) = Len(h.free)
      BY <2>1, ExceptSeq
    <2> QED BY <2>1, <2>2, HeapsAre
  <1> HIDE DEF f
  <1>3. g.small = h.small /\ g.slabs = h.slabs /\ g.free = f
    OBVIOUS
  <1>4. \A a : SlabsOf(g, a) = SlabsOf(h, a)
    BY <1>3 DEF SlabsOf
  <1>5. g \in Heaps
    BY <1>2, <1>3, <1>4, HeapsAre DEF Heaps
  <1>6. Len(g.free) = Len(h.free)
    BY <1>2, <1>3
  <1>7. RelistedBy(h, p, s, g)
    BY <1>2, <1>3, <1>4, <1>5, <1>6 DEF RelistedBy
  <1> QED BY <1>1, <1>7

ExtendedBy(h, a, b, s, g) ==
  /\ g \in Heaps /\ Len(g.free) = Len(h.free) + 1
  /\ SlabsOf(g, a) = SlabsOf(h, a) \cup {NewPage(h)}
  /\ \A c : c # a => SlabsOf(g, c) = SlabsOf(h, c)
  /\ g.free[NewPage(h)] = s /\ g.small[NewPage(h)] = b
  /\ \A q \in 1 .. Len(h.free) : g.free[q] = h.free[q] /\ g.small[q] = h.small[q]

LEMMA Extending ==
  ASSUME NEW h \in Heaps, NEW a \in Allocator, NEW b \in BOOLEAN, NEW s \in Seq(Entries)
  PROVE  ExtendedBy(h, a, b, s, Extended(h, a, b, s))
  <1> DEFINE n == Len(h.free) + 1
             l == <<n>> \o h.slabs[a]
             sl == [h.slabs EXCEPT ![a] = l]
             sm == Append(h.small, b)
             f == Append(h.free, s)
             g == [free |-> f, small |-> sm, slabs |-> sl]
  <1>1. Extended(h, a, b, s) = g
    <2>1. h \in [free : Seq(Seq(Entries)), small : Seq(BOOLEAN), slabs : [Allocator -> Seq(Nat)]]
      BY DEF Heaps
    <2>2. h = [free |-> h.free, small |-> h.small, slabs |-> h.slabs]
      BY <2>1
    <2>3. \A r, x, y, z, v : r = [free |-> x, small |-> y, slabs |-> z] =>
            /\ [r EXCEPT !.slabs = v] = [free |-> x, small |-> y, slabs |-> v]
            /\ [r EXCEPT !.small = v] = [free |-> x, small |-> v, slabs |-> z]
            /\ [r EXCEPT !.free = v] = [free |-> v, small |-> y, slabs |-> z]
      OBVIOUS
    <2> HIDE DEF sl, sm, f
    <2>4. PICK r : r = [h EXCEPT !.slabs = sl]
      OBVIOUS
    <2>5. r = [free |-> h.free, small |-> h.small, slabs |-> sl]
      BY <2>2, <2>3, <2>4, Zenon
    <2>6. PICK t : t = [r EXCEPT !.small = sm]
      OBVIOUS
    <2>7. t = [free |-> h.free, small |-> sm, slabs |-> sl]
      BY <2>3, <2>5, <2>6, Zenon
    <2>8. [t EXCEPT !.free = f] = g
      BY <2>3, <2>7, SMTT(30)
    <2>9. [[[h EXCEPT !.slabs = sl] EXCEPT !.small = sm] EXCEPT !.free = f] = g
      BY <2>4, <2>6, <2>8
    <2> QED BY <2>9 DEF Extended, NewPage, sl, sm, f
  <1>2. /\ f \in Seq(Seq(Entries)) /\ Len(f) = n /\ f[n] = s
        /\ \A q \in 1 .. Len(h.free) : f[q] = h.free[q]
    BY HeapsAre
  <1>3. /\ sm \in Seq(BOOLEAN) /\ Len(sm) = n /\ sm[n] = b
        /\ \A q \in 1 .. Len(h.free) : sm[q] = h.small[q]
    BY HeapsAre
  <1>4. /\ l \in Seq(Nat) /\ {l[i] : i \in DOMAIN l} = SlabsOf(h, a) \cup {n}
    <2>1. PICK t \in Seq(Nat) : t = h.slabs[a]
      BY HeapsAre
    <2>2. n \in Nat /\ <<n>> \in Seq(Nat) /\ Len(<<n>>) = 1 /\ <<n>>[1] = n
      BY HeapsAre
    <2>3. /\ l \in Seq(Nat) /\ Len(l) = 1 + Len(t)
          /\ \A i \in 1 .. 1 + Len(t) : l[i] = IF i <= 1 THEN <<n>>[i] ELSE t[i - 1]
      BY <2>1, <2>2, ConcatProperties
    <2>4. DOMAIN l = 1 .. 1 + Len(t) /\ Len(t) \in Nat /\ DOMAIN t = 1 .. Len(t)
      BY <2>3
    <2> HIDE DEF l
    <2>5. ASSUME NEW i \in DOMAIN l PROVE l[i] \in SlabsOf(h, a) \cup {n}
      <3>1. CASE i <= 1
        BY <3>1, <2>2, <2>3, <2>4
      <3>2. CASE ~ (i <= 1)
        <4>1. i \in 1 .. 1 + Len(t) /\ i \in Nat
          BY <2>4
        <4>2. i - 1 \in DOMAIN t
          BY <3>2, <4>1, <2>4
        <4>3. l[i] = t[i - 1]
          BY <3>2, <4>1, <2>3
        <4> QED BY <4>2, <4>3, <2>1 DEF SlabsOf
      <3> QED BY <3>1, <3>2
    <2>6. ASSUME NEW q \in SlabsOf(h, a) PROVE \E i \in DOMAIN l : l[i] = q
      <3>1. PICK i \in DOMAIN t : t[i] = q
        BY <2>1 DEF SlabsOf
      <3>2. i + 1 \in DOMAIN l /\ ~ (i + 1 <= 1) /\ (i + 1) - 1 = i
        BY <2>4
      <3>3. l[i + 1] = t[i]
        BY <3>2, <2>3, <2>4
      <3> QED BY <3>1, <3>2, <3>3
    <2>7. 1 \in DOMAIN l /\ l[1] = n
      BY <2>2, <2>3, <2>4
    <2> QED BY <2>3, <2>5, <2>6, <2>7
  <1> HIDE DEF f, sm, l, n
  <1>5. g.free = f /\ g.small = sm /\ g.slabs = sl
    OBVIOUS
  <1>6. sl \in [Allocator -> Seq(Nat)] /\ sl[a] = l /\ \A c : c # a => sl[c] = h.slabs[c]
    BY <1>4, HeapsAre
  <1>7. SlabsOf(g, a) = SlabsOf(h, a) \cup {n}
    BY <1>4, <1>5, <1>6 DEF SlabsOf
  <1>8. \A c : c # a => SlabsOf(g, c) = SlabsOf(h, c)
    BY <1>5, <1>6 DEF SlabsOf
  <1>9. g \in Heaps
    <2>1. \A c \in Allocator : SlabsOf(g, c) \subseteq 1 .. n
      <3>1. \A c \in Allocator : SlabsOf(h, c) \subseteq 1 .. n
        BY HeapsAre DEF n
      <3>2. n \in 1 .. n
        BY HeapsAre DEF n
      <3> QED BY <3>1, <3>2, <1>7, <1>8
    <2> QED BY <2>1, <1>2, <1>3, <1>5, <1>6 DEF Heaps
  <1>10. NewPage(h) = n /\ Len(g.free) = Len(h.free) + 1
    BY <1>2, <1>5 DEF NewPage, n
  <1> HIDE DEF g
  <1>11. ExtendedBy(h, a, b, s, g)
    BY <1>2, <1>3, <1>5, <1>7, <1>8, <1>9, <1>10 DEF ExtendedBy
  <1> QED BY <1>1, <1>11

\* The objects of a that page p may hand out when T is taken.
Left(T, p, a) == {x \in Objects(p, a) : <<a, x>> \notin T}

LEMMA ConsistentIs ==
  ASSUME NEW h, NEW T, Consistent(h, T)
  PROVE  /\ h \in Heaps /\ T \subseteq Allocator \X Nat
         /\ \A p \in 1 .. Len(h.free) : \E a \in Allocator : p \in SlabsOf(h, a)
         /\ \A a, b \in Allocator : a # b => SlabsOf(h, a) \cap SlabsOf(h, b) = {}
         /\ \A o \in T : get_slab(o[2]) \in SlabsOf(h, o[1]) /\ o[2] \in Objects(get_slab(o[2]), o[1])
         /\ \A a \in Allocator : \A p \in SlabsOf(h, a) :
              /\ p \in 1 .. Len(h.free) /\ h.small[p] = ~IsBig(a)
              /\ Describes(h.free[p], Left(T, p, a), a)
  BY HeapsAre DEF Consistent, Left

LEMMA Taking ==
  ASSUME NEW h, NEW T, Consistent(h, T), NEW a \in Allocator, NEW p \in SlabsOf(h, a),
         h.free[p] # <<>>
  PROVE  LET x == Head(h.free[p]).address
         IN /\ <<a, x>> \notin T /\ x \in Nat /\ x > 0 /\ get_slab(x) = p /\ x \in Objects(p, a)
            /\ ~IsBig(a) => Head(h.free[p]).at = x - NodeSize
            /\ Head(h.free[p]) \in Entries
            /\ Consistent(Relisted(h, p, Tail(h.free[p])), T \cup {<<a, x>>})
  <1> DEFINE s == h.free[p]
             x == Head(s).address
             g == Relisted(h, p, Tail(s))
             U == T \cup {<<a, x>>}
  <1>1. /\ h \in Heaps /\ T \subseteq Allocator \X Nat
        /\ \A q \in 1 .. Len(h.free) : \E c \in Allocator : q \in SlabsOf(h, c)
        /\ \A e, c \in Allocator : e # c => SlabsOf(h, e) \cap SlabsOf(h, c) = {}
        /\ \A o \in T : get_slab(o[2]) \in SlabsOf(h, o[1]) /\ o[2] \in Objects(get_slab(o[2]), o[1])
        /\ \A c \in Allocator : \A q \in SlabsOf(h, c) :
              /\ q \in 1 .. Len(h.free) /\ h.small[q] = ~IsBig(c)
              /\ Describes(h.free[q], Left(T, q, c), c)
    BY ConsistentIs
  <1>2. p \in 1 .. Len(h.free) /\ p \in Nat /\ p > 0 /\ s \in Seq(Entries) /\ Describes(s, Left(T, p, a), a)
    BY <1>1, HeapsAre
  <1>3. /\ Head(s) \in Entries /\ Tail(s) \in Seq(Entries) /\ x \in Left(T, p, a)
        /\ ~IsBig(a) => Head(s).at = x - NodeSize
        /\ Describes(Tail(s), Left(T, p, a) \ {x}, a)
    BY <1>2, Beheaded
  <1>4. /\ g \in Heaps /\ g.small = h.small /\ Len(g.free) = Len(h.free)
        /\ g.free[p] = Tail(s) /\ \A q \in 1 .. Len(h.free) : q # p => g.free[q] = h.free[q]
        /\ \A c : SlabsOf(g, c) = SlabsOf(h, c)
    <2>1. h \in Heaps /\ p \in 1 .. Len(h.free) /\ Tail(s) \in Seq(Entries)
      BY <1>1, <1>2, <1>3
    <2> HIDE DEF s
    <2>2. RelistedBy(h, p, Tail(s), g)
      BY <2>1, Replacing
    <2> QED BY <2>2 DEF RelistedBy
  <1>5. x \in Objects(p, a) /\ <<a, x>> \notin T
    BY <1>3 DEF Left
  <1>6. x \in Nat /\ x > 0 /\ get_slab(x) = p
    BY <1>2, <1>5, ObjectsLie DEF InPage
  <1> HIDE DEF g, x
  <1>7. \A o \in U : get_slab(o[2]) \in SlabsOf(g, o[1]) /\ o[2] \in Objects(get_slab(o[2]), o[1])
    BY <1>1, <1>4, <1>5, <1>6
  <1>8. Left(U, p, a) = Left(T, p, a) \ {x}
    BY DEF Left
  <1>9. ASSUME NEW c \in Allocator, NEW q \in SlabsOf(g, c)
        PROVE  g.small[q] = ~IsBig(c) /\ Describes(g.free[q], Left(U, q, c), c)
    <2>1. q \in SlabsOf(h, c) /\ q \in 1 .. Len(h.free)
      BY <1>1, <1>4
    <2>2. CASE q = p
      <3>1. c = a
        BY <2>1, <2>2, <1>1
      <3> QED BY <3>1, <2>1, <2>2, <1>1, <1>3, <1>4, <1>8
    <2>3. CASE q # p
      <3>1. ASSUME NEW y \in Objects(q, c), c = a PROVE y # x
        <4>1. q \in Nat
          BY <2>1
        <4>2. get_slab(y) = q
          BY <4>1, ObjectsLie
        <4> QED BY <4>2, <2>3, <1>6
      <3>2. Left(U, q, c) = Left(T, q, c)
        BY <3>1 DEF Left
      <3> QED BY <3>2, <2>1, <2>3, <1>1, <1>4
    <2> QED BY <2>2, <2>3
  <1>10. U \subseteq Allocator \X Nat
    BY <1>1, <1>6
  <1>11. Consistent(g, U)
    <2>1. \A q \in 1 .. Len(g.free) : \E c \in Allocator : q \in SlabsOf(g, c)
      BY <1>1, <1>4
    <2>2. \A e, c \in Allocator : e # c => SlabsOf(g, e) \cap SlabsOf(g, c) = {}
      BY <1>1, <1>4
    <2>3. \A c \in Allocator : \A q \in SlabsOf(g, c) :
            /\ g.small[q] = ~IsBig(c)
            /\ Describes(g.free[q], {y \in Objects(q, c) : <<c, y>> \notin U}, c)
      BY <1>9 DEF Left
    <2> QED BY <1>4, <1>7, <1>10, <2>1, <2>2, <2>3, Zenon DEF Consistent
  <1> QED BY <1>3, <1>5, <1>6, <1>11 DEF g, x

LEMMA Giving ==
  ASSUME NEW h, NEW T, Consistent(h, T), NEW o \in T, NEW d \in Entries, d.address = o[2],
         ~IsBig(o[1]) => d.at = o[2] - NodeSize
  PROVE  LET p == get_slab(o[2])
         IN /\ p \in SlabsOf(h, o[1])
            /\ Consistent(Relisted(h, p, <<d>> \o h.free[p]), T \ {o})
  <1> DEFINE p == get_slab(o[2])
             s == h.free[p]
             g == Relisted(h, p, <<d>> \o s)
             U == T \ {o}
  <1>1. /\ h \in Heaps /\ T \subseteq Allocator \X Nat
        /\ \A q \in 1 .. Len(h.free) : \E c \in Allocator : q \in SlabsOf(h, c)
        /\ \A e, c \in Allocator : e # c => SlabsOf(h, e) \cap SlabsOf(h, c) = {}
        /\ \A t \in T : get_slab(t[2]) \in SlabsOf(h, t[1]) /\ t[2] \in Objects(get_slab(t[2]), t[1])
        /\ \A c \in Allocator : \A q \in SlabsOf(h, c) :
              /\ q \in 1 .. Len(h.free) /\ h.small[q] = ~IsBig(c)
              /\ Describes(h.free[q], Left(T, q, c), c)
    BY ConsistentIs
  <1>2. PICK a \in Allocator, x \in Nat : o = <<a, x>>
    BY <1>1
  <1>3. o[1] = a /\ o[2] = x /\ p = get_slab(x) /\ p \in SlabsOf(h, a) /\ x \in Objects(p, a)
    BY <1>1, <1>2
  <1>4. p \in 1 .. Len(h.free) /\ s \in Seq(Entries) /\ Describes(s, Left(T, p, a), a)
    BY <1>1, <1>3, HeapsAre
  <1>5. x \notin Left(T, p, a)
    BY <1>2 DEF Left
  <1>6. <<d>> \o s \in Seq(Entries) /\ Describes(<<d>> \o s, Left(T, p, a) \cup {x}, a)
    BY <1>3, <1>4, <1>5, Prepended
  <1>7. /\ g \in Heaps /\ g.small = h.small /\ Len(g.free) = Len(h.free)
        /\ g.free[p] = <<d>> \o s /\ \A q \in 1 .. Len(h.free) : q # p => g.free[q] = h.free[q]
        /\ \A c : SlabsOf(g, c) = SlabsOf(h, c)
    <2>1. h \in Heaps /\ p \in 1 .. Len(h.free) /\ <<d>> \o s \in Seq(Entries)
      BY <1>1, <1>4, <1>6
    <2> HIDE DEF s, p
    <2>2. RelistedBy(h, p, <<d>> \o s, g)
      BY <2>1, Replacing
    <2> QED BY <2>2 DEF RelistedBy
  <1> HIDE DEF g, s, p
  <1>8. Left(U, p, a) = Left(T, p, a) \cup {x}
    BY <1>2, <1>3 DEF Left
  <1>9. ASSUME NEW c \in Allocator, NEW q \in SlabsOf(g, c)
        PROVE  g.small[q] = ~IsBig(c) /\ Describes(g.free[q], Left(U, q, c), c)
    <2>1. q \in SlabsOf(h, c) /\ q \in 1 .. Len(h.free)
      BY <1>1, <1>7
    <2>2. CASE q = p
      <3>1. c = a
        BY <2>1, <2>2, <1>1, <1>3
      <3> QED BY <3>1, <2>1, <2>2, <1>1, <1>6, <1>7, <1>8
    <2>3. CASE q # p
      <3>1. ASSUME NEW y \in Objects(q, c), <<c, y>> = o PROVE FALSE
        <4>1. q \in Nat
          BY <2>1
        <4>2. get_slab(y) = q
          BY <4>1, ObjectsLie
        <4> QED BY <4>2, <2>3, <3>1, <1>2, <1>3
      <3>2. Left(U, q, c) = Left(T, q, c)
        BY <3>1 DEF Left
      <3> QED BY <3>2, <2>1, <2>3, <1>1, <1>7
    <2> QED BY <2>2, <2>3
  <1>10. Consistent(g, U)
    BY <1>1, <1>7, <1>9 DEF Consistent, Left
  <1> QED BY <1>3, <1>10 DEF g, s, p

LEMMA Adding ==
  ASSUME NEW h, NEW T, Consistent(h, T), NEW a \in Allocator, NEW s \in Seq(Entries),
         NEW b \in BOOLEAN, b = ~IsBig(a),
         NEW X \in SUBSET Objects(NewPage(h), a), Describes(s, Objects(NewPage(h), a) \ X, a)
  PROVE  Consistent(Extended(h, a, b, s), T \cup {a} \X X)
  <1> DEFINE n == NewPage(h)
             g == Extended(h, a, b, s)
             U == T \cup {a} \X X
  <1>1. /\ h \in Heaps /\ T \subseteq Allocator \X Nat
        /\ \A q \in 1 .. Len(h.free) : \E c \in Allocator : q \in SlabsOf(h, c)
        /\ \A e, c \in Allocator : e # c => SlabsOf(h, e) \cap SlabsOf(h, c) = {}
        /\ \A t \in T : get_slab(t[2]) \in SlabsOf(h, t[1]) /\ t[2] \in Objects(get_slab(t[2]), t[1])
        /\ \A c \in Allocator : \A q \in SlabsOf(h, c) :
              /\ q \in 1 .. Len(h.free) /\ h.small[q] = ~IsBig(c)
              /\ Describes(h.free[q], Left(T, q, c), c)
    BY ConsistentIs
  <1>2. Len(h.free) \in Nat /\ n = Len(h.free) + 1 /\ n \in Nat
    BY <1>1, HeapsAre DEF NewPage
  <1>3. b \in BOOLEAN
    OBVIOUS
  <1>4. /\ g \in Heaps /\ Len(g.free) = n
        /\ SlabsOf(g, a) = SlabsOf(h, a) \cup {n}
        /\ \A c : c # a => SlabsOf(g, c) = SlabsOf(h, c)
        /\ g.free[n] = s /\ g.small[n] = b
        /\ \A q \in 1 .. Len(h.free) : g.free[q] = h.free[q] /\ g.small[q] = h.small[q]
    <2>1. h \in Heaps
      BY <1>1
    <2>2. ExtendedBy(h, a, b, s, g)
      BY <1>3, <2>1, Extending
    <2> HIDE DEF g, n
    <2>3. n = NewPage(h)
      BY DEF n
    <2> QED BY <1>2, <2>2, <2>3 DEF ExtendedBy
  <1>5. \A c \in Allocator : n \notin SlabsOf(h, c)
    <2> HIDE DEF n
    <2> QED BY <1>1, <1>2
  <1> HIDE DEF g
  <1>6. \A x \in Objects(n, a) : x \in Nat /\ get_slab(x) = n
    BY <1>2, ObjectsLie DEF InPage
  <1> HIDE DEF n
  <1>7. \A q \in 1 .. n : \E c \in Allocator : q \in SlabsOf(g, c)
    <2> SUFFICES ASSUME NEW q \in 1 .. n PROVE \E c \in Allocator : q \in SlabsOf(g, c)
      OBVIOUS
    <2>1. q = n \/ q \in 1 .. Len(h.free)
      BY <1>2
    <2> QED BY <2>1, <1>1, <1>4
  <1>8. \A e, c \in Allocator : e # c => SlabsOf(g, e) \cap SlabsOf(g, c) = {}
    BY <1>1, <1>4, <1>5
  <1>9. U \subseteq Allocator \X Nat
    BY <1>1, <1>6 DEF n
  <1>10. ASSUME NEW t \in U
         PROVE  get_slab(t[2]) \in SlabsOf(g, t[1]) /\ t[2] \in Objects(get_slab(t[2]), t[1])
    <2>1. CASE t \in T
      BY <2>1, <1>1, <1>4
    <2>2. CASE t \in {a} \X X
      <3>1. t[1] = a /\ t[2] \in Objects(n, a)
        BY <2>2 DEF n
      <3> QED BY <3>1, <1>4, <1>6
    <2> QED BY <2>1, <2>2
  <1>11. ASSUME NEW c \in Allocator, NEW q \in SlabsOf(g, c)
         PROVE  g.small[q] = ~IsBig(c) /\ Describes(g.free[q], Left(U, q, c), c)
    <2>1. CASE q = n
      <3>1. c = a
        BY <2>1, <1>4, <1>5
      <3>2. \A x \in Objects(n, a) : <<a, x>> \notin T
        BY <1>1, <1>5, <1>6
      <3>3. Left(U, n, a) = Objects(n, a) \ X
        BY <3>2 DEF Left
      <3> QED BY <2>1, <3>1, <3>3, <1>4 DEF n
    <2>2. CASE q # n
      <3>1. q \in SlabsOf(h, c) /\ q \in 1 .. Len(h.free)
        BY <2>2, <1>1, <1>4
      <3>2. \A x \in Objects(q, c) : get_slab(x) = q
        BY <3>1, ObjectsLie
      <3>3. Left(U, q, c) = Left(T, q, c)
        <4>1. \A x \in Objects(q, c) : <<c, x>> \notin {a} \X X
          BY <3>2, <1>6, <2>2 DEF n
        <4> QED BY <4>1 DEF Left
      <3> QED BY <3>1, <3>3, <1>1, <1>4
    <2> QED BY <2>1, <2>2
  <1>12. Consistent(g, U)
    BY <1>1, <1>4, <1>7, <1>8, <1>9, <1>10, <1>11 DEF Consistent, Left
  <1> QED BY <1>12 DEF g

-----------------------------------------------------------------------------
(* Allocation of a small object *)

\* Pages are added at most, and the lists of big slabs stay.
Kept(h, g) ==
  /\ BigOf(g) = BigOf(h) /\ \A p \in BigOf(h) : g.free[p] = h.free[p]
  /\ \A c \in Allocator : SlabsOf(h, c) \subseteq SlabsOf(g, c)

LEMMA KeptOnce ==
  ASSUME NEW h, NEW g, Kept(h, g)
  PROVE  /\ Described(g) = Described(h) /\ \A L : TakenIn(g, L) = TakenIn(h, L)
         /\ Once(h) => Once(g)
  <1>1. BigOf(g) = BigOf(h) /\ \A p \in BigOf(h) : g.free[p] = h.free[p]
    BY DEF Kept
  <1>2. Described(g) = Described(h)
    BY <1>1 DEF Described
  <1>3. Once(h) => Once(g)
    BY <1>1 DEF Once
  <1> QED BY <1>2, <1>3 DEF TakenIn

LEMMA KeptTwice ==
  ASSUME NEW h, NEW g, NEW f, Kept(h, g), Kept(g, f)
  PROVE  Kept(h, f)
  BY DEF Kept

LEMMA UsableIs ==
  ASSUME NEW h \in Heaps, NEW a \in Allocator
  PROVE  /\ Usable(h, a) = 0 => \A p \in SlabsOf(h, a) : h.free[p] = <<>>
         /\ Usable(h, a) # 0 => Usable(h, a) \in SlabsOf(h, a) /\ h.free[Usable(h, a)] # <<>>
  <1> DEFINE S == {i \in DOMAIN h.slabs[a] : h.free[h.slabs[a][i]] # <<>>}
  <1>1. Usable(h, a) = IF S = {} THEN 0 ELSE h.slabs[a][Min(S)]
    BY DEF Usable
  <1>2. h.slabs[a] \in Seq(Nat) /\ SlabsOf(h, a) \subseteq 1 .. Len(h.free)
    BY HeapsAre
  <1>3. S \in SUBSET Nat
    BY <1>2
  <1>4. CASE S = {}
    <2>1. \A p \in SlabsOf(h, a) : h.free[p] = <<>>
      BY <1>4 DEF SlabsOf
    <2>2. Usable(h, a) = 0
      BY <1>1, <1>4
    <2> QED BY <2>1, <2>2
  <1>5. CASE S # {}
    <2>1. Min(S) \in S
      <3> HIDE DEF S
      <3>1. \E n \in S : \A m \in S : n <= m
        BY <1>3, <1>5, Least
      <3> QED BY <3>1 DEF Min
    <2>2. Usable(h, a) = h.slabs[a][Min(S)]
      BY <1>1, <1>5
    <2>3. Min(S) \in DOMAIN h.slabs[a] /\ h.free[h.slabs[a][Min(S)]] # <<>>
      BY <2>1
    <2>4. Usable(h, a) \in SlabsOf(h, a) /\ h.free[Usable(h, a)] # <<>>
      <3>1. \A m \in DOMAIN h.slabs[a] : h.slabs[a][m] \in SlabsOf(h, a)
        BY DEF SlabsOf
      <3> HIDE DEF S
      <3> QED BY <3>1, <2>2, <2>3
    <2>5. Usable(h, a) # 0
      BY <2>4, <1>2
    <2> QED BY <2>4, <2>5
  <1> QED BY <1>4, <1>5

\* The list of a new small slab.
NewList(p, a) ==
  LET blocks == Blocks(p, NodeSize + size[a], alignment[a])
  IN [i \in DOMAIN blocks |-> Descriptor(Reverse(blocks)[i], Reverse(blocks)[i] + NodeSize)]

LEMMA NewListIs ==
  ASSUME NEW p \in Nat, NEW a \in Allocator, ~IsBig(a)
  PROVE  NewList(p, a) \in Seq(Entries) /\ Describes(NewList(p, a), Objects(p, a), a)
  <1>1. Node(a) = NodeSize /\ NodeSize \in Nat
    BY SizesOf, PageSizes
  <1>2. PICK B : B = BlocksOf(p, a)
    OBVIOUS
  <1>3. PICK n \in Nat : n = Len(B) /\ DOMAIN B = 1 .. n
    BY <1>2, BlocksList
  <1>4. B \in Seq(Nat) /\ \A i, j \in 1 .. n : B[i] = B[j] => i = j
    BY <1>2, <1>3, BlocksList, ZenonT(30)
  <1>5. \A i \in 1 .. n : B[i] \in Nat
    BY <1>3, <1>4
  <1>6. Reverse(B) = [i \in 1 .. n |-> B[(n - i) + 1]]
    BY <1>3 DEF Reverse
  <1>7. \A i \in 1 .. n : (n - i) + 1 \in 1 .. n /\ Reverse(B)[i] = B[(n - i) + 1]
    BY <1>6
  <1> DEFINE s == [i \in 1 .. n |-> Descriptor(Reverse(B)[i], Reverse(B)[i] + NodeSize)]
  <1>8. NewList(p, a) = s
    BY <1>1, <1>2, <1>3 DEF NewList, BlocksOf
  <1>9. \A i \in 1 .. n : /\ s[i] = [at |-> B[(n - i) + 1], address |-> B[(n - i) + 1] + NodeSize]
                          /\ s[i].at = B[(n - i) + 1]
                          /\ s[i].address = B[(n - i) + 1] + NodeSize
    BY <1>7 DEF Descriptor
  <1>10. s \in [1 .. n -> Entries]
    <2>1. \A i \in 1 .. n : Descriptor(Reverse(B)[i], Reverse(B)[i] + NodeSize) \in Entries
      BY <1>1, <1>5, <1>7 DEF Descriptor, Entries
    <2> QED BY <2>1
  <1>11. DOMAIN s = 1 .. n
    OBVIOUS
  <1> HIDE DEF s
  <1>12. s \in Seq(Entries)
    BY <1>10, ListOver
  <1>13. Objects(p, a) = {B[i] + NodeSize : i \in 1 .. n}
    BY <1>1, <1>2, <1>3 DEF Objects
  <1>14. {s[i].address : i \in DOMAIN s} = Objects(p, a)
    <2>1. ASSUME NEW i \in 1 .. n PROVE \E j \in 1 .. n : s[j].address = B[i] + NodeSize
      <3>1. (n - i) + 1 \in 1 .. n /\ (n - ((n - i) + 1)) + 1 = i
        OBVIOUS
      <3> QED BY <3>1, <1>9
    <2>2. ASSUME NEW i \in 1 .. n PROVE \E j \in 1 .. n : s[i].address = B[j] + NodeSize
      BY <1>7, <1>9
    <2> QED BY <2>1, <2>2, <1>11, <1>13
  <1>15. ASSUME NEW i \in 1 .. n, NEW j \in 1 .. n, s[i].address = s[j].address PROVE i = j
    <2>1. B[(n - i) + 1] \in Nat /\ B[(n - j) + 1] \in Nat
      BY <1>5, <1>7
    <2>2. B[(n - i) + 1] = B[(n - j) + 1]
      <3>1. B[(n - i) + 1] + NodeSize = B[(n - j) + 1] + NodeSize
        BY <1>9, <1>15
      <3>2. \A x, y, k \in Nat : x + k = y + k => x = y
        OBVIOUS
      <3> QED BY <2>1, <1>1, <3>1, <3>2
    <2>3. (n - i) + 1 = (n - j) + 1
      BY <2>2, <1>4, <1>7
    <2> QED BY <2>3
  <1>16. \A i \in 1 .. n : s[i].at = s[i].address - NodeSize
    <2> SUFFICES ASSUME NEW i \in 1 .. n PROVE s[i].at = s[i].address - NodeSize
      OBVIOUS
    <2>1. \A x, k \in Nat : x = (x + k) - k
      OBVIOUS
    <2>2. B[(n - i) + 1] \in Nat
      BY <1>5, <1>7
    <2>3. B[(n - i) + 1] = (B[(n - i) + 1] + NodeSize) - NodeSize
      BY <2>1, <2>2, <1>1
    <2> QED BY <2>3, <1>9
  <1> QED BY <1>8, <1>11, <1>12, <1>14, <1>15, <1>16 DEF Describes

LEMMA CreateSmallIs ==
  ASSUME NEW h, NEW T, Consistent(h, T), NEW a \in Allocator, ~IsBig(a)
  PROVE  /\ Consistent(CreateSmall(h, a), T) /\ Kept(h, CreateSmall(h, a))
         /\ CreateSmall(h, a) \in Heaps /\ NewPage(h) \in SlabsOf(CreateSmall(h, a), a)
         /\ NodeSize + size[a] <= PageSize - SlabSize =>
              CreateSmall(h, a).free[NewPage(h)] # <<>>
  <1> DEFINE n == NewPage(h)
             s == NewList(n, a)
             g == Extended(h, a, TRUE, s)
  <1>1. h \in Heaps /\ \A c \in Allocator : \A q \in SlabsOf(h, c) : h.small[q] = ~IsBig(c)
    BY ConsistentIs
  <1>2. n = Len(h.free) + 1 /\ n \in Nat /\ Len(h.free) \in Nat
    BY <1>1, HeapsAre DEF NewPage
  <1>3. s \in Seq(Entries) /\ Describes(s, Objects(n, a), a)
    BY <1>2, NewListIs
  <1>4. CreateSmall(h, a) = g
    BY DEF CreateSmall, Extended, NewList
  <1>5. ExtendedBy(h, a, TRUE, s, g)
    BY <1>1, <1>3, Extending
  <1>6. Consistent(g, T)
    <2> DEFINE X == {}
    <2>1. X \in SUBSET Objects(n, a) /\ Objects(n, a) \ X = Objects(n, a) /\ T \cup {a} \X X = T
      OBVIOUS
    <2>2. TRUE \in BOOLEAN /\ TRUE = ~IsBig(a)
      OBVIOUS
    <2> HIDE DEF X, g, s
    <2>3. Describes(s, Objects(NewPage(h), a) \ X, a)
      BY <1>3, <2>1
    <2>4. Consistent(Extended(h, a, TRUE, s), T \cup {a} \X X)
      BY <1>3, <2>1, <2>2, <2>3, Adding
    <2> QED BY <2>1, <2>4 DEF g
  <1>7. Kept(h, g)
    <2> HIDE DEF g, n, s
    <2>1. /\ g \in Heaps /\ Len(g.free) = Len(h.free) + 1
          /\ SlabsOf(g, a) = SlabsOf(h, a) \cup {n}
          /\ \A c : c # a => SlabsOf(g, c) = SlabsOf(h, c)
          /\ g.small[n] = TRUE
          /\ \A q \in 1 .. Len(h.free) : g.free[q] = h.free[q] /\ g.small[q] = h.small[q]
      BY <1>5 DEF ExtendedBy, n
    <2>2. DOMAIN g.free = 1 .. n /\ DOMAIN h.free = 1 .. Len(h.free)
      BY <2>1, <1>1, <1>2, HeapsAre
    <2>3. \A p \in 1 .. n : p = n \/ p \in 1 .. Len(h.free)
      BY <1>2
    <2>4. BigOf(g) = BigOf(h)
      <3>1. \A p \in BigOf(g) : p \in BigOf(h)
        BY <2>1, <2>2, <2>3 DEF BigOf
      <3>2. \A p \in BigOf(h) : p \in BigOf(g)
        BY <2>1, <2>2, <1>2 DEF BigOf
      <3> QED BY <3>1, <3>2
    <2> QED BY <2>1, <2>2, <2>4 DEF Kept, BigOf
  <1>8. n \in SlabsOf(g, a) /\ g.free[n] = s /\ g \in Heaps
    BY <1>5 DEF ExtendedBy
  <1>9. ASSUME NodeSize + size[a] <= PageSize - SlabSize PROVE s # <<>>
    <2>1. Objects(n, a) # {}
      BY <1>2, <1>9, BlocksList, SizesOf
    <2>2. {s[i].address : i \in DOMAIN s} # {}
      BY <1>3, <2>1 DEF Describes
    <2> HIDE DEF s
    <2> QED BY <2>2
  <1> HIDE DEF g, s
  <1> QED BY <1>4, <1>6, <1>7, <1>8, <1>9 DEF n

\* slab_allocator_allocate_no_lock hands out an object that was free, and fails
\* only if none fits.
LEMMA SmallAllocateIs ==
  ASSUME NEW h, NEW T, Consistent(h, T), NEW a \in Allocator, ~IsBig(a)
  PROVE  LET r == SmallAllocate(h, a)
         IN /\ r.address \in Nat /\ Kept(h, r.heap) /\ r.heap \in Heaps
            /\ r.address = 0 => /\ Consistent(r.heap, T)
                                /\ ~ (NodeSize + size[a] <= PageSize - SlabSize)
            /\ r.address # 0 => /\ <<a, r.address>> \notin T
                                /\ Consistent(r.heap, T \cup {<<a, r.address>>})
  <1> DEFINE g == IF Usable(h, a) = 0 THEN CreateSmall(h, a) ELSE h
             p == Usable(g, a)
  <1>1. Consistent(g, T) /\ Kept(h, g) /\ g \in Heaps
    <2>1. Kept(h, h) /\ h \in Heaps
      BY ConsistentIs DEF Kept
    <2> QED BY <2>1, CreateSmallIs
  <1>2. ASSUME p = 0 PROVE ~ (NodeSize + size[a] <= PageSize - SlabSize)
    <2>1. \A q \in SlabsOf(g, a) : g.free[q] = <<>>
      <3> HIDE DEF g
      <3> QED BY <1>1, <1>2, UsableIs
    <2>2. CASE Usable(h, a) = 0
      <3>1. g = CreateSmall(h, a)
        BY <2>2
      <3> HIDE DEF g
      <3> QED BY <3>1, <2>1, CreateSmallIs
    <2>3. CASE Usable(h, a) # 0
      BY <2>3, <1>2
    <2> QED BY <2>2, <2>3
  <1>3. SmallAllocate(h, a) = IF p = 0 THEN Result(g, 0)
                              ELSE Result(Relisted(g, p, Tail(g.free[p])), Head(g.free[p]).address)
    BY DEF SmallAllocate, small_slab_allocate, Relisted
  <1> HIDE DEF g
  <1>4. CASE p = 0
    <2>1. SmallAllocate(h, a) = Result(g, 0)
      BY <1>3, <1>4
    <2>2. Result(g, 0).heap = g /\ Result(g, 0).address = 0
      BY DEF Result
    <2> QED BY <1>1, <1>2, <1>4, <2>1, <2>2
  <1>5. CASE p # 0
    <2>1. p \in SlabsOf(g, a) /\ g.free[p] # <<>>
      BY <1>1, <1>5, UsableIs
    <2> DEFINE x == Head(g.free[p]).address
               f == Relisted(g, p, Tail(g.free[p]))
    <2>2. /\ <<a, x>> \notin T /\ x \in Nat /\ x > 0
          /\ Consistent(f, T \cup {<<a, x>>})
      <3> HIDE DEF p
      <3> QED BY <1>1, <2>1, Taking
    <2>3. SmallAllocate(h, a) = Result(f, x)
      BY <1>3, <1>5
    <2>4. Result(f, x).heap = f /\ Result(f, x).address = x
      BY DEF Result
    <2>5. Kept(g, f)
      <3> HIDE DEF p
      <3>1. p \in 1 .. Len(g.free) /\ g.small[p] = ~IsBig(a) /\ g.free[p] \in Seq(Entries)
        BY <1>1, <2>1, ConsistentIs, HeapsAre
      <3>2. Tail(g.free[p]) \in Seq(Entries)
        BY <2>1, <3>1
      <3>3. /\ f \in Heaps /\ f.small = g.small /\ Len(f.free) = Len(g.free)
            /\ \A q \in 1 .. Len(g.free) : q # p => f.free[q] = g.free[q]
            /\ \A c : SlabsOf(f, c) = SlabsOf(g, c)
        <4>1. RelistedBy(g, p, Tail(g.free[p]), f)
          BY <1>1, <3>1, <3>2, Replacing
        <4> QED BY <4>1 DEF RelistedBy
      <3> HIDE DEF f
      <3>4. DOMAIN f.free = 1 .. Len(g.free) /\ DOMAIN g.free = 1 .. Len(g.free)
        BY <1>1, <3>3, HeapsAre
      <3> QED BY <3>1, <3>3, <3>4 DEF Kept, BigOf
    <2>6. Kept(h, f) /\ f \in Heaps
      <3>1. f \in Heaps
        BY <2>2 DEF Consistent
      <3> HIDE DEF f
      <3> QED BY <3>1, <1>1, <2>5, KeptTwice
    <2> HIDE DEF f, x
    <2> QED BY <2>2, <2>3, <2>4, <2>6
  <1> QED BY <1>4, <1>5

-----------------------------------------------------------------------------
(* Descriptors of big objects *)

LEMMA Describing ==
  ASSUME NEW h \in Heaps, NEW g \in Heaps, NEW p \in BigOf(h), BigOf(g) = BigOf(h),
         \A q \in BigOf(h) : q # p => g.free[q] = h.free[q],
         Once(h), OnceAt(g.free[p]), NEW x,
         Ats(g.free[p]) = Ats(h.free[p]) \cup {x}, x \notin Described(h)
  PROVE  Once(g) /\ Described(g) = Described(h) \cup {x}
  <1>1. /\ \A q \in BigOf(h) : OnceAt(h.free[q])
        /\ \A q, r \in BigOf(h) : q # r => Ats(h.free[q]) \cap Ats(h.free[r]) = {}
    BY DEF Once
  <1>2. \A q \in BigOf(h) : x \notin Ats(h.free[q])
    BY DEF Described
  <1>3. \A q \in BigOf(h) : OnceAt(g.free[q])
    BY <1>1
  <1>4. ASSUME NEW q \in BigOf(h), NEW r \in BigOf(h), q # r
        PROVE  Ats(g.free[q]) \cap Ats(g.free[r]) = {}
    <2>1. Ats(h.free[q]) \cap Ats(h.free[r]) = {} /\ x \notin Ats(h.free[q]) /\ x \notin Ats(h.free[r])
      BY <1>1, <1>2, <1>4
    <2>2. CASE q = p
      BY <2>1, <2>2, <1>4
    <2>3. CASE r = p
      BY <2>1, <2>3, <1>4
    <2>4. CASE q # p /\ r # p
      BY <2>1, <2>4
    <2> QED BY <2>2, <2>3, <2>4
  <1>5. Described(g) = Described(h) \cup {x}
    <2>1. ASSUME NEW y \in Described(g) PROVE y \in Described(h) \cup {x}
      <3>1. PICK q \in BigOf(h) : y \in Ats(g.free[q])
        BY DEF Described
      <3> QED BY <3>1 DEF Described
    <2>2. ASSUME NEW y \in Described(h) PROVE y \in Described(g)
      <3>1. PICK q \in BigOf(h) : y \in Ats(h.free[q])
        BY DEF Described
      <3>2. y \in Ats(g.free[q])
        BY <3>1
      <3> QED BY <3>2 DEF Described
    <2>3. x \in Described(g)
      <3>1. x \in Ats(g.free[p])
        OBVIOUS
      <3> QED BY <3>1 DEF Described
    <2> QED BY <2>1, <2>2, <2>3
  <1> QED BY <1>3, <1>4, <1>5 DEF Once

LEMMA Undescribing ==
  ASSUME NEW h \in Heaps, NEW g \in Heaps, NEW p \in BigOf(h), BigOf(g) = BigOf(h),
         \A q \in BigOf(h) : q # p => g.free[q] = h.free[q],
         Once(h), OnceAt(g.free[p]), NEW x \in Ats(h.free[p]),
         Ats(g.free[p]) = Ats(h.free[p]) \ {x}
  PROVE  Once(g) /\ Described(g) = Described(h) \ {x}
  <1>1. /\ \A q \in BigOf(h) : OnceAt(h.free[q])
        /\ \A q, r \in BigOf(h) : q # r => Ats(h.free[q]) \cap Ats(h.free[r]) = {}
    BY DEF Once
  <1>2. \A q \in BigOf(h) : q # p => x \notin Ats(h.free[q])
    BY <1>1
  <1>3. \A q \in BigOf(h) : OnceAt(g.free[q])
    BY <1>1
  <1>4. \A q \in BigOf(h) : Ats(g.free[q]) = Ats(h.free[q]) \ {x}
    BY <1>2
  <1>5. \A q, r \in BigOf(h) : q # r => Ats(g.free[q]) \cap Ats(g.free[r]) = {}
    BY <1>1, <1>4
  <1>6. Described(g) = Described(h) \ {x}
    <2>1. ASSUME NEW y \in Described(g) PROVE y \in Described(h) \ {x}
      <3>1. PICK q \in BigOf(h) : y \in Ats(g.free[q])
        BY DEF Described
      <3>2. y \in Ats(h.free[q]) /\ y # x
        BY <3>1, <1>4
      <3> QED BY <3>2 DEF Described
    <2>2. ASSUME NEW y \in Described(h), y # x PROVE y \in Described(g)
      <3>1. PICK q \in BigOf(h) : y \in Ats(h.free[q])
        BY DEF Described
      <3>2. y \in Ats(g.free[q])
        BY <3>1, <2>2, <1>4
      <3> QED BY <3>2 DEF Described
    <2> QED BY <2>1, <2>2
  <1> QED BY <1>3, <1>5, <1>6 DEF Once

\* Where an object that is taken lies.
LEMMA TakenLie ==
  ASSUME NEW h, NEW T, Consistent(h, T), NEW a, NEW x, <<a, x>> \in T
  PROVE  LET p == get_slab(x)
         IN /\ a \in Allocator /\ x \in Nat /\ p \in SlabsOf(h, a) /\ p \in 1 .. Len(h.free)
            /\ x \in Objects(p, a) /\ x - Node(a) \in Nat /\ h.small[p] = ~IsBig(a)
            /\ h.free[p] \in Seq(Entries) /\ (p \in BigOf(h) <=> IsBig(a))
  <1> DEFINE p == get_slab(x)
  <1>1. a \in Allocator /\ x \in Nat /\ p \in SlabsOf(h, a) /\ x \in Objects(p, a)
    <2>1. <<a, x>>[1] = a /\ <<a, x>>[2] = x
      OBVIOUS
    <2>2. <<a, x>> \in Allocator \X Nat
      BY ConsistentIs
    <2>3. get_slab(<<a, x>>[2]) \in SlabsOf(h, <<a, x>>[1])
          /\ <<a, x>>[2] \in Objects(get_slab(<<a, x>>[2]), <<a, x>>[1])
      BY ConsistentIs
    <2> QED BY <2>1, <2>2, <2>3
  <1> HIDE DEF p
  <1>2. h \in Heaps /\ p \in 1 .. Len(h.free) /\ h.small[p] = ~IsBig(a)
    BY <1>1, ConsistentIs
  <1>3. h.free[p] \in Seq(Entries) /\ DOMAIN h.free = 1 .. Len(h.free)
    BY <1>2, HeapsAre
  <1>4. p \in BigOf(h) <=> IsBig(a)
    BY <1>2, <1>3 DEF BigOf
  <1>5. x - Node(a) \in Nat
    <2>1. p \in Nat /\ PageSize \in Nat /\ Node(a) \in Nat
      BY <1>1, <1>2, PageSizes, SizesOf
    <2>2. x - Node(a) >= p * PageSize
      BY <1>1, <2>1, ObjectsLie
    <2>3. p * PageSize \in Nat
      BY <2>1
    <2> QED BY <1>1, <2>1, <2>2, <2>3
  <1> QED BY <1>1, <1>2, <1>3, <1>4, <1>5 DEF p

LEMMA SmallFreeIs ==
  ASSUME NEW h, NEW T, Consistent(h, T), NEW a, NEW x, <<a, x>> \in T, ~IsBig(a)
  PROVE  /\ Consistent(small_slab_free(h, x), T \ {<<a, x>>}) /\ Kept(h, small_slab_free(h, x))
         /\ small_slab_free(h, x) \in Heaps
  <1> DEFINE p == get_slab(x)
             d == Descriptor(x - NodeSize, x)
             s == <<d>> \o h.free[p]
             g == Relisted(h, p, s)
  <1>1. /\ a \in Allocator /\ x \in Nat /\ p \in SlabsOf(h, a) /\ p \in 1 .. Len(h.free)
        /\ x \in Objects(p, a) /\ x - Node(a) \in Nat /\ h.small[p] = ~IsBig(a)
        /\ h.free[p] \in Seq(Entries) /\ p \notin BigOf(h)
    BY TakenLie
  <1>2. Node(a) = NodeSize
    BY <1>1, SizesOf
  <1>3. d \in Entries /\ d.address = x /\ d.at = x - NodeSize
    BY <1>1, <1>2 DEF Descriptor, Entries
  <1>4. small_slab_free(h, x) = g
    BY DEF small_slab_free, Relisted
  <1>5. Consistent(g, T \ {<<a, x>>})
    <2> DEFINE o == <<a, x>>
    <2>1. o \in T /\ o[1] = a /\ o[2] = x
      OBVIOUS
    <2> HIDE DEF d, o
    <2>2. Consistent(Relisted(h, get_slab(o[2]), <<d>> \o h.free[get_slab(o[2])]), T \ {o})
      BY <2>1, <1>3, Giving
    <2> QED BY <2>1, <2>2 DEF o
  <1>6. RelistedBy(h, p, s, g)
    <2>1. h \in Heaps
      BY ConsistentIs
    <2>2. s \in Seq(Entries)
      <3> HIDE DEF d, p
      <3> QED BY <1>1, <1>3
    <2> HIDE DEF s, p
    <2> QED BY <1>1, <2>1, <2>2, Replacing
  <1>7. Kept(h, g)
    <2> HIDE DEF g, s, p
    <2>1. h \in Heaps
      BY ConsistentIs
    <2>2. DOMAIN g.free = 1 .. Len(h.free) /\ DOMAIN h.free = 1 .. Len(h.free)
      BY <2>1, <1>6, HeapsAre DEF RelistedBy
    <2> QED BY <1>1, <1>6, <2>2 DEF Kept, BigOf, RelistedBy
  <1>8. g \in Heaps
    BY <1>6 DEF RelistedBy
  <1> HIDE DEF g
  <1> QED BY <1>4, <1>5, <1>7, <1>8

LEMMA OwnSizes ==
  /\ Descriptors \in Allocator /\ ~IsBig(Descriptors)
  /\ NodeSize + size[Descriptors] <= PageSize - SlabSize
  /\ Structs \in Allocator /\ ~IsBig(Structs)
  /\ NodeSize + size[Structs] <= PageSize - SlabSize
  <1>1. Descriptors \in Allocator /\ Structs \in Allocator /\ BigObject \in Nat
    BY SlabAssumption
  <1>2. \A a \in {Descriptors, Structs} : size[a] \in Nat /\ size[a] < BigObject
    BY <1>1, OwnAssumption, SizesOf
  <1>3. ~IsBig(Descriptors) /\ ~IsBig(Structs)
    BY <1>1, <1>2 DEF IsBig
  <1> QED BY <1>1, <1>3, OwnAssumption

\* big_slab_free: the descriptor comes from the allocator Descriptors.
LEMMA BigFreeIs ==
  ASSUME NEW h, NEW L, Whole(h, L), NEW a, NEW x, <<a, x>> \in L, IsBig(a)
  PROVE  /\ Whole(big_slab_free(h, x), L \ {<<a, x>>})
         /\ big_slab_free(h, x) \in Heaps
         /\ \A c \in Allocator : SlabsOf(h, c) \subseteq SlabsOf(big_slab_free(h, x), c)
  <1> DEFINE T == TakenIn(h, L)
             D == Descriptors
             m == SmallAllocate(h, D)
             f == m.heap
             y == m.address
             U == T \cup {<<D, y>>}
             o == <<a, x>>
             p == get_slab(x)
             d == Descriptor(y, x)
             s == <<d>> \o f.free[p]
             g == Relisted(f, p, s)
  <1>1. Consistent(h, T) /\ Once(h) /\ \A t \in L : t[1] # D
    BY DEF Whole
  <1>2. /\ y \in Nat /\ <<D, y>> \notin T /\ Consistent(f, U) /\ Kept(h, f) /\ f \in Heaps
    <2>1. y # 0 /\ y \in Nat /\ Kept(h, f) /\ f \in Heaps
      BY <1>1, OwnSizes, SmallAllocateIs
    <2> QED BY <2>1, <1>1, OwnSizes, SmallAllocateIs
  <1> HIDE DEF m, f, y
  <1>3. big_slab_free(h, x) = g
    BY DEF big_slab_free, Relisted, m, f, y
  <1>4. o \in T /\ o \in U /\ o # <<D, y>> /\ a # D /\ o[1] = a /\ o[2] = x
    <2>1. a # D
      BY OwnSizes
    <2> QED BY <2>1 DEF TakenIn
  <1>5. /\ a \in Allocator /\ x \in Nat /\ p \in SlabsOf(f, a) /\ p \in 1 .. Len(f.free)
        /\ f.free[p] \in Seq(Entries) /\ p \in BigOf(f)
    <2> HIDE DEF T, U, p
    <2> QED BY <1>2, <1>4, TakenLie DEF o, p
  <1>6. d \in Entries /\ d.address = x /\ d.at = y
    BY <1>2, <1>5 DEF Descriptor, Entries
  <1> HIDE DEF d
  <1>7. Consistent(g, U \ {o})
    <2> HIDE DEF U, o, T
    <2>1. Consistent(Relisted(f, get_slab(o[2]), <<d>> \o f.free[get_slab(o[2])]), U \ {o})
      BY <1>2, <1>4, <1>6, Giving
    <2> QED BY <2>1, <1>4
  <1>8. s \in Seq(Entries)
    <2> HIDE DEF p
    <2> QED BY <1>5, <1>6
  <1>9. RelistedBy(f, p, s, g)
    <2> HIDE DEF s, p
    <2> QED BY <1>2, <1>5, <1>8, Replacing
  <1>10. Described(f) = Described(h) /\ Once(f)
    BY <1>1, <1>2, KeptOnce
  <1>11. y \notin Described(f)
    BY <1>2, <1>10 DEF TakenIn
  <1> HIDE DEF g, p
  <1>12. BigOf(g) = BigOf(f) /\ \A q \in BigOf(f) : q # p => g.free[q] = f.free[q]
    <2>1. DOMAIN g.free = 1 .. Len(f.free) /\ DOMAIN f.free = 1 .. Len(f.free)
      BY <1>2, <1>9, HeapsAre DEF RelistedBy
    <2> QED BY <2>1, <1>9 DEF BigOf, RelistedBy
  <1>13. OnceAt(g.free[p]) /\ Ats(g.free[p]) = Ats(f.free[p]) \cup {y}
    <2>1. OnceAt(f.free[p]) /\ y \notin Ats(f.free[p])
      BY <1>5, <1>10, <1>11 DEF Once, Described
    <2>2. Ats(s) = Ats(f.free[p]) \cup {y} /\ OnceAt(s)
      BY <2>1, <1>5, <1>6, PrependedAts
    <2>3. g.free[p] = s
      BY <1>9 DEF RelistedBy
    <2> QED BY <2>2, <2>3
  <1>14. Once(g) /\ Described(g) = Described(f) \cup {y}
    <2>1. g \in Heaps
      BY <1>9 DEF RelistedBy
    <2> QED BY <2>1, <1>2, <1>5, <1>10, <1>11, <1>12, <1>13, Describing
  <1>15. TakenIn(g, L \ {o}) = U \ {o}
    <2>1. {D} \X (Described(h) \cup {y}) = ({D} \X Described(h)) \cup {<<D, y>>}
      OBVIOUS
    <2>2. o \notin {D} \X (Described(h) \cup {y})
      BY <1>4
    <2> QED BY <2>1, <2>2, <1>10, <1>14 DEF TakenIn
  <1>16. Whole(g, L \ {o})
    BY <1>1, <1>7, <1>14, <1>15 DEF Whole
  <1>17. g \in Heaps /\ \A c \in Allocator : SlabsOf(h, c) \subseteq SlabsOf(g, c)
    BY <1>2, <1>9 DEF RelistedBy, Kept
  <1> QED BY <1>3, <1>16, <1>17

\* Taking an object of a big slab gives its descriptor back.
LEMMA BigTakeIs ==
  ASSUME NEW h, NEW L, Whole(h, L), NEW a \in Allocator, IsBig(a), NEW p \in SlabsOf(h, a),
         h.free[p] # <<>>
  PROVE  LET d == Head(h.free[p])
             g == small_slab_free(Relisted(h, p, Tail(h.free[p])), d.at)
         IN /\ d.address \in Nat /\ d.address > 0 /\ <<a, d.address>> \notin TakenIn(h, L)
            /\ Whole(g, L \cup {<<a, d.address>>})
  <1> DEFINE T == TakenIn(h, L)
             D == Descriptors
             d == Head(h.free[p])
             x == d.address
             f == Relisted(h, p, Tail(h.free[p]))
             g == small_slab_free(f, d.at)
             U == T \cup {<<a, x>>}
             o == <<D, d.at>>
  <1>1. Consistent(h, T) /\ Once(h) /\ \A t \in L : t[1] # D
    BY DEF Whole
  <1>2. h \in Heaps /\ p \in 1 .. Len(h.free) /\ h.small[p] = ~IsBig(a)
    BY <1>1, ConsistentIs
  <1>3. h.free[p] \in Seq(Entries) /\ p \in BigOf(h) /\ Tail(h.free[p]) \in Seq(Entries)
    BY <1>2, HeapsAre DEF BigOf
  <1>4. <<a, x>> \notin T /\ x \in Nat /\ x > 0 /\ Consistent(f, U)
    <2> HIDE DEF T
    <2> QED BY <1>1, Taking
  <1>5. RelistedBy(h, p, Tail(h.free[p]), f)
    BY <1>2, <1>3, Replacing
  <1>6. OnceAt(h.free[p]) /\ d.at \in Ats(h.free[p])
        /\ Ats(Tail(h.free[p])) = Ats(h.free[p]) \ {d.at} /\ OnceAt(Tail(h.free[p]))
    <2>1. OnceAt(h.free[p])
      BY <1>1, <1>3 DEF Once
    <2> QED BY <2>1, <1>3, BeheadedAts
  <1> HIDE DEF f, d
  <1>7. f \in Heaps /\ BigOf(f) = BigOf(h) /\ \A q \in BigOf(h) : q # p => f.free[q] = h.free[q]
    <2>1. f \in Heaps
      BY <1>5 DEF RelistedBy
    <2>2. DOMAIN f.free = 1 .. Len(h.free) /\ DOMAIN h.free = 1 .. Len(h.free)
      BY <2>1, <1>2, <1>5, HeapsAre DEF RelistedBy
    <2> QED BY <2>1, <2>2, <1>5 DEF BigOf, RelistedBy
  <1>8. Once(f) /\ Described(f) = Described(h) \ {d.at}
    <2>1. f.free[p] = Tail(h.free[p])
      BY <1>5 DEF RelistedBy
    <2>2. OnceAt(f.free[p]) /\ Ats(f.free[p]) = Ats(h.free[p]) \ {d.at}
      BY <2>1, <1>6
    <2>3. h \in Heaps /\ p \in BigOf(h) /\ d.at \in Ats(h.free[p]) /\ Once(h)
      BY <1>1, <1>2, <1>3, <1>6
    <2> QED BY <2>2, <2>3, <1>7, Undescribing
  <1>9. o \in T /\ o \in U /\ a # D /\ ~IsBig(D)
    <2>1. d.at \in Described(h)
      BY <1>3, <1>6 DEF Described
    <2>2. a # D /\ ~IsBig(D)
      BY OwnSizes
    <2> QED BY <2>1, <2>2 DEF TakenIn
  <1>10. Consistent(g, U \ {o}) /\ Kept(f, g)
    <2> HIDE DEF U
    <2> QED BY <1>4, <1>9, SmallFreeIs
  <1> HIDE DEF g
  <1>11. Described(g) = Described(h) \ {d.at} /\ Once(g)
    BY <1>8, <1>10, KeptOnce
  <1>12. TakenIn(g, L \cup {<<a, x>>}) = U \ {o}
    <2>1. {D} \X (Described(h) \ {d.at}) = ({D} \X Described(h)) \ {o}
      OBVIOUS
    <2>2. o \notin L /\ o # <<a, x>>
      <3>1. o[1] = D
        OBVIOUS
      <3> QED BY <3>1, <1>1, <1>9
    <2> QED BY <2>1, <2>2, <1>11 DEF TakenIn
  <1>13. \A t \in L \cup {<<a, x>>} : t[1] # D
    BY <1>1, <1>9
  <1>14. Whole(g, L \cup {<<a, x>>})
    BY <1>10, <1>11, <1>12, <1>13 DEF Whole
  <1> QED BY <1>4, <1>14 DEF d, f, g

-----------------------------------------------------------------------------
(* A new big slab: every block is taken first, and freed one by one *)

\* The blocks of page n that create_big_slab has not come to after k of them.
Ahead(n, a, k) == {<<a, BlocksOf(n, a)[i]>> : i \in k + 1 .. Len(BlocksOf(n, a))}

BigBlocksAre(n, a, b) ==
  /\ b = Blocks(n, size[a], alignment[a])
  /\ Len(b) \in Nat /\ DOMAIN b = 1 .. Len(b) /\ b \in Seq(Nat)
  /\ Objects(n, a) = {b[i] : i \in DOMAIN b}
  /\ Ahead(n, a, 0) = {a} \X Objects(n, a) /\ Ahead(n, a, Len(b)) = {}
  /\ \A k \in 1 .. Len(b) : /\ <<a, b[k]>> \in Ahead(n, a, k - 1)
                            /\ Ahead(n, a, k) = Ahead(n, a, k - 1) \ {<<a, b[k]>>}

LEMMA BigBlocks ==
  ASSUME NEW n \in Nat, NEW a \in Allocator, IsBig(a)
  PROVE  BigBlocksAre(n, a, BlocksOf(n, a))
  <1>1. Node(a) = 0 /\ size[a] \in Nat
    BY SizesOf
  <1>2. PICK b : b = BlocksOf(n, a)
    OBVIOUS
  <1>3. PICK m \in Nat : m = Len(b) /\ DOMAIN b = 1 .. m
    BY <1>2, BlocksList
  <1>4. b \in Seq(Nat) /\ (\A i, j \in 1 .. m : b[i] = b[j] => i = j) /\ \A i \in 1 .. m : b[i] \in Nat
    <2>1. b \in Seq(Nat) /\ \A i, j \in DOMAIN b : b[i] = b[j] => i = j
      BY <1>2, BlocksList
    <2>2. \A i \in DOMAIN b : b[i] \in Nat
      BY <2>1
    <2> QED BY <2>1, <2>2, <1>3
  <1>5. b = Blocks(n, size[a], alignment[a])
    <2>1. 0 + size[a] = size[a]
      BY <1>1
    <2> QED BY <2>1, <1>1, <1>2 DEF BlocksOf
  <1>6. Objects(n, a) = {b[i] : i \in 1 .. m}
    <2>1. Objects(n, a) = {b[i] + 0 : i \in 1 .. m}
      BY <1>1, <1>2, <1>3 DEF Objects
    <2>2. \A i \in 1 .. m : b[i] + 0 = b[i]
      BY <1>4
    <2> QED BY <2>1, <2>2
  <1>7. \A k : Ahead(n, a, k) = {<<a, b[i]>> : i \in k + 1 .. m}
    BY <1>2, <1>3 DEF Ahead
  <1>8. Ahead(n, a, 0) = {a} \X Objects(n, a)
    <2>1. 0 + 1 = 1
      OBVIOUS
    <2> QED BY <2>1, <1>6, <1>7
  <1>9. Ahead(n, a, m) = {}
    BY <1>7
  <1>10. ASSUME NEW k \in 1 .. m
         PROVE  /\ <<a, b[k]>> \in Ahead(n, a, k - 1)
                /\ Ahead(n, a, k) = Ahead(n, a, k - 1) \ {<<a, b[k]>>}
    <2>1. k \in (k - 1) + 1 .. m /\ \A i : i \in k + 1 .. m <=> i \in (k - 1) + 1 .. m /\ i # k
      OBVIOUS
    <2>2. \A i \in k + 1 .. m : i \in 1 .. m /\ i # k
      OBVIOUS
    <2>3. \A i \in k + 1 .. m : b[i] # b[k]
      BY <2>2, <1>4
    <2> QED BY <2>1, <2>3, <1>7
  <1>11. BigBlocksAre(n, a, b)
    BY <1>3, <1>4, <1>5, <1>6, <1>8, <1>9, <1>10 DEF BigBlocksAre
  <1> QED BY <1>2, <1>11

\* A heap with the first k blocks of its page n freed.
Half(h, L, n, a, k) ==
  h \in Heaps /\ n \in SlabsOf(h, a) /\ Whole(h, L \cup Ahead(n, a, k))

LEMMA HalfStep ==
  ASSUME NEW h, NEW L, NEW n \in Nat, NEW a \in Allocator, IsBig(a),
         NEW k \in 1 .. Len(BlocksOf(n, a)), Half(h, L, n, a, k - 1),
         <<a, BlocksOf(n, a)[k]>> \notin L
  PROVE  Half(big_slab_free(h, BlocksOf(n, a)[k]), L, n, a, k)
  <1> DEFINE x == BlocksOf(n, a)[k]
  <1>1. <<a, x>> \in Ahead(n, a, k - 1) /\ Ahead(n, a, k) = Ahead(n, a, k - 1) \ {<<a, x>>}
    <2>1. BigBlocksAre(n, a, BlocksOf(n, a))
      BY BigBlocks
    <2> QED BY <2>1 DEF BigBlocksAre
  <1> HIDE DEF x
  <1>2. Whole(h, L \cup Ahead(n, a, k - 1)) /\ n \in SlabsOf(h, a)
    BY DEF Half
  <1>3. /\ Whole(big_slab_free(h, x), (L \cup Ahead(n, a, k - 1)) \ {<<a, x>>})
        /\ big_slab_free(h, x) \in Heaps
        /\ \A c \in Allocator : SlabsOf(h, c) \subseteq SlabsOf(big_slab_free(h, x), c)
    <2>1. <<a, x>> \in L \cup Ahead(n, a, k - 1)
      BY <1>1
    <2> QED BY <2>1, <1>2, BigFreeIs
  <1>4. (L \cup Ahead(n, a, k - 1)) \ {<<a, x>>} = L \cup Ahead(n, a, k)
    BY <1>1 DEF x
  <1> QED BY <1>2, <1>3, <1>4 DEF Half, x

\* The heap with the new page, before any of its blocks is free.
LEMMA HalfFirst ==
  ASSUME NEW h, NEW L, Whole(h, L), NEW a \in Allocator, IsBig(a)
  PROVE  /\ Half(Extended(h, a, FALSE, <<>>), L, NewPage(h), a, 0)
         /\ NewPage(h) \in Nat
         /\ \A x \in Objects(NewPage(h), a) : <<a, x>> \notin TakenIn(h, L)
  <1> DEFINE n == NewPage(h)
             g == Extended(h, a, FALSE, <<>>)
             T == TakenIn(h, L)
             X == Objects(n, a)
  <1>1. Consistent(h, T) /\ Once(h) /\ \A t \in L : t[1] # Descriptors
    BY DEF Whole
  <1>2. h \in Heaps
    BY <1>1, ConsistentIs
  <1>3. n = Len(h.free) + 1 /\ n \in Nat /\ Len(h.free) \in Nat
    BY <1>2, HeapsAre DEF NewPage
  <1>4. Consistent(g, T \cup {a} \X X)
    <2> DEFINE s == <<>>
    <2>1. s \in Seq(Entries) /\ FALSE \in BOOLEAN /\ FALSE = ~IsBig(a)
      OBVIOUS
    <2>2. X \in SUBSET Objects(NewPage(h), a) /\ Describes(s, Objects(NewPage(h), a) \ X, a)
      BY DEF Describes
    <2> HIDE DEF X, s, T
    <2>3. Consistent(Extended(h, a, FALSE, s), T \cup {a} \X X)
      BY <1>1, <2>1, <2>2, Adding
    <2> QED BY <2>3 DEF s
  <1>5. ExtendedBy(h, a, FALSE, <<>>, g)
    <2>1. <<>> \in Seq(Entries) /\ FALSE \in BOOLEAN
      OBVIOUS
    <2> QED BY <2>1, <1>2, Extending
  <1> HIDE DEF g, X
  <1>6. /\ g \in Heaps /\ Len(g.free) = n /\ n \in SlabsOf(g, a)
        /\ g.free[n] = <<>> /\ g.small[n] = FALSE
        /\ \A q \in 1 .. Len(h.free) : g.free[q] = h.free[q] /\ g.small[q] = h.small[q]
    BY <1>3, <1>5 DEF ExtendedBy
  <1>7. DOMAIN g.free = 1 .. n /\ DOMAIN h.free = 1 .. Len(h.free)
    BY <1>2, <1>6, HeapsAre
  <1> HIDE DEF n
  <1>8. \A p : p \in 1 .. n <=> p = n \/ p \in 1 .. Len(h.free)
    BY <1>3
  <1>9. BigOf(g) = BigOf(h) \cup {n} /\ \A p \in BigOf(h) : p \in 1 .. Len(h.free)
    BY <1>6, <1>7, <1>8 DEF BigOf
  <1>10. Ats(g.free[n]) = {} /\ OnceAt(g.free[n])
    BY <1>6 DEF Ats, OnceAt
  <1>11. \A p \in BigOf(h) : g.free[p] = h.free[p]
    BY <1>6, <1>9
  <1>12. Described(g) = Described(h)
    BY <1>9, <1>10, <1>11 DEF Described
  <1>13. Once(g)
    <2>1. \A p \in BigOf(g) : OnceAt(g.free[p])
      BY <1>1, <1>9, <1>10, <1>11 DEF Once
    <2>2. ASSUME NEW p \in BigOf(g), NEW q \in BigOf(g), p # q
          PROVE  Ats(g.free[p]) \cap Ats(g.free[q]) = {}
      <3>1. CASE p = n \/ q = n
        BY <3>1, <1>10
      <3>2. CASE p # n /\ q # n
        BY <3>2, <2>2, <1>1, <1>9, <1>11 DEF Once
      <3> QED BY <3>1, <3>2
    <2> QED BY <2>1, <2>2 DEF Once
  <1>14. Ahead(n, a, 0) = {a} \X X
    <2>1. BigBlocksAre(n, a, BlocksOf(n, a))
      BY <1>3, BigBlocks
    <2> QED BY <2>1 DEF BigBlocksAre, X
  <1>15. Whole(g, L \cup Ahead(n, a, 0))
    <2>1. TakenIn(g, L \cup {a} \X X) = T \cup {a} \X X
      BY <1>12 DEF TakenIn
    <2>2. \A t \in {a} \X X : t[1] # Descriptors
      BY OwnSizes
    <2> QED BY <2>1, <2>2, <1>1, <1>4, <1>13, <1>14 DEF Whole
  <1>16. ASSUME NEW x \in X, <<a, x>> \in T PROVE FALSE
    <2>1. get_slab(x) = n
      BY <1>3, ObjectsLie DEF X
    <2>2. get_slab(x) \in 1 .. Len(h.free)
      <3> HIDE DEF T
      <3> QED BY <1>1, <1>16, TakenLie
    <2> QED BY <2>1, <2>2, <1>3
  <1> QED BY <1>3, <1>6, <1>15, <1>16 DEF Half, g, X, n

LEMMA CreateBigHalf ==
  ASSUME NEW h, NEW L, Whole(h, L), NEW a \in Allocator, IsBig(a)
  PROVE  Half(CreateBig(h, a), L, NewPage(h), a, Len(BlocksOf(NewPage(h), a)))
  <1> DEFINE n == NewPage(h)
             e == Extended(h, a, FALSE, <<>>)
  <1>1. Half(e, L, n, a, 0) /\ n \in Nat /\ \A x \in Objects(n, a) : <<a, x>> \notin TakenIn(h, L)
    BY HalfFirst
  <1> HIDE DEF e, n
  <1>2. PICK b : b = BlocksOf(n, a)
    OBVIOUS
  <1>3. BigBlocksAre(n, a, b)
    BY <1>1, <1>2, BigBlocks
  <1>4. PICK N \in Nat : N = Len(b)
    BY <1>3 DEF BigBlocksAre
  <1>5. ASSUME NEW k \in 1 .. N, NEW g, Half(g, L, n, a, k - 1)
        PROVE  Half(big_slab_free(g, b[k]), L, n, a, k)
    <2>1. <<a, b[k]>> \notin L
      <3>1. b[k] \in Objects(n, a)
        BY <1>3, <1>4 DEF BigBlocksAre
      <3> QED BY <3>1, <1>1 DEF TakenIn
    <2> QED BY <2>1, <1>1, <1>2, <1>4, <1>5, HalfStep
  <1> DEFINE Frees(f) == f = [k \in 0 .. N |-> IF k = 0 THEN e ELSE big_slab_free(f[k - 1], b[k])]
  <1>6. \E f : Frees(f)
    <2> DEFINE F == [z \in (1 .. N) \X Heaps |->
                       IF Half(z[2], L, n, a, z[1] - 1) THEN big_slab_free(z[2], b[z[1]]) ELSE z[2]]
    <2>1. F \in [(1 .. N) \X Heaps -> Heaps]
      <3> SUFFICES ASSUME NEW z \in (1 .. N) \X Heaps, Half(z[2], L, n, a, z[1] - 1)
                   PROVE  big_slab_free(z[2], b[z[1]]) \in Heaps
        OBVIOUS
      <3>1. z[1] \in 1 .. N
        OBVIOUS
      <3> QED BY <3>1, <1>5 DEF Half
    <2>2. \A k \in 1 .. N, g \in Heaps :
            F[<<k, g>>] = IF Half(g, L, n, a, k - 1) THEN big_slab_free(g, b[k]) ELSE g
      OBVIOUS
    <2> HIDE DEF F
    <2>3. e \in Heaps
      BY <1>1 DEF Half
    <2>4. PICK w \in [0 .. N -> Heaps] : w[0] = e /\ \A k \in 1 .. N : w[k] = F[<<k, w[k - 1]>>]
      <3>1. Recursive(Heaps)
        BY Recursion
      <3> QED BY <3>1, <2>1, <2>3, ZenonT(30) DEF Recursive
    <2> DEFINE S == {k \in Nat : k <= N => Half(w[k], L, n, a, k)}
    <2>5. 0 \in S
      BY <1>1, <2>4
    <2>6. ASSUME NEW k \in S PROVE k + 1 \in S
      <3> SUFFICES ASSUME k + 1 <= N PROVE Half(w[k + 1], L, n, a, k + 1)
        OBVIOUS
      <3>1. k \in Nat /\ k <= N /\ (k + 1) - 1 = k /\ k + 1 \in 1 .. N /\ k \in 0 .. N
        OBVIOUS
      <3>2. Half(w[k], L, n, a, k) /\ w[k] \in Heaps
        BY <3>1
      <3>3. w[k + 1] = big_slab_free(w[k], b[k + 1])
        BY <3>1, <3>2, <2>2, <2>4, ZenonT(30)
      <3> QED BY <3>1, <3>2, <3>3, <1>5
    <2>7. S = Nat
      <3> HIDE DEF S
      <3>1. S \in SUBSET Nat
        BY DEF S
      <3> QED BY <3>1, <2>5, <2>6, SetInduction
    <2>8. \A k \in 1 .. N : w[k] = big_slab_free(w[k - 1], b[k])
      <3> SUFFICES ASSUME NEW k \in 1 .. N PROVE w[k] = big_slab_free(w[k - 1], b[k])
        OBVIOUS
      <3>1. k - 1 \in Nat /\ k - 1 <= N /\ k - 1 \in 0 .. N
        OBVIOUS
      <3>2. Half(w[k - 1], L, n, a, k - 1) /\ w[k - 1] \in Heaps
        BY <3>1, <2>7
      <3> QED BY <3>2, <2>2, <2>4
    <2>9. Frees(w)
      <3>1. \A k \in 0 .. N : w[k] = IF k = 0 THEN e ELSE big_slab_free(w[k - 1], b[k])
        <4> SUFFICES ASSUME NEW k \in 0 .. N
                     PROVE  w[k] = IF k = 0 THEN e ELSE big_slab_free(w[k - 1], b[k])
          OBVIOUS
        <4>1. k = 0 \/ k \in 1 .. N
          OBVIOUS
        <4> QED BY <4>1, <2>4, <2>8
      <3> QED BY <3>1, <2>4
    <2> QED BY <2>9
  <1> DEFINE f == CHOOSE f : Frees(f)
  <1>7. Frees(f)
    BY <1>6
  <1>8. CreateBig(h, a) = f[N]
    <2>1. b = Blocks(n, size[a], alignment[a])
      BY <1>3 DEF BigBlocksAre
    <2> QED BY <2>1, <1>4 DEF CreateBig, Extended, e, n
  <1> HIDE DEF f
  <1>9. f[0] = e /\ \A k \in 1 .. N : f[k] = big_slab_free(f[k - 1], b[k])
    <2>1. \A k \in 0 .. N : f[k] = IF k = 0 THEN e ELSE big_slab_free(f[k - 1], b[k])
      BY <1>7
    <2>2. 0 \in 0 .. N /\ \A k \in 1 .. N : k \in 0 .. N /\ k # 0
      OBVIOUS
    <2> QED BY <2>1, <2>2
  <1> DEFINE S == {k \in Nat : k <= N => Half(f[k], L, n, a, k)}
  <1>10. 0 \in S
    BY <1>1, <1>9
  <1>11. ASSUME NEW k \in S PROVE k + 1 \in S
    <2> SUFFICES ASSUME k + 1 <= N PROVE Half(f[k + 1], L, n, a, k + 1)
      OBVIOUS
    <2>1. k \in Nat /\ k <= N /\ (k + 1) - 1 = k /\ k + 1 \in 1 .. N
      OBVIOUS
    <2>2. Half(f[k], L, n, a, k) /\ f[k + 1] = big_slab_free(f[k], b[k + 1])
      BY <2>1, <1>9
    <2> QED BY <2>1, <2>2, <1>5
  <1>12. S = Nat
    <2> HIDE DEF S
    <2>1. S \in SUBSET Nat
      BY DEF S
    <2> QED BY <2>1, <1>10, <1>11, SetInduction
  <1>13. Half(f[N], L, n, a, N)
    BY <1>12
  <1> QED BY <1>13, <1>8, <1>4, <1>2 DEF n

LEMMA CreateBigIs ==
  ASSUME NEW h, NEW L, Whole(h, L), NEW a \in Allocator, IsBig(a)
  PROVE  /\ Whole(CreateBig(h, a), L) /\ CreateBig(h, a) \in Heaps
         /\ NewPage(h) \in SlabsOf(CreateBig(h, a), a)
         /\ size[a] <= PageSize - SlabSize => CreateBig(h, a).free[NewPage(h)] # <<>>
  <1> DEFINE n == NewPage(h)
             g == CreateBig(h, a)
  <1>1. Half(g, L, n, a, Len(BlocksOf(n, a)))
    BY CreateBigHalf
  <1>2. n \in Nat /\ \A x \in Objects(n, a) : <<a, x>> \notin TakenIn(h, L)
    BY HalfFirst
  <1> HIDE DEF g, n
  <1>3. g \in Heaps /\ n \in SlabsOf(g, a) /\ Whole(g, L)
    <2>1. Ahead(n, a, Len(BlocksOf(n, a))) = {}
      BY <1>2, BigBlocks DEF BigBlocksAre
    <2> QED BY <2>1, <1>1 DEF Half
  <1>4. ASSUME size[a] <= PageSize - SlabSize PROVE g.free[n] # <<>>
    <2>1. Node(a) + size[a] = size[a]
      BY SizesOf
    <2>2. Objects(n, a) # {}
      BY <2>1, <1>2, <1>4, BlocksList
    <2>3. Describes(g.free[n], Left(TakenIn(g, L), n, a), a)
      BY <1>3, ConsistentIs DEF Whole
    <2>4. \A x \in Objects(n, a) : <<a, x>> \notin TakenIn(g, L)
      <3>1. a # Descriptors
        BY OwnSizes
      <3> QED BY <3>1, <1>2 DEF TakenIn
    <2>5. Left(TakenIn(g, L), n, a) = Objects(n, a)
      BY <2>4 DEF Left
    <2>6. {g.free[n][i].address : i \in DOMAIN g.free[n]} # {}
      BY <2>2, <2>3, <2>5 DEF Describes
    <2> QED BY <2>6
  <1> QED BY <1>3, <1>4 DEF g, n

\* slab_allocator_allocate_no_lock of big slabs
LEMMA BigAllocateIs ==
  ASSUME NEW h, NEW L, Whole(h, L), NEW a \in Allocator, IsBig(a)
  PROVE  LET r == BigAllocate(h, a)
         IN /\ r.address \in Nat
            /\ r.address = 0 => Whole(r.heap, L) /\ ~ (size[a] <= PageSize - SlabSize)
            /\ r.address # 0 => <<a, r.address>> \notin L /\ Whole(r.heap, L \cup {<<a, r.address>>})
  <1> DEFINE g == IF Usable(h, a) = 0 THEN CreateBig(h, a) ELSE h
             p == Usable(g, a)
  <1>1. Whole(g, L) /\ g \in Heaps
    <2>1. h \in Heaps
      BY ConsistentIs DEF Whole
    <2> QED BY <2>1, CreateBigIs
  <1>2. ASSUME p = 0 PROVE ~ (size[a] <= PageSize - SlabSize)
    <2>1. \A q \in SlabsOf(g, a) : g.free[q] = <<>>
      <3> HIDE DEF g
      <3> QED BY <1>1, <1>2, UsableIs
    <2>2. CASE Usable(h, a) = 0
      <3>1. g = CreateBig(h, a)
        BY <2>2
      <3> HIDE DEF g
      <3> QED BY <3>1, <2>1, CreateBigIs
    <2>3. CASE Usable(h, a) # 0
      BY <2>3, <1>2
    <2> QED BY <2>2, <2>3
  <1> DEFINE d == Head(g.free[p])
             f == small_slab_free(Relisted(g, p, Tail(g.free[p])), d.at)
  <1>3. BigAllocate(h, a) = IF p = 0 THEN Result(g, 0) ELSE Result(f, d.address)
    BY DEF BigAllocate, big_slab_allocate, Relisted
  <1> HIDE DEF g
  <1>4. CASE p = 0
    <2>1. BigAllocate(h, a) = Result(g, 0)
      BY <1>3, <1>4
    <2>2. Result(g, 0).heap = g /\ Result(g, 0).address = 0
      BY DEF Result
    <2> QED BY <1>1, <1>2, <1>4, <2>1, <2>2
  <1>5. CASE p # 0
    <2>1. p \in SlabsOf(g, a) /\ g.free[p] # <<>>
      BY <1>1, <1>5, UsableIs
    <2>2. /\ d.address \in Nat /\ d.address > 0 /\ <<a, d.address>> \notin TakenIn(g, L)
          /\ Whole(f, L \cup {<<a, d.address>>})
      <3> HIDE DEF p
      <3> QED BY <1>1, <2>1, BigTakeIs
    <2>3. BigAllocate(h, a) = Result(f, d.address)
      BY <1>3, <1>5
    <2> HIDE DEF f, d
    <2>4. Result(f, d.address).heap = f /\ Result(f, d.address).address = d.address
      BY DEF Result
    <2> QED BY <2>2, <2>3, <2>4 DEF TakenIn
  <1> QED BY <1>4, <1>5

-----------------------------------------------------------------------------
(* The invariant *)

TooLarge ==
  {a \in Allocator : (IF IsBig(a) THEN size[a] ELSE NodeSize + size[a]) > PageSize - SlabSize}

LEMMA OwnStructs ==
  Structs # Descriptors /\ Structs \in Allocator /\ Structs \notin TooLarge
  <1>1. size[Structs] \in Nat /\ NodeSize \in Nat /\ PageSize \in Nat /\ SlabSize \in Nat
    BY OwnSizes, SizesOf, PageSizes
  <1>2. Structs # Descriptors
    BY SlabAssumption
  <1> QED BY <1>1, <1>2, OwnSizes DEF TooLarge

LEMMA AllocatedIs ==
  ASSUME SlabInv, NEW a \in Allocator, a # Descriptors
  PROVE  /\ Allocated(a).address \in Nat
         /\ Allocated(a).address = 0 => Whole(Allocated(a).heap, live) /\ a \in TooLarge
         /\ Allocated(a).address # 0 =>
              /\ <<a, Allocated(a).address>> \notin live
              /\ Whole(Allocated(a).heap, live \cup {<<a, Allocated(a).address>>})
  <1>1. Whole(heap, live)
    BY DEF SlabInv
  <1>2. size[a] \in Nat /\ NodeSize \in Nat /\ PageSize \in Nat /\ SlabSize \in Nat
    BY SizesOf, PageSizes
  <1>3. CASE IsBig(a)
    <2>1. Allocated(a) = BigAllocate(heap, a)
      BY <1>3 DEF Allocated
    <2>2. ~ (size[a] <= PageSize - SlabSize) => a \in TooLarge
      BY <1>2, <1>3 DEF TooLarge
    <2> QED BY <1>1, <1>3, <2>1, <2>2, BigAllocateIs
  <1>4. CASE ~IsBig(a)
    <2> DEFINE r == SmallAllocate(heap, a)
               T == TakenIn(heap, live)
               x == <<a, r.address>>
    <2>1. Allocated(a) = r
      BY <1>4 DEF Allocated
    <2>2. ~ (NodeSize + size[a] <= PageSize - SlabSize) => a \in TooLarge
      BY <1>2, <1>4 DEF TooLarge
    <2>3. Consistent(heap, T) /\ Once(heap) /\ \A o \in live : o[1] # Descriptors
      BY <1>1 DEF Whole
    <2>4. /\ r.address \in Nat /\ Kept(heap, r.heap)
          /\ r.address = 0 => /\ Consistent(r.heap, T)
                              /\ ~ (NodeSize + size[a] <= PageSize - SlabSize)
          /\ r.address # 0 => x \notin T /\ Consistent(r.heap, T \cup {x})
      BY <2>3, <1>4, SmallAllocateIs
    <2> HIDE DEF r
    <2>5. Once(r.heap) /\ Described(r.heap) = Described(heap)
      BY <2>3, <2>4, KeptOnce
    <2>6. TakenIn(r.heap, live) = T /\ TakenIn(r.heap, live \cup {x}) = T \cup {x}
      BY <2>5 DEF TakenIn
    <2>7. x[1] # Descriptors
      OBVIOUS
    <2>8. r.address = 0 => Whole(r.heap, live) /\ a \in TooLarge
      BY <2>2, <2>3, <2>4, <2>5, <2>6 DEF Whole
    <2>9. r.address # 0 => x \notin live /\ Whole(r.heap, live \cup {x})
      <3>1. live \subseteq T
        BY DEF TakenIn
      <3>2. \A o \in live \cup {x} : o[1] # Descriptors
        BY <2>3, <2>7
      <3> HIDE DEF T, x
      <3> QED BY <3>1, <3>2, <2>4, <2>5, <2>6 DEF Whole
    <2> QED BY <2>1, <2>4, <2>8, <2>9
  <1> QED BY <1>3, <1>4

LEMMA FreedIs ==
  ASSUME SlabInv, NEW o \in live
  PROVE  Whole(Freed(o[2]), live \ {o})
  <1> DEFINE T == TakenIn(heap, live)
  <1>1. Whole(heap, live) /\ Consistent(heap, T) /\ Once(heap) /\ \A u \in live : u[1] # Descriptors
    BY DEF SlabInv, Whole
  <1>2. PICK a \in Allocator, x \in Nat : o = <<a, x>>
    <2>1. o \in T
      BY DEF TakenIn
    <2>2. T \subseteq Allocator \X Nat
      BY <1>1, ConsistentIs
    <2> HIDE DEF T
    <2> QED BY <2>1, <2>2
  <1>3. o[1] = a /\ o[2] = x /\ <<a, x>> \in live /\ <<a, x>> \in T
    BY <1>2 DEF TakenIn
  <1>4. heap.small[get_slab(x)] = ~IsBig(a)
    <2> HIDE DEF T
    <2> QED BY <1>1, <1>3, TakenLie
  <1>5. CASE IsBig(a)
    <2>1. Freed(x) = big_slab_free(heap, x)
      BY <1>4, <1>5 DEF Freed
    <2> QED BY <2>1, <1>1, <1>2, <1>3, <1>5, BigFreeIs
  <1>6. CASE ~IsBig(a)
    <2> DEFINE g == small_slab_free(heap, x)
    <2>1. Freed(x) = g
      BY <1>4, <1>6 DEF Freed
    <2>2. Consistent(g, T \ {o}) /\ Kept(heap, g)
      <3> HIDE DEF T
      <3> QED BY <1>1, <1>2, <1>3, <1>6, SmallFreeIs
    <2> HIDE DEF g
    <2>3. Once(g) /\ Described(g) = Described(heap)
      BY <1>1, <2>2, KeptOnce
    <2>4. TakenIn(g, live \ {o}) = T \ {o}
      <3>1. o \notin {Descriptors} \X Described(heap)
        BY <1>1, <1>2, <1>3
      <3> QED BY <3>1, <2>3 DEF TakenIn
    <2>5. Whole(g, live \ {o})
      BY <1>1, <2>2, <2>3, <2>4 DEF Whole
    <2> QED BY <2>1, <2>5, <1>3
  <1> QED BY <1>5, <1>6

LEMMA SlabInitial ==
  ASSUME init_slab_allocator
  PROVE  SlabInv
  <1> DEFINE h == [free |-> <<>>, small |-> <<>>, slabs |-> [a \in Allocator |-> <<>>]]
  <1>1. heap = h /\ created = {Descriptors, Structs} /\ live = {}
    BY DEF init_slab_allocator
  <1>2. h.free = <<>> /\ h.small = <<>> /\ \A a \in Allocator : h.slabs[a] = <<>>
    OBVIOUS
  <1>3. \A a \in Allocator : SlabsOf(h, a) = {}
    BY <1>2 DEF SlabsOf
  <1>4. h \in Heaps
    <2>1. h \in [free : Seq(Seq(Entries)), small : Seq(BOOLEAN), slabs : [Allocator -> Seq(Nat)]]
      OBVIOUS
    <2>2. Len(h.small) = Len(h.free)
      OBVIOUS
    <2> HIDE DEF h
    <2> QED BY <1>3, <2>1, <2>2 DEF Heaps
  <1>5. Len(h.free) = 0 /\ DOMAIN h.free = {}
    BY <1>2
  <1> HIDE DEF h
  <1>6. BigOf(h) = {} /\ Described(h) = {}
    BY <1>5 DEF BigOf, Described
  <1>7. TakenIn(h, {}) = {}
    BY <1>6 DEF TakenIn
  <1>8. Consistent(h, {})
    BY <1>3, <1>4, <1>5 DEF Consistent
  <1>9. Whole(h, {})
    BY <1>6, <1>7, <1>8 DEF Whole, Once
  <1> QED BY <1>1, <1>9, SlabAssumption DEF SlabInv

LEMMA SlabStep ==
  ASSUME SlabInv, [SlabNext]_slab
  PROVE  SlabInv'
  <1>0. {Descriptors, Structs} \subseteq created /\ created \subseteq Allocator /\ Whole(heap, live)
    BY DEF SlabInv
  <1>1. ASSUME NEW a \in Allocator, slab_allocator_allocate(a) PROVE SlabInv'
    <2>1. /\ a # Descriptors /\ created' = created
          /\ heap' = Allocated(a).heap
          /\ live' = IF Allocated(a).address = 0 THEN live
                     ELSE live \cup {<<a, Allocated(a).address>>}
      BY <1>1 DEF slab_allocator_allocate
    <2>2. Whole(heap', live')
      BY <2>1, AllocatedIs
    <2> QED BY <1>0, <2>1, <2>2 DEF SlabInv
  <1>2. ASSUME NEW a \in Allocator, create_slab_allocator(a) PROVE SlabInv'
    <2>1. /\ created' = created \cup {a}
          /\ heap' = Allocated(Structs).heap
          /\ live' = live \cup {<<Structs, Allocated(Structs).address>>}
      BY <1>2 DEF create_slab_allocator
    <2>2. Structs # Descriptors /\ Structs \in Allocator /\ Structs \notin TooLarge
      BY OwnStructs
    <2>3. Whole(heap', live')
      BY <2>1, <2>2, AllocatedIs
    <2> QED BY <1>0, <2>1, <2>3 DEF SlabInv
  <1>3. ASSUME NEW o \in live, slab_allocator_free(o) PROVE SlabInv'
    <2>1. heap' = Freed(o[2]) /\ live' = live \ {o} /\ created' = created
      BY <1>3 DEF slab_allocator_free
    <2>2. Whole(heap', live')
      BY <2>1, FreedIs
    <2> QED BY <1>0, <2>1, <2>2 DEF SlabInv
  <1>4. CASE UNCHANGED slab
    <2>1. heap' = heap /\ live' = live /\ created' = created
      BY <1>4 DEF slab
    <2> QED BY <2>1, <1>0 DEF SlabInv
  <1> QED BY <1>1, <1>2, <1>3, <1>4 DEF SlabNext

-----------------------------------------------------------------------------
(* What the invariant says of addresses *)

\* The bytes of object x of a, with the node in front of it.
Place(a, x) == x - Node(a) .. x + size[a] - 1

LEMMA PlaceLies ==
  ASSUME NEW a \in Allocator, NEW p \in Nat, NEW x \in Objects(p, a), NEW b \in Place(a, x)
  PROVE  InPage(p, b) /\ b < SlabAddress(p) /\ get_slab(b) = p
  <1>1. PICK P \in Nat \ {0}, S \in Nat \ {0} : P = PageSize /\ S = SlabSize /\ S < P
    BY PageSizes
  <1>2. PICK f \in Nat : f = p * P
    BY <1>1
  <1>3. (p + 1) * P = f + P
    BY <1>2, Products
  <1>4. SlabAddress(p) = f + P - S
    BY <1>1, <1>3 DEF SlabAddress
  <1>5. x \in Nat /\ x - Node(a) >= f /\ x + size[a] <= f + P - S
    BY <1>1, <1>2, <1>4, ObjectsLie DEF InPage
  <1>6. size[a] \in Nat /\ Node(a) \in Nat
    BY SizesOf
  <1>7. b \in Int /\ b >= x - Node(a) /\ b <= x + size[a] - 1
    BY <1>5, <1>6 DEF Place
  <1>8. b \in Nat /\ f <= b /\ b < f + P - S
    BY <1>5, <1>6, <1>7, <1>2
  <1>9. InPage(p, b) /\ b < SlabAddress(p)
    BY <1>1, <1>2, <1>3, <1>4, <1>8 DEF InPage
  <1> QED BY <1>9, PageOf

LEMMA SlabLies ==
  ASSUME NEW p \in Nat, NEW b \in SlabAddress(p) .. (p + 1) * PageSize - 1
  PROVE  InPage(p, b) /\ ~ (b < SlabAddress(p)) /\ get_slab(b) = p
  <1>1. PICK P \in Nat \ {0}, S \in Nat \ {0} : P = PageSize /\ S = SlabSize /\ S < P
    BY PageSizes
  <1>2. PICK f \in Nat : f = p * P
    BY <1>1
  <1>3. (p + 1) * P = f + P
    BY <1>2, Products
  <1>4. SlabAddress(p) = f + P - S
    BY <1>1, <1>3 DEF SlabAddress
  <1>5. b \in f + P - S .. f + P - 1
    BY <1>1, <1>3, <1>4
  <1>6. InPage(p, b) /\ ~ (b < SlabAddress(p))
    BY <1>1, <1>2, <1>3, <1>4, <1>5 DEF InPage
  <1> QED BY <1>6, PageOf

LEMMA PlacesApart ==
  ASSUME NEW h, NEW T, Consistent(h, T), NEW a \in Allocator, NEW c \in Allocator,
         NEW p \in SlabsOf(h, a), NEW q \in SlabsOf(h, c),
         NEW x \in Objects(p, a), NEW y \in Objects(q, c), <<a, x>> # <<c, y>>
  PROVE  Place(a, x) \cap Place(c, y) = {}
  <1>1. p \in Nat /\ q \in Nat /\ \A e, d \in Allocator : e # d => SlabsOf(h, e) \cap SlabsOf(h, d) = {}
    BY ConsistentIs
  <1>2. ASSUME NEW b \in Place(a, x), b \in Place(c, y) PROVE FALSE
    <2>1. get_slab(b) = p /\ get_slab(b) = q
      BY <1>1, <1>2, PlaceLies
    <2>2. p = q /\ a = c /\ x # y
      BY <1>1, <2>1
    <2>3. x + size[a] <= y - Node(a) \/ y + size[a] <= x - Node(a)
      BY <1>1, <2>2, ObjectsLie
    <2>4. x \in Nat /\ y \in Nat /\ size[a] \in Nat /\ Node(a) \in Nat
      BY <1>1, <2>2, ObjectsLie, SizesOf DEF InPage
    <2>5. b \in x - Node(a) .. x + size[a] - 1 /\ b \in y - Node(a) .. y + size[a] - 1
      BY <1>2, <2>2 DEF Place
    <2> QED BY <2>3, <2>4, <2>5
  <1> QED BY <1>2

LEMMA TakenIs ==
  ASSUME SlabInv
  PROVE  /\ Taken = TakenIn(heap, live) /\ Consistent(heap, Taken) /\ Once(heap)
         /\ BigPages = BigOf(heap) /\ \A a : SlabPages(a) = SlabsOf(heap, a)
         /\ \A p : Ats(heap.free[p]) = {d.at : d \in FreeIn(p)}
         /\ \A p : FreeIn(p) = {heap.free[p][i] : i \in DOMAIN heap.free[p]}
  <1>1. BigPages = BigOf(heap)
    BY DEF BigPages, BigOf
  <1>2. \A p : Ats(heap.free[p]) = {d.at : d \in FreeIn(p)}
    BY DEF Ats, FreeIn
  <1>3. UNION {{<<Descriptors, d.at>> : d \in FreeIn(p)} : p \in BigPages}
          = {Descriptors} \X Described(heap)
    <2>1. \A p : {<<Descriptors, d.at>> : d \in FreeIn(p)} = {Descriptors} \X Ats(heap.free[p])
      <3> SUFFICES ASSUME NEW p
                   PROVE  {<<Descriptors, d.at>> : d \in FreeIn(p)} = {Descriptors} \X Ats(heap.free[p])
        OBVIOUS
      <3> DEFINE A == {<<Descriptors, d.at>> : d \in FreeIn(p)}
                 B == {d.at : d \in FreeIn(p)}
      <3>1. \A u \in A : u \in {Descriptors} \X B
        OBVIOUS
      <3>2. \A v \in B : <<Descriptors, v>> \in A
        OBVIOUS
      <3> HIDE DEF A, B
      <3>3. A = {Descriptors} \X B
        BY <3>1, <3>2
      <3>4. Ats(heap.free[p]) = B
        BY <1>2 DEF B
      <3> QED BY <3>3, <3>4 DEF A
    <2> QED BY <2>1, <1>1 DEF Described
  <1>4. Taken = TakenIn(heap, live)
    BY <1>3 DEF Taken, TakenIn
  <1>5. Whole(heap, live)
    BY DEF SlabInv
  <1>6. \A a : SlabPages(a) = SlabsOf(heap, a)
    BY DEF SlabPages, SlabsOf
  <1> QED BY <1>1, <1>2, <1>4, <1>5, <1>6 DEF Whole, FreeIn

\* The first n values of f are the elements of S, each once.
Numbers(n, f, S) == S = {f[i] : i \in 1 .. n} /\ \A i, j \in 1 .. n : f[i] = f[j] => i = j

LEMMA Counted ==
  ASSUME NEW n \in Nat, NEW f, NEW S, Numbers(n, f, S)
  PROVE  IsFiniteSet(S) /\ Cardinality(S) = n
  <1>0. S = {f[i] : i \in 1 .. n} /\ \A i, j \in 1 .. n : f[i] = f[j] => i = j
    BY DEF Numbers
  <1> DEFINE g == [i \in 1 .. n |-> f[i]]
  <1>1. g \in Bijection(1 .. n, S)
    <2>1. g \in [1 .. n -> S]
      BY <1>0
    <2>2. \A i, j \in 1 .. n : g[i] = g[j] => i = j
      BY <1>0
    <2>3. \A y \in S : \E i \in 1 .. n : g[i] = y
      BY <1>0
    <2> HIDE DEF g
    <2> QED BY <2>1, <2>2, <2>3 DEF Bijection, Injection, Surjection, IsInjective
  <1>2. ExistsBijection(1 .. n, S)
    BY <1>1 DEF ExistsBijection
  <1>3. Cardinality(S) = n /\ IsFiniteSet(S)
    BY <1>2, FS_CountingElements, FS_NatBijection
  <1> QED BY <1>3

LEMMA CountedPairs ==
  ASSUME NEW X, IsFiniteSet(X), NEW a
  PROVE  Cardinality({a} \X X) = Cardinality(X)
  <1> DEFINE g == [x \in X |-> <<a, x>>]
  <1>1. g \in Bijection(X, {a} \X X)
    <2>1. g \in [X -> {a} \X X]
      OBVIOUS
    <2>2. \A x, y \in X : g[x] = g[y] => x = y
      OBVIOUS
    <2>3. \A y \in {a} \X X : \E x \in X : g[x] = y
      <3> SUFFICES ASSUME NEW y \in {a} \X X PROVE \E x \in X : g[x] = y
        OBVIOUS
      <3>1. y[2] \in X /\ y = <<a, y[2]>>
        OBVIOUS
      <3> QED BY <3>1
    <2> HIDE DEF g
    <2> QED BY <2>1, <2>2, <2>3 DEF Bijection, Injection, Surjection, IsInjective
  <1>2. ExistsBijection(X, {a} \X X)
    BY <1>1 DEF ExistsBijection
  <1> QED BY <1>2, FS_Bijection

LEMMA CountedObjects ==
  ASSUME NEW p \in Nat, NEW a \in Allocator
  PROVE  IsFiniteSet(Objects(p, a)) /\ Cardinality(Objects(p, a)) = Len(BlocksOf(p, a))
  <1>1. PICK b : b = BlocksOf(p, a)
    OBVIOUS
  <1>2. b \in Seq(Nat) /\ \A i, j \in DOMAIN b : b[i] = b[j] => i = j
    BY <1>1, BlocksList
  <1>3. PICK n \in Nat : n = Len(b) /\ DOMAIN b = 1 .. n
    BY <1>2
  <1>4. PICK k \in Nat : k = Node(a)
    BY SizesOf
  <1> DEFINE f == [i \in 1 .. n |-> b[i] + k]
  <1>5. \A i \in 1 .. n : f[i] = b[i] + k /\ b[i] \in Nat
    BY <1>2, <1>3
  <1>6. Objects(p, a) = {f[i] : i \in 1 .. n}
    <2>1. Objects(p, a) = {b[i] + k : i \in 1 .. n}
      BY <1>1, <1>3, <1>4 DEF Objects
    <2> QED BY <2>1, <1>5
  <1> HIDE DEF f
  <1>7. \A i, j \in 1 .. n : f[i] = f[j] => i = j
    <2> SUFFICES ASSUME NEW i \in 1 .. n, NEW j \in 1 .. n, f[i] = f[j] PROVE i = j
      OBVIOUS
    <2>1. b[i] \in Nat /\ b[j] \in Nat /\ b[i] + k = b[j] + k
      BY <1>5
    <2>2. \A x, y, z \in Nat : x + z = y + z => x = y
      OBVIOUS
    <2>3. b[i] = b[j]
      BY <2>1, <2>2
    <2> QED BY <2>3, <1>2, <1>3
  <1>8. IsFiniteSet(Objects(p, a)) /\ Cardinality(Objects(p, a)) = n
    <2> DEFINE X == Objects(p, a)
    <2>1. Numbers(n, f, X)
      BY <1>6, <1>7 DEF Numbers
    <2> HIDE DEF X
    <2> QED BY <2>1, Counted DEF X
  <1> QED BY <1>1, <1>3, <1>8

LEMMA CountedList ==
  ASSUME NEW s \in Seq(Entries), NEW a \in Allocator, NEW X, Describes(s, X, a)
  PROVE  /\ IsFiniteSet(X) /\ Cardinality(X) = Len(s)
         /\ OnceAt(s) => Cardinality(Ats(s)) = Len(s)
  <1>1. DOMAIN s = 1 .. Len(s) /\ Len(s) \in Nat
    BY ListEnds
  <1> DEFINE f == [i \in 1 .. Len(s) |-> s[i].address]
             g == [i \in 1 .. Len(s) |-> s[i].at]
  <1>2. X = {f[i] : i \in 1 .. Len(s)} /\ \A i, j \in 1 .. Len(s) : f[i] = f[j] => i = j
    BY <1>1 DEF Describes
  <1>3. Ats(s) = {g[i] : i \in 1 .. Len(s)}
    BY <1>1 DEF Ats
  <1>4. OnceAt(s) => \A i, j \in 1 .. Len(s) : g[i] = g[j] => i = j
    BY <1>1 DEF OnceAt
  <1> HIDE DEF f, g
  <1> DEFINE n == Len(s)
  <1>5. n \in Nat
    BY <1>1
  <1> HIDE DEF n
  <1>6. IsFiniteSet(X) /\ Cardinality(X) = n
    <2>1. Numbers(n, f, X)
      BY <1>2 DEF n, Numbers
    <2> QED BY <2>1, <1>5, Counted
  <1>7. ASSUME OnceAt(s) PROVE Cardinality(Ats(s)) = n
    <2>1. Numbers(n, g, Ats(s))
      BY <1>3, <1>4, <1>7 DEF n, Numbers
    <2> QED BY <2>1, <1>5, Counted
  <1> QED BY <1>5, <1>6, <1>7 DEF n

LEMMA SmallOnce ==
  ASSUME NEW s \in Seq(Entries), NEW a \in Allocator, NEW X, Describes(s, X, a), ~IsBig(a)
  PROVE  OnceAt(s)
  <1> SUFFICES ASSUME NEW i \in DOMAIN s, NEW j \in DOMAIN s, s[i].at = s[j].at PROVE i = j
    BY DEF OnceAt
  <1>1. s[i].at = s[i].address - NodeSize /\ s[j].at = s[j].address - NodeSize
    BY DEF Describes
  <1>2. s[i].address \in Nat /\ s[j].address \in Nat /\ NodeSize \in Nat
    BY ListEnds, PageSizes DEF Entries
  <1>3. \A x, y, k \in Nat : x - k = y - k => x = y
    OBVIOUS
  <1>4. s[i].address = s[j].address
    BY <1>1, <1>2, <1>3
  <1> QED BY <1>4 DEF Describes

-----------------------------------------------------------------------------
(* The properties *)

LEMMA AccountsHold ==
  ASSUME SlabInv
  PROVE  BlocksAccounted
  <1> SUFFICES ASSUME NEW a \in Allocator, NEW p \in SlabPages(a)
               PROVE  LET used == {o \in Taken : get_slab(o[2]) = p}
                          all == IF IsBig(a) THEN Blocks(p, size[a], alignment[a])
                                 ELSE Blocks(p, NodeSize + size[a], alignment[a])
                      IN /\ \A o \in used : o[1] = a
                         /\ {o[2] : o \in used} \cap {d.address : d \in FreeIn(p)} = {}
                         /\ Cardinality(used) + Len(heap.free[p]) = Len(all)
                         /\ Cardinality({d.at : d \in FreeIn(p)}) = Len(heap.free[p])
    BY DEF BlocksAccounted
  <1> DEFINE used == {o \in Taken : get_slab(o[2]) = p}
             all == IF IsBig(a) THEN Blocks(p, size[a], alignment[a])
                    ELSE Blocks(p, NodeSize + size[a], alignment[a])
             s == heap.free[p]
             X == Left(Taken, p, a)
             O == Objects(p, a)
  <1>1. /\ Consistent(heap, Taken) /\ Once(heap) /\ p \in SlabsOf(heap, a)
        /\ Ats(s) = {d.at : d \in FreeIn(p)}
        /\ FreeIn(p) = {s[i] : i \in DOMAIN s}
    BY TakenIs
  <1>2. /\ heap \in Heaps /\ Taken \subseteq Allocator \X Nat
        /\ \A e, c \in Allocator : e # c => SlabsOf(heap, e) \cap SlabsOf(heap, c) = {}
        /\ \A o \in Taken : get_slab(o[2]) \in SlabsOf(heap, o[1]) /\ o[2] \in Objects(get_slab(o[2]), o[1])
        /\ p \in 1 .. Len(heap.free) /\ heap.small[p] = ~IsBig(a) /\ Describes(s, X, a)
    <2> HIDE DEF s, X
    <2> QED BY <1>1, ConsistentIs DEF s, X
  <1>3. s \in Seq(Entries) /\ p \in Nat /\ DOMAIN heap.free = 1 .. Len(heap.free)
    BY <1>2, HeapsAre
  <1> HIDE DEF s
  <1>4. all = BlocksOf(p, a)
    <2>1. CASE IsBig(a)
      <3>1. Node(a) = 0 /\ 0 + size[a] = size[a]
        BY <2>1, SizesOf
      <3> QED BY <3>1, <2>1 DEF BlocksOf
    <2>2. CASE ~IsBig(a)
      BY <2>2, SizesOf DEF BlocksOf
    <2> QED BY <2>1, <2>2
  <1> HIDE DEF all
  <1>5. \A o \in used : o[1] = a
    BY <1>1, <1>2
  <1>6. used = {a} \X (O \ X)
    <2>1. ASSUME NEW o \in used PROVE o \in {a} \X (O \ X)
      <3>1. o \in Taken /\ o[1] = a /\ o[2] \in O /\ o = <<a, o[2]>>
        BY <1>2, <1>5
      <3>2. o[2] \notin X
        BY <3>1 DEF Left
      <3> QED BY <3>1, <3>2
    <2>2. ASSUME NEW o \in {a} \X (O \ X) PROVE o \in used
      <3>1. o = <<a, o[2]>> /\ o[2] \in O /\ o[2] \notin X
        OBVIOUS
      <3>2. o \in Taken
        BY <3>1 DEF Left
      <3>3. get_slab(o[2]) = p
        BY <3>1, <1>3, ObjectsLie
      <3> QED BY <3>2, <3>3
    <2> QED BY <2>1, <2>2
  <1>7. {d.address : d \in FreeIn(p)} = X
    BY <1>1, <1>2 DEF Describes
  <1> HIDE DEF used
  <1>8. {o[2] : o \in used} \cap {d.address : d \in FreeIn(p)} = {}
    BY <1>6, <1>7
  <1>9. X \in SUBSET O
    BY DEF Left
  <1> HIDE DEF X, O
  <1>10. IsFiniteSet(O) /\ Cardinality(O) = Len(all)
    BY <1>3, <1>4, CountedObjects DEF O
  <1>11. IsFiniteSet(X) /\ Cardinality(X) = Len(s) /\ (OnceAt(s) => Cardinality(Ats(s)) = Len(s))
    BY <1>2, <1>3, CountedList
  <1>12. IsFiniteSet(O \ X) /\ Cardinality(O \ X) = Cardinality(O) - Cardinality(X)
    <2>1. O \cap X = X
      BY <1>9
    <2>2. IsFiniteSet(O \ X) /\ Cardinality(O \ X) = Cardinality(O) - Cardinality(O \cap X)
      BY <1>10, FS_Difference
    <2> QED BY <2>1, <2>2
  <1>13. Cardinality(used) = Len(all) - Len(s)
    BY <1>6, <1>10, <1>11, <1>12, CountedPairs
  <1>14. OnceAt(s)
    <2>1. CASE IsBig(a)
      <3>1. p \in BigOf(heap)
        BY <2>1, <1>2, <1>3 DEF BigOf
      <3> QED BY <3>1, <1>1 DEF Once, s
    <2>2. CASE ~IsBig(a)
      BY <2>2, <1>2, <1>3, SmallOnce
    <2> QED BY <2>1, <2>2
  <1>15. Len(s) \in Nat /\ Len(all) \in Nat
    BY <1>3, <1>10, FS_CardinalityType
  <1>16. Cardinality(used) + Len(s) = Len(all)
    BY <1>13, <1>15
  <1>17. Cardinality({d.at : d \in FreeIn(p)}) = Len(s)
    BY <1>1, <1>11, <1>14
  <1> QED BY <1>5, <1>8, <1>16, <1>17 DEF used, all, s

\* The bytes of an area are in one place, or in the structure of a slab.
LEMMA AreaLies ==
  ASSUME SlabInv, NEW z \in Areas
  PROVE  \/ \E p \in DOMAIN heap.free :
              z = <<"slab", p, SlabAddress(p) .. (p + 1) * PageSize - 1>>
         \/ \E a \in Allocator : \E p \in SlabsOf(heap, a) : \E x \in Objects(p, a) :
              /\ <<a, x>> \in Taken
              /\ z = <<"object", <<a, x>>, Place(a, x)>>
         \/ \E a \in Allocator : \E p \in SlabsOf(heap, a) : \E x \in Objects(p, a) :
              /\ <<a, x>> \notin Taken /\ ~IsBig(a)
              /\ z = <<"node", x - NodeSize, x - NodeSize .. x - NodeSize + NodeSize - 1>>
  <1>1. /\ Consistent(heap, Taken) /\ BigPages = BigOf(heap)
        /\ \A p : FreeIn(p) = {heap.free[p][i] : i \in DOMAIN heap.free[p]}
    BY TakenIs
  <1>2. CASE z \in {<<"slab", p, SlabAddress(p) .. (p + 1) * PageSize - 1>> : p \in DOMAIN heap.free}
    BY <1>2
  <1>3. ASSUME NEW o \in Taken,
               z = <<"object", o, (IF IsBig(o[1]) THEN o[2] ELSE o[2] - NodeSize) ..
                                    o[2] + size[o[1]] - 1>>
        PROVE  \E a \in Allocator : \E p \in SlabsOf(heap, a) : \E x \in Objects(p, a) :
                 /\ <<a, x>> \in Taken
                 /\ z = <<"object", <<a, x>>, Place(a, x)>>
    <2>1. Taken \subseteq Allocator \X Nat
      BY <1>1, ConsistentIs
    <2>2. PICK a \in Allocator, x \in Nat : o = <<a, x>>
      BY <2>1
    <2>3. get_slab(x) \in SlabsOf(heap, a) /\ x \in Objects(get_slab(x), a) /\ <<a, x>> \in Taken
      BY <2>2, <1>1, TakenLie
    <2>4. (IF IsBig(a) THEN x ELSE x - NodeSize) = x - Node(a)
      <3>1. x - 0 = x
        OBVIOUS
      <3> QED BY <3>1, SizesOf
    <2>5. z = <<"object", <<a, x>>, Place(a, x)>>
      BY <1>3, <2>2, <2>4 DEF Place
    <2> QED BY <2>3, <2>5
  <1>4. ASSUME NEW q \in DOMAIN heap.free \ BigPages, NEW d \in FreeIn(q),
               z = <<"node", d.at, d.at .. d.at + NodeSize - 1>>
        PROVE  \E a \in Allocator : \E p \in SlabsOf(heap, a) : \E x \in Objects(p, a) :
                 /\ <<a, x>> \notin Taken /\ ~IsBig(a)
                 /\ z = <<"node", x - NodeSize, x - NodeSize .. x - NodeSize + NodeSize - 1>>
    <2>1. heap \in Heaps
      BY <1>1, ConsistentIs
    <2>2. q \in 1 .. Len(heap.free) /\ heap.small[q]
      BY <2>1, <1>1, HeapsAre DEF BigOf
    <2>3. PICK a \in Allocator : q \in SlabsOf(heap, a)
      BY <2>2, <1>1, ConsistentIs
    <2>4. ~IsBig(a) /\ Describes(heap.free[q], Left(Taken, q, a), a)
      BY <2>2, <2>3, <1>1, ConsistentIs
    <2>5. PICK i \in DOMAIN heap.free[q] : d = heap.free[q][i]
      BY <1>1
    <2>6. d.address \in Left(Taken, q, a) /\ d.at = d.address - NodeSize
      BY <2>4, <2>5 DEF Describes
    <2>7. d.address \in Objects(q, a) /\ <<a, d.address>> \notin Taken
      BY <2>6 DEF Left
    <2> QED BY <1>4, <2>3, <2>4, <2>6, <2>7
  <1>5. \/ z \in {<<"slab", p, SlabAddress(p) .. (p + 1) * PageSize - 1>> : p \in DOMAIN heap.free}
        \/ \E o \in Taken :
             z = <<"object", o, (IF IsBig(o[1]) THEN o[2] ELSE o[2] - NodeSize) ..
                                  o[2] + size[o[1]] - 1>>
        \/ \E q \in DOMAIN heap.free \ BigPages : \E d \in FreeIn(q) :
             z = <<"node", d.at, d.at .. d.at + NodeSize - 1>>
    BY DEF Areas
  <1> QED BY <1>2, <1>3, <1>4, <1>5

AreaOf(a, x) ==
  IF <<a, x>> \in Taken THEN <<"object", <<a, x>>, Place(a, x)>>
  ELSE <<"node", x - NodeSize, x - NodeSize .. x - NodeSize + NodeSize - 1>>

LEMMA AreaForms ==
  ASSUME SlabInv, NEW z \in Areas
  PROVE  \/ \E p \in DOMAIN heap.free :
              z = <<"slab", p, SlabAddress(p) .. (p + 1) * PageSize - 1>>
         \/ \E a \in Allocator : \E p \in SlabsOf(heap, a) : \E x \in Objects(p, a) :
              z = AreaOf(a, x) /\ z[3] \subseteq Place(a, x)
  <1>1. ASSUME NEW a \in Allocator, NEW p \in SlabsOf(heap, a), NEW x \in Objects(p, a),
               <<a, x>> \notin Taken, ~IsBig(a),
               z = <<"node", x - NodeSize, x - NodeSize .. x - NodeSize + NodeSize - 1>>
        PROVE  z = AreaOf(a, x) /\ z[3] \subseteq Place(a, x)
    <2>1. z[3] = x - NodeSize .. x - NodeSize + NodeSize - 1
      BY <1>1
    <2>2. p \in Nat
      BY TakenIs, ConsistentIs
    <2>3. x \in Nat /\ NodeSize \in Nat /\ Node(a) = NodeSize /\ size[a] \in Nat
      BY <1>1, <2>2, ObjectsLie, SizesOf, PageSizes DEF InPage
    <2>4. z[3] \subseteq Place(a, x)
      <3> SUFFICES ASSUME NEW b \in z[3] PROVE b \in Place(a, x)
        OBVIOUS
      <3>1. b \in Int /\ b >= x - NodeSize /\ b <= x - NodeSize + NodeSize - 1
        BY <2>1, <2>3
      <3> QED BY <3>1, <2>3 DEF Place
    <2> QED BY <1>1, <2>4 DEF AreaOf
  <1>2. ASSUME NEW a \in Allocator, NEW p \in SlabsOf(heap, a), NEW x \in Objects(p, a),
               <<a, x>> \in Taken, z = <<"object", <<a, x>>, Place(a, x)>>
        PROVE  z = AreaOf(a, x) /\ z[3] \subseteq Place(a, x)
    BY <1>2 DEF AreaOf
  <1> QED BY <1>1, <1>2, AreaLies

LEMMA LayoutHolds ==
  ASSUME SlabInv
  PROVE  WellLaidOut
  <1>1. Consistent(heap, Taken) /\ heap \in Heaps
    BY TakenIs, ConsistentIs
  <1>2. DOMAIN heap.free = 1 .. Len(heap.free) /\ DOMAIN heap.free \subseteq Nat
    BY <1>1, HeapsAre
  <1>3. \A a \in Allocator : SlabsOf(heap, a) \subseteq DOMAIN heap.free
    BY <1>1, <1>2, ConsistentIs
  <1> DEFINE Struct(p) == SlabAddress(p) .. (p + 1) * PageSize - 1
  <1>4. ASSUME NEW p \in DOMAIN heap.free, NEW b \in Struct(p)
        PROVE  ~ (b < SlabAddress(p)) /\ get_slab(b) = p
    BY <1>2, SlabLies
  <1>5. ASSUME NEW a \in Allocator, NEW p \in SlabsOf(heap, a), NEW x \in Objects(p, a),
               NEW b \in Place(a, x)
        PROVE  b < SlabAddress(p) /\ get_slab(b) = p
    BY <1>2, <1>3, PlaceLies
  <1>6. ASSUME NEW z \in Areas
        PROVE  \/ \E p \in DOMAIN heap.free : z[3] = Struct(p) /\ z = <<"slab", p, Struct(p)>>
               \/ \E a \in Allocator : \E p \in SlabsOf(heap, a) : \E x \in Objects(p, a) :
                    z = AreaOf(a, x) /\ z[3] \subseteq Place(a, x)
    BY AreaForms
  <1> HIDE DEF Struct
  <1>7. ASSUME NEW z \in Areas, NEW b \in z[3], NEW c \in z[3]
        PROVE  get_slab(b) = get_slab(c) /\ get_slab(b) \in DOMAIN heap.free
    <2>1. CASE \E p \in DOMAIN heap.free : z[3] = Struct(p) /\ z = <<"slab", p, Struct(p)>>
      BY <2>1, <1>4
    <2>2. ASSUME NEW a \in Allocator, NEW p \in SlabsOf(heap, a), NEW x \in Objects(p, a),
                 z[3] \subseteq Place(a, x)
          PROVE  get_slab(b) = get_slab(c) /\ get_slab(b) \in DOMAIN heap.free
      <3>1. get_slab(b) = p /\ get_slab(c) = p
        BY <2>2, <1>5
      <3> QED BY <3>1, <1>3
    <2> QED BY <1>6, <2>1, <2>2
  <1>8. ASSUME NEW z \in Areas, NEW y \in Areas, z # y, NEW b \in z[3], b \in y[3]
        PROVE  FALSE
    <2>1. ASSUME NEW p \in DOMAIN heap.free, z = <<"slab", p, Struct(p)>>, z[3] = Struct(p),
                 NEW q \in DOMAIN heap.free, y = <<"slab", q, Struct(q)>>, y[3] = Struct(q)
          PROVE  FALSE
      <3>1. get_slab(b) = p /\ get_slab(b) = q
        BY <2>1, <1>8, <1>4
      <3> QED BY <3>1, <2>1, <1>8
    <2>2. ASSUME NEW u, NEW v, b \in u, b \in v,
                 NEW q \in DOMAIN heap.free, u = Struct(q),
                 NEW a \in Allocator, NEW p \in SlabsOf(heap, a), NEW x \in Objects(p, a),
                 v \subseteq Place(a, x)
          PROVE  FALSE
      <3>1. ~ (b < SlabAddress(q)) /\ get_slab(b) = q
        BY <2>2, <1>4
      <3>2. b < SlabAddress(p) /\ get_slab(b) = p
        BY <2>2, <1>5
      <3> QED BY <3>1, <3>2
    <2>3. ASSUME NEW a \in Allocator, NEW p \in SlabsOf(heap, a), NEW x \in Objects(p, a),
                 z = AreaOf(a, x), z[3] \subseteq Place(a, x),
                 NEW c \in Allocator, NEW q \in SlabsOf(heap, c), NEW w \in Objects(q, c),
                 y = AreaOf(c, w), y[3] \subseteq Place(c, w)
          PROVE  FALSE
      <3>1. <<a, x>> # <<c, w>>
        BY <2>3, <1>8
      <3>2. Place(a, x) \cap Place(c, w) = {}
        BY <3>1, <1>1, PlacesApart
      <3> QED BY <3>2, <2>3, <1>8
    <2>4. b \in z[3] /\ b \in y[3]
      BY <1>8
    <2>5. CASE \E p \in DOMAIN heap.free : z[3] = Struct(p) /\ z = <<"slab", p, Struct(p)>>
      <3>1. PICK p \in DOMAIN heap.free : z[3] = Struct(p) /\ z = <<"slab", p, Struct(p)>>
        BY <2>5
      <3>2. CASE \E q \in DOMAIN heap.free : y[3] = Struct(q) /\ y = <<"slab", q, Struct(q)>>
        BY <3>1, <3>2, <2>1
      <3>3. ASSUME NEW a \in Allocator, NEW q \in SlabsOf(heap, a), NEW x \in Objects(q, a),
                   y[3] \subseteq Place(a, x)
            PROVE  FALSE
        BY <3>1, <3>3, <2>2, <2>4
      <3> QED BY <3>2, <3>3, <1>6
    <2>6. ASSUME NEW a \in Allocator, NEW p \in SlabsOf(heap, a), NEW x \in Objects(p, a),
                 z = AreaOf(a, x), z[3] \subseteq Place(a, x)
          PROVE  FALSE
      <3>1. CASE \E q \in DOMAIN heap.free : y[3] = Struct(q) /\ y = <<"slab", q, Struct(q)>>
        BY <2>6, <3>1, <2>2, <2>4
      <3>2. ASSUME NEW c \in Allocator, NEW q \in SlabsOf(heap, c), NEW w \in Objects(q, c),
                   y = AreaOf(c, w), y[3] \subseteq Place(c, w)
            PROVE  FALSE
        BY <2>6, <3>2, <2>3
      <3> QED BY <3>1, <3>2, <1>6
    <2> QED BY <2>5, <2>6, <1>6
  <1> QED BY <1>7, <1>8 DEF WellLaidOut

\* Two objects that are taken share no byte.
LEMMA TakenApart ==
  ASSUME NEW h, NEW T, Consistent(h, T), NEW o \in T, NEW u \in T, o # u
  PROVE  Pool!Bytes(o) \cap Pool!Bytes(u) = {}
  <1>1. T \subseteq Allocator \X Nat
    BY ConsistentIs
  <1>2. PICK a \in Allocator, x \in Nat, c \in Allocator, y \in Nat : o = <<a, x>> /\ u = <<c, y>>
    BY <1>1
  <1>3. /\ get_slab(x) \in SlabsOf(h, a) /\ x \in Objects(get_slab(x), a)
        /\ get_slab(y) \in SlabsOf(h, c) /\ y \in Objects(get_slab(y), c)
    BY <1>2, TakenLie
  <1>4. Place(a, x) \cap Place(c, y) = {}
    BY <1>2, <1>3, PlacesApart
  <1>5. ASSUME NEW e \in Allocator, NEW z \in Nat PROVE Pool!Bytes(<<e, z>>) \subseteq Place(e, z)
    <2>1. Node(e) \in Nat /\ size[e] \in Nat
      BY SizesOf
    <2>2. Pool!Bytes(<<e, z>>) = z .. z + size[e] - 1
      BY DEF Pool!Bytes
    <2> QED BY <2>1, <2>2 DEF Place
  <1> QED BY <1>2, <1>4, <1>5

LEMMA PoolStep ==
  ASSUME SlabInv, SlabInv', [SlabNext]_slab
  PROVE  [Pool!Next]_<<created, live, result>>
  <1>0. {Descriptors, Structs} \subseteq created /\ created \subseteq Allocator /\ Whole(heap, live)
    BY DEF SlabInv
  <1>1. ASSUME NEW a \in Allocator, NEW x \in Nat, x # 0, <<a, x>> \notin live,
               live' = live \cup {<<a, x>>}
        PROVE  \A o \in live : Pool!Bytes(o) \cap Pool!Bytes(<<a, x>>) = {}
    <2>1. Consistent(heap', TakenIn(heap', live'))
      BY DEF SlabInv, Whole
    <2>2. live' \subseteq TakenIn(heap', live')
      BY DEF TakenIn
    <2>3. ASSUME NEW o \in live PROVE Pool!Bytes(o) \cap Pool!Bytes(<<a, x>>) = {}
      <3>1. o \in TakenIn(heap', live') /\ <<a, x>> \in TakenIn(heap', live') /\ o # <<a, x>>
        BY <1>1, <2>2
      <3> QED BY <3>1, <2>1, TakenApart
    <2> QED BY <2>3
  <1>2. ASSUME NEW a \in Allocator, slab_allocator_allocate(a) PROVE Pool!Next
    <2> DEFINE x == Allocated(a).address
    <2>1. /\ a # Descriptors /\ a \in created /\ created' = created /\ result' = x
          /\ live' = IF x = 0 THEN live ELSE live \cup {<<a, x>>}
      BY <1>2 DEF slab_allocator_allocate
    <2>2. x \in Nat /\ (x = 0 => a \in TooLarge) /\ (x # 0 => <<a, x>> \notin live)
      BY <2>1, AllocatedIs
    <2> HIDE DEF x
    <2>3. CASE x = 0
      <3>1. Pool!Refuse(a)
        BY <2>1, <2>2, <2>3 DEF Pool!Refuse, TooLarge
      <3> QED BY <3>1 DEF Pool!Next
    <2>4. CASE x # 0
      <3>1. \A o \in live : Pool!Bytes(o) \cap Pool!Bytes(<<a, x>>) = {}
        BY <2>1, <2>2, <2>4, <1>1
      <3>2. Pool!Allocate(a)
        BY <3>1, <2>1, <2>2, <2>4 DEF Pool!Allocate, Pool!Give
      <3> QED BY <3>2 DEF Pool!Next
    <2> QED BY <2>3, <2>4
  <1>3. ASSUME NEW a \in Allocator, create_slab_allocator(a) PROVE Pool!Next
    <2> DEFINE x == Allocated(Structs).address
    <2>1. /\ a \notin created /\ created' = created \cup {a} /\ result' = x
          /\ live' = live \cup {<<Structs, x>>}
      BY <1>3 DEF create_slab_allocator
    <2>2. x \in Nat /\ x # 0 /\ <<Structs, x>> \notin live
      BY OwnStructs, AllocatedIs
    <2> HIDE DEF x
    <2>3. \A o \in live : Pool!Bytes(o) \cap Pool!Bytes(<<Structs, x>>) = {}
      BY <2>1, <2>2, <1>1, OwnStructs
    <2>4. Pool!Create(Structs)
      <3>1. Structs \in created
        BY <1>0
      <3> QED BY <3>1, <2>1, <2>2, <2>3 DEF Pool!Create, Pool!Give
    <2> QED BY <2>4, OwnStructs DEF Pool!Next
  <1>4. ASSUME NEW o \in live, slab_allocator_free(o) PROVE Pool!Next
    <2>1. Pool!Free
      BY <1>4 DEF slab_allocator_free, Pool!Free
    <2> QED BY <2>1 DEF Pool!Next
  <1>5. CASE UNCHANGED slab
    BY <1>5 DEF slab
  <1> QED BY <1>2, <1>3, <1>4, <1>5 DEF SlabNext

LEMMA SlabInvariant == SlabSpec => []SlabInv
  <1>1. init_slab_allocator => SlabInv
    BY SlabInitial
  <1>2. SlabInv /\ [SlabNext]_slab => SlabInv'
    BY SlabStep
  <1> QED BY <1>1, <1>2, PTL DEF SlabSpec

\* Whatever the sizes and the order of the calls, objects, list nodes, descriptors
\* and slab structures never overlap and never reach over the end of a page.
THEOREM SlabsLaidOut == SlabSpec => []WellLaidOut
  <1>1. SlabInv => WellLaidOut
    BY LayoutHolds
  <1> QED BY <1>1, SlabInvariant, PTL

\* Every block of every slab is free, once on its list, or in use: the nested
\* allocations of descriptors lose none and hand none out twice.
THEOREM SlabBlocksAccounted == SlabSpec => []BlocksAccounted
  <1>1. SlabInv => BlocksAccounted
    BY AccountsHold
  <1> QED BY <1>1, SlabInvariant, PTL

\* slab_allocator.c gives its users a pool of objects: what it hands out nobody
\* else has, and it refuses only objects that are too large for a page.
THEOREM SlabsImplementPool == SlabSpec => ImplementsPool
  <1>1. init_slab_allocator => Pool!Init
    BY SlabAssumption DEF init_slab_allocator, Pool!Init
  <1>2. SlabInv /\ SlabInv' /\ [SlabNext]_slab => [Pool!Next]_<<created, live, result>>
    BY PoolStep
  <1> QED BY <1>1, <1>2, SlabInvariant, PTL DEF SlabSpec, ImplementsPool, Pool!Spec
=============================================================================
