----------------------------- MODULE ListProofs -----------------------------
(***************************************************************************)
(* The pointers of LinkedList implement the sequences of ListSequence, for *)
(* every set of list heads and every finite set of nodes.                  *)
(***************************************************************************)
EXTENDS LinkedList, Sequences, SequencesExt, Induction,
        FiniteSetTheorems, FunctionTheorems, SequenceTheorems

-----------------------------------------------------------------------------
(* A heap of nodes represents sequences c when each list is a circle: the  *)
(* head at place 0 and again after the last node.                          *)

Place(c, h, i) == IF i = 0 \/ i = Len(c[h]) + 1 THEN h ELSE c[h][i]

Heap(nx, pv) == nx \in [AnyNode -> AnyNode] /\ pv \in [AnyNode -> AnyNode]

Sequences(c) == c \in [ListHead -> Seq(Node)]

\* No node is in two lists, or twice in one.
Once(c) ==
  \A g, h \in ListHead : \A i \in 1 .. Len(c[g]), j \in 1 .. Len(c[h]) :
    c[g][i] = c[h][j] => g = h /\ i = j

Circles(nx, pv, c) ==
  \A h \in ListHead : \A i \in 0 .. Len(c[h]) :
    /\ nx[Place(c, h, i)] = Place(c, h, i + 1)
    /\ pv[Place(c, h, i + 1)] = Place(c, h, i)

\* The nodes that are in the lists
In(c, n) == \E h \in ListHead : \E i \in 1 .. Len(c[h]) : c[h][i] = n

Listing(l, c) == l \subseteq Node /\ \A n \in Node : n \in l <=> In(c, n)

Represents(c) ==
  /\ Heap(next, prev)
  /\ Sequences(c)
  /\ Once(c)
  /\ Circles(next, prev, c)
  /\ Listing(linked, c)

\* The inductive invariant: the lists are what a walk through them shows.
IInv == Represents(Contents)

-----------------------------------------------------------------------------
(* Places *)

LEMMA OnePlace ==
  ASSUME NEW c, Once(c), NEW g \in ListHead, NEW h \in ListHead,
         NEW i \in 1 .. Len(c[g]), NEW j \in 1 .. Len(c[h]), c[g][i] = c[h][j]
  PROVE  g = h /\ i = j
  BY DEF Once

LEMMA InLists ==
  ASSUME NEW c, NEW h \in ListHead, NEW i \in 1 .. Len(c[h])
  PROVE  In(c, c[h][i])
  BY DEF In

LEMMA Lengths ==
  ASSUME NEW c, Sequences(c), NEW h \in ListHead
  PROVE  /\ c[h] \in Seq(Node) /\ Len(c[h]) \in Nat
         /\ \A i \in 1 .. Len(c[h]) : c[h][i] \in Node
         /\ DOMAIN c[h] = 1 .. Len(c[h])
  BY ElementOfSeq, LenProperties DEF Sequences

LEMMA PlaceType ==
  ASSUME NEW c, Sequences(c), NEW h \in ListHead, NEW i \in 0 .. Len(c[h]) + 1
  PROVE  /\ Place(c, h, i) \in AnyNode
         /\ Place(c, h, i) \in ListHead => Place(c, h, i) = h /\ i \in {0, Len(c[h]) + 1}
         /\ Place(c, h, i) \in Node => i \in 1 .. Len(c[h]) /\ Place(c, h, i) = c[h][i]
  <1>1. h \in AnyNode /\ h \notin Node
    BY NodeAssumption DEF AnyNode
  <1>2. CASE i = 0 \/ i = Len(c[h]) + 1
    BY <1>1, <1>2 DEF Place
  <1>3. CASE ~ (i = 0 \/ i = Len(c[h]) + 1)
    <2>1. i \in 1 .. Len(c[h]) /\ Place(c, h, i) = c[h][i]
      BY <1>3, Lengths DEF Place
    <2>2. c[h][i] \in Node /\ c[h][i] \notin ListHead
      BY <2>1, Lengths, NodeAssumption
    <2> QED BY <2>1, <2>2 DEF AnyNode
  <1> QED BY <1>2, <1>3

\* Of the places that are left, and of those that are reached, no two are
\* the same node.
LEMMA PlacesDiffer ==
  ASSUME NEW c, Sequences(c), Once(c), NEW g \in ListHead, NEW h \in ListHead
  PROVE  /\ \A i \in 0 .. Len(c[g]), j \in 0 .. Len(c[h]) :
              Place(c, g, i) = Place(c, h, j) => g = h /\ i = j
         /\ \A i \in 1 .. Len(c[g]) + 1, j \in 1 .. Len(c[h]) + 1 :
              Place(c, g, i) = Place(c, h, j) => g = h /\ i = j
  <1>0. Len(c[g]) \in Nat /\ Len(c[h]) \in Nat
    BY Lengths
  <1>1. ASSUME NEW i \in 0 .. Len(c[g]) + 1, NEW j \in 0 .. Len(c[h]) + 1,
               Place(c, g, i) = Place(c, h, j)
        PROVE  /\ g = h
               /\ i = j \/ (i \in {0, Len(c[g]) + 1} /\ j \in {0, Len(c[g]) + 1})
    <2>1. CASE Place(c, g, i) \in ListHead
      BY <1>1, <2>1, PlaceType
    <2>2. CASE Place(c, g, i) \in Node
      <3>1. /\ i \in 1 .. Len(c[g]) /\ Place(c, g, i) = c[g][i]
            /\ j \in 1 .. Len(c[h]) /\ Place(c, h, j) = c[h][j]
        BY <1>1, <2>2, PlaceType
      <3> QED BY <3>1, <1>1, OnePlace, ZenonT(30)
    <2> QED BY <2>1, <2>2, PlaceType DEF AnyNode
  <1>2. ASSUME NEW i \in 0 .. Len(c[g]), NEW j \in 0 .. Len(c[h]),
               Place(c, g, i) = Place(c, h, j)
        PROVE  g = h /\ i = j
    BY <1>0, <1>1, <1>2
  <1>3. ASSUME NEW i \in 1 .. Len(c[g]) + 1, NEW j \in 1 .. Len(c[h]) + 1,
               Place(c, g, i) = Place(c, h, j)
        PROVE  g = h /\ i = j
    BY <1>0, <1>1, <1>3
  <1> QED BY <1>2, <1>3

-----------------------------------------------------------------------------
(* What the operations do to the circles *)

\* A node goes into the list of g before place i.
Inserted(c, c2, g, i, new) ==
  /\ \A h \in ListHead \ {g} : c2[h] = c[h]
  /\ Len(c2[g]) = Len(c[g]) + 1
  /\ \A j \in 1 .. Len(c[g]) + 1 :
       c2[g][j] = IF j < i THEN c[g][j] ELSE IF j = i THEN new ELSE c[g][j - 1]

LEMMA Insertion ==
  ASSUME NEW nx, NEW pv, Heap(nx, pv), NEW c, Sequences(c), Once(c), Circles(nx, pv, c),
         NEW new \in Node, ~ In(c, new), NEW g \in ListHead, NEW i \in 1 .. Len(c[g]) + 1,
         NEW c2, Sequences(c2), Inserted(c, c2, g, i, new)
  PROVE  /\ Once(c2)
         /\ Circles([nx EXCEPT ![new] = Place(c, g, i), ![Place(c, g, i - 1)] = new],
                    [pv EXCEPT ![new] = Place(c, g, i - 1), ![Place(c, g, i)] = new], c2)
         /\ \A n \in Node : In(c2, n) <=> In(c, n) \/ n = new
  <1> USE DEF Inserted
  <1> DEFINE a == Place(c, g, i - 1)
             b == Place(c, g, i)
             nx2 == [nx EXCEPT ![new] = b, ![a] = new]
             pv2 == [pv EXCEPT ![new] = a, ![b] = new]
             L == Len(c[g])
  <1>1. L \in Nat /\ i \in Nat /\ i - 1 \in 0 .. L /\ i \in 0 .. L + 1
    BY Lengths
  <1>2. ASSUME NEW h \in ListHead, NEW j \in 0 .. Len(c[h]) + 1 PROVE Place(c, h, j) # new
    BY <1>2, PlaceType DEF In
  <1>3. a \in AnyNode /\ b \in AnyNode /\ new \in AnyNode /\ a # new /\ b # new
    BY <1>1, <1>2, PlaceType DEF AnyNode
  <1>4. /\ nx2[new] = b /\ nx2[a] = new /\ \A n \in AnyNode \ {a, new} : nx2[n] = nx[n]
        /\ pv2[new] = a /\ pv2[b] = new /\ \A n \in AnyNode \ {b, new} : pv2[n] = pv[n]
    BY <1>3 DEF Heap
  <1>5. \A j \in 0 .. L + 2 :
          Place(c2, g, j) = IF j < i THEN Place(c, g, j) ELSE IF j = i THEN new ELSE Place(c, g, j - 1)
    <2> SUFFICES ASSUME NEW j \in 0 .. L + 2
                 PROVE  Place(c2, g, j) = IF j < i THEN Place(c, g, j)
                                          ELSE IF j = i THEN new ELSE Place(c, g, j - 1)
      OBVIOUS
    <2>1. CASE j = 0 \/ j = L + 2
      BY <2>1, <1>1 DEF Place
    <2>2. CASE j \in 1 .. L + 1
      BY <2>2, <1>1 DEF Place
    <2> QED BY <2>1, <2>2, <1>1
  <1>6. \A h \in ListHead \ {g} : \A j : Place(c2, h, j) = Place(c, h, j)
    BY DEF Place
  <1> HIDE DEF a, b, nx2, pv2, L
  <1>7. ASSUME NEW h \in ListHead, NEW j \in 0 .. Len(c2[h])
        PROVE  /\ nx2[Place(c2, h, j)] = Place(c2, h, j + 1)
               /\ pv2[Place(c2, h, j + 1)] = Place(c2, h, j)
    <2>1. CASE h # g
      <3>1. j \in 0 .. Len(c[h]) /\ Len(c[h]) \in Nat
        BY <2>1, Lengths
      <3>2. nx[Place(c, h, j)] = Place(c, h, j + 1) /\ pv[Place(c, h, j + 1)] = Place(c, h, j)
        BY <3>1 DEF Circles
      <3>3. Place(c, h, j) \in AnyNode \ {a, new} /\ Place(c, h, j + 1) \in AnyNode \ {b, new}
        BY <3>1, <2>1, <1>1, <1>2, PlaceType, PlacesDiffer DEF a, b
      <3> QED BY <3>2, <3>3, <1>4, <1>6, <2>1
    <2>2. CASE h = g
      <3>1. j \in 0 .. L + 1
        BY <2>2, <1>1 DEF L
      <3>2. ASSUME NEW k \in 0 .. L
            PROVE  /\ nx[Place(c, g, k)] = Place(c, g, k + 1)
                   /\ pv[Place(c, g, k + 1)] = Place(c, g, k)
                   /\ k # i - 1 => Place(c, g, k) \in AnyNode \ {a, new}
                   /\ k # i - 1 => Place(c, g, k + 1) \in AnyNode \ {b, new}
        <4>1. k \in 0 .. Len(c[g]) /\ k + 1 \in 1 .. Len(c[g]) + 1
          BY <1>1 DEF L
        <4>2. k # i - 1 => Place(c, g, k) # a /\ Place(c, g, k + 1) # b
          BY <4>1, <1>1, PlacesDiffer, SMTT(20) DEF a, b, L
        <4> QED BY <4>1, <4>2, <1>1, <1>2, PlaceType DEF Circles, L
      <3>3. CASE j < i - 1
        <4>1. Place(c2, g, j) = Place(c, g, j) /\ Place(c2, g, j + 1) = Place(c, g, j + 1)
          BY <3>1, <3>3, <1>1, <1>5
        <4> QED BY <4>1, <3>1, <3>2, <3>3, <1>1, <1>4, <2>2
      <3>4. CASE j = i - 1
        <4>1. Place(c2, g, j) = a /\ Place(c2, g, j + 1) = new
          BY <3>1, <3>4, <1>1, <1>5 DEF a
        <4> QED BY <4>1, <1>4, <2>2
      <3>5. CASE j = i
        <4>1. Place(c2, g, j) = new /\ Place(c2, g, j + 1) = b
          BY <3>1, <3>5, <1>1, <1>5 DEF b
        <4> QED BY <4>1, <1>4, <2>2
      <3>6. CASE j > i
        <4>1. /\ Place(c2, g, j) = Place(c, g, j - 1) /\ Place(c2, g, j + 1) = Place(c, g, j)
              /\ j - 1 \in 0 .. L /\ j - 1 # i - 1 /\ (j - 1) + 1 = j
          BY <3>1, <3>6, <1>1, <1>5
        <4>2. PICK k \in 0 .. L : k = j - 1 /\ k # i - 1 /\ k + 1 = j
          BY <4>1
        <4> QED BY <4>1, <4>2, <3>2, <1>4, <2>2
      <3> QED BY <3>1, <1>1, <3>3, <3>4, <3>5, <3>6
    <2> QED BY <2>1, <2>2
  <1>8. Once(c2)
    <2>1. ASSUME NEW j \in 1 .. L + 1
          PROVE  \/ c2[g][j] = new /\ j = i
                 \/ \E k \in 1 .. L : c2[g][j] = c[g][k] /\ j = (IF k < i THEN k ELSE k + 1)
      <3>1. CASE j < i
        BY <3>1, <1>1 DEF L
      <3>2. CASE j = i
        BY <3>2, <1>1 DEF L
      <3>3. CASE j > i
        <4>1. c2[g][j] = c[g][j - 1] /\ j - 1 \in 1 .. L /\ ~ (j - 1 < i) /\ j = (j - 1) + 1
          BY <3>3, <1>1 DEF L
        <4> QED BY <4>1
      <3> QED BY <3>1, <3>2, <3>3, <1>1
    <2>2. \A h \in ListHead : \A k \in 1 .. Len(c[h]) : c[h][k] # new
      BY DEF In
    <2> SUFFICES ASSUME NEW h1 \in ListHead, NEW h2 \in ListHead,
                        NEW j1 \in 1 .. Len(c2[h1]), NEW j2 \in 1 .. Len(c2[h2]),
                        c2[h1][j1] = c2[h2][j2]
                 PROVE  h1 = h2 /\ j1 = j2
      BY DEF Once
    <2>3. CASE h1 # g /\ h2 # g
      BY <2>3 DEF Once
    <2>4. CASE h1 = g /\ h2 # g
      <3>1. j1 \in 1 .. L + 1 /\ j2 \in 1 .. Len(c[h2]) /\ c2[h2][j2] = c[h2][j2]
        BY <2>4 DEF L
      <3>2. c2[g][j1] # new
        BY <2>2, <2>4, <3>1
      <3>3. PICK k \in 1 .. L : c2[g][j1] = c[g][k]
        BY <2>1, <3>1, <3>2
      <3> QED BY <2>4, <3>1, <3>3, OnePlace DEF L
    <2>5. CASE h1 # g /\ h2 = g
      <3>1. j2 \in 1 .. L + 1 /\ j1 \in 1 .. Len(c[h1]) /\ c2[h1][j1] = c[h1][j1]
        BY <2>5 DEF L
      <3>2. c2[g][j2] # new
        BY <2>2, <2>5, <3>1
      <3>3. PICK k \in 1 .. L : c2[g][j2] = c[g][k]
        BY <2>1, <3>1, <3>2
      <3> QED BY <2>5, <3>1, <3>3, OnePlace DEF L
    <2>6. CASE h1 = g /\ h2 = g
      <3>1. j1 \in 1 .. L + 1 /\ j2 \in 1 .. L + 1
        BY <2>6 DEF L
      <3>2. CASE c2[g][j1] = new
        BY <3>1, <3>2, <2>1, <2>2, <2>6 DEF L
      <3>3. CASE c2[g][j1] # new
        <4>1. PICK k1 \in 1 .. L : c2[g][j1] = c[g][k1] /\ j1 = (IF k1 < i THEN k1 ELSE k1 + 1)
          BY <3>1, <3>3, <2>1
        <4>2. PICK k2 \in 1 .. L : c2[g][j2] = c[g][k2] /\ j2 = (IF k2 < i THEN k2 ELSE k2 + 1)
          BY <3>1, <3>3, <2>1, <2>6
        <4>3. k1 = k2
          BY <4>1, <4>2, <2>6, OnePlace DEF L
        <4> QED BY <4>1, <4>2, <4>3, <2>6
      <3> QED BY <3>2, <3>3
    <2> QED BY <2>3, <2>4, <2>5, <2>6
  <1>9. \A n \in Node : In(c2, n) <=> In(c, n) \/ n = new
    <2>1. ASSUME NEW k \in 1 .. L PROVE \E j \in 1 .. L + 1 : c2[g][j] = c[g][k]
      <3>1. CASE k < i
        BY <3>1, <1>1 DEF L
      <3>2. CASE k >= i
        <4>1. k + 1 \in 1 .. L + 1 /\ ~ (k + 1 < i) /\ k + 1 # i /\ (k + 1) - 1 = k
          BY <3>2, <1>1
        <4> QED BY <4>1 DEF L
      <3> QED BY <3>1, <3>2, <1>1
    <2>2. ASSUME NEW j \in 1 .. L + 1 PROVE c2[g][j] = new \/ \E k \in 1 .. L : c2[g][j] = c[g][k]
      <3>1. CASE j > i
        <4>1. j - 1 \in 1 .. L
          BY <3>1, <1>1
        <4> QED BY <4>1, <3>1, <1>1 DEF L
      <3> QED BY <3>1, <1>1 DEF L
    <2>3. c2[g][i] = new /\ i \in 1 .. L + 1
      BY <1>1 DEF L
    <2>4. /\ 1 .. Len(c[g]) = 1 .. L /\ 1 .. Len(c2[g]) = 1 .. L + 1
          /\ \A h \in ListHead \ {g} : Len(c2[h]) = Len(c[h])
      BY DEF L
    <2>5. ASSUME NEW n \in Node, In(c2, n) PROVE In(c, n) \/ n = new
      <3>1. PICK h \in ListHead : \E j \in 1 .. Len(c2[h]) : c2[h][j] = n
        BY <2>5 DEF In
      <3>2. CASE h = g
        <4>1. PICK j \in 1 .. L + 1 : c2[g][j] = n
          BY <3>1, <3>2, <2>4
        <4>2. c2[g][j] = new \/ \E k \in 1 .. Len(c[g]) : c2[g][j] = c[g][k]
          BY <2>2, <2>4
        <4> QED BY <4>1, <4>2, InLists
      <3> QED BY <3>1, <3>2, <2>4 DEF In
    <2>6. ASSUME NEW n \in Node, In(c, n) PROVE In(c2, n)
      <3>1. PICK h \in ListHead : \E j \in 1 .. Len(c[h]) : c[h][j] = n
        BY <2>6 DEF In
      <3>2. CASE h = g
        <4>1. PICK j \in 1 .. L : c[g][j] = n
          BY <3>1, <3>2, <2>4
        <4>2. \E k \in 1 .. Len(c2[g]) : c2[g][k] = c[g][j]
          BY <2>1, <2>4
        <4> QED BY <4>1, <4>2, InLists
      <3> QED BY <3>1, <3>2, <2>4 DEF In
    <2> QED BY <2>3, <2>4, <2>5, <2>6 DEF In
  <1> QED BY <1>7, <1>8, <1>9 DEF Circles, a, b, nx2, pv2

\* The node at place i goes out of the list of g.
Removed(c, c2, g, i) ==
  /\ \A h \in ListHead \ {g} : c2[h] = c[h]
  /\ Len(c2[g]) = Len(c[g]) - 1
  /\ \A j \in 1 .. Len(c[g]) - 1 : c2[g][j] = IF j < i THEN c[g][j] ELSE c[g][j + 1]

LEMMA Removal ==
  ASSUME NEW nx, NEW pv, Heap(nx, pv), NEW c, Sequences(c), Once(c), Circles(nx, pv, c),
         NEW g \in ListHead, NEW i \in 1 .. Len(c[g]),
         NEW c2, Sequences(c2), Removed(c, c2, g, i)
  PROVE  /\ Once(c2)
         /\ Circles([nx EXCEPT ![Place(c, g, i - 1)] = Place(c, g, i + 1)],
                    [pv EXCEPT ![Place(c, g, i + 1)] = Place(c, g, i - 1)], c2)
         /\ \A n \in Node : In(c2, n) <=> In(c, n) /\ n # c[g][i]
  <1> USE DEF Removed
  <1> DEFINE a == Place(c, g, i - 1)
             b == Place(c, g, i + 1)
             nx2 == [nx EXCEPT ![a] = b]
             pv2 == [pv EXCEPT ![b] = a]
             L == Len(c[g])
  <1>1. L \in Nat /\ i \in 1 .. L /\ i - 1 \in 0 .. L /\ i + 1 \in 1 .. L + 1
    BY Lengths
  <1>2. a \in AnyNode /\ b \in AnyNode
    BY <1>1, PlaceType
  <1>3. /\ nx2[a] = b /\ \A n \in AnyNode \ {a} : nx2[n] = nx[n]
        /\ pv2[b] = a /\ \A n \in AnyNode \ {b} : pv2[n] = pv[n]
    BY <1>2 DEF Heap
  <1>4. \A j \in 0 .. L : Place(c2, g, j) = IF j < i THEN Place(c, g, j) ELSE Place(c, g, j + 1)
    <2> SUFFICES ASSUME NEW j \in 0 .. L
                 PROVE  Place(c2, g, j) = IF j < i THEN Place(c, g, j) ELSE Place(c, g, j + 1)
      OBVIOUS
    <2>1. CASE j = 0 \/ j = L
      BY <2>1, <1>1 DEF Place
    <2>2. CASE j \in 1 .. L - 1
      BY <2>2, <1>1 DEF Place
    <2> QED BY <2>1, <2>2, <1>1
  <1>5. \A h \in ListHead \ {g} : \A j : Place(c2, h, j) = Place(c, h, j)
    BY DEF Place
  <1>6. ASSUME NEW h \in ListHead, NEW j \in 0 .. Len(c[h])
        PROVE  /\ nx[Place(c, h, j)] = Place(c, h, j + 1)
               /\ pv[Place(c, h, j + 1)] = Place(c, h, j)
               /\ ~ (h = g /\ j = i - 1) => Place(c, h, j) \in AnyNode \ {a}
               /\ ~ (h = g /\ j = i) => Place(c, h, j + 1) \in AnyNode \ {b}
    <2>1. j + 1 \in 1 .. Len(c[h]) + 1 /\ Len(c[h]) \in Nat
      BY <1>6, Lengths
    <2>2. /\ ~ (h = g /\ j = i - 1) => Place(c, h, j) # a
          /\ ~ (h = g /\ j = i) => Place(c, h, j + 1) # b
      BY <2>1, <1>1, PlacesDiffer
    <2>3. nx[Place(c, h, j)] = Place(c, h, j + 1) /\ pv[Place(c, h, j + 1)] = Place(c, h, j)
      BY DEF Circles
    <2>4. Place(c, h, j) \in AnyNode /\ Place(c, h, j + 1) \in AnyNode
      BY <2>1, PlaceType
    <2> QED BY <2>2, <2>3, <2>4
  <1> HIDE DEF a, b, nx2, pv2, L
  <1>7. ASSUME NEW h \in ListHead, NEW j \in 0 .. Len(c2[h])
        PROVE  /\ nx2[Place(c2, h, j)] = Place(c2, h, j + 1)
               /\ pv2[Place(c2, h, j + 1)] = Place(c2, h, j)
    <2>1. CASE h # g
      <3>1. j \in 0 .. Len(c[h]) /\ Len(c[h]) \in Nat
        BY <2>1, Lengths
      <3> QED BY <2>1, <3>1, <1>3, <1>5, <1>6
    <2>2. CASE h = g
      <3>1. j \in 0 .. L - 1
        BY <2>2, <1>1 DEF L
      <3>2. CASE j < i - 1
        <4>1. Place(c2, g, j) = Place(c, g, j) /\ Place(c2, g, j + 1) = Place(c, g, j + 1)
          <5>1. j \in 0 .. L /\ j < i /\ j + 1 \in 0 .. L /\ j + 1 < i
            BY <3>1, <3>2, <1>1
          <5> HIDE DEF Place, Removed
          <5> QED BY <5>1, <1>4
        <4>2. j \in 0 .. L /\ j # i - 1 /\ j # i
          BY <3>1, <3>2, <1>1
        <4>3. L = Len(c[g])
          BY DEF L
        <4> QED BY <4>1, <4>2, <4>3, <1>3, <1>6, <2>2, SMTT(30)
      <3>3. CASE j = i - 1
        <4>1. Place(c2, g, j) = a /\ Place(c2, g, j + 1) = b
          BY <3>1, <3>3, <1>1, <1>4 DEF a, b
        <4> QED BY <4>1, <1>3, <2>2
      <3>4. CASE j >= i
        <4>1. /\ Place(c2, g, j) = Place(c, g, j + 1)
              /\ Place(c2, g, j + 1) = Place(c, g, (j + 1) + 1)
          BY <3>1, <3>4, <1>1, <1>4
        <4>2. PICK k \in 0 .. Len(c[g]) : k = j + 1 /\ k # i - 1 /\ k # i
          BY <3>1, <3>4, <1>1 DEF L
        <4> QED BY <4>1, <4>2, <1>3, <1>6, <2>2
      <3> QED BY <3>1, <1>1, <3>2, <3>3, <3>4
    <2> QED BY <2>1, <2>2
  <1>8. ASSUME NEW h \in ListHead, NEW j \in 1 .. Len(c2[h])
        PROVE  \E k \in 1 .. Len(c[h]) :
                 /\ c2[h][j] = c[h][k]
                 /\ ~ (h = g /\ k = i)
                 /\ j = IF h = g /\ k > i THEN k - 1 ELSE k
    <2>1. CASE h # g
      BY <2>1
    <2>2. CASE h = g /\ j < i
      <3>1. Len(c[g]) = L /\ j \in 1 .. Len(c[g]) - 1
        BY <2>2 DEF L
      <3>2. j \in 1 .. L /\ ~ (j > i) /\ j # i
        BY <2>2, <1>1, <3>1
      <3>3. c2[g][j] = c[g][j]
        BY <2>2, <3>1
      <3> QED BY <3>1, <3>2, <3>3, <2>2
    <2>3. CASE h = g /\ j >= i
      <3>1. /\ j + 1 \in 1 .. L /\ c2[g][j] = c[g][j + 1] /\ j + 1 > i /\ j + 1 # i
            /\ j = (j + 1) - 1
        BY <2>3, <1>1 DEF L
      <3> QED BY <3>1, <2>3 DEF L
    <2> QED BY <2>1, <2>2, <2>3, <1>1
  <1>9. Once(c2)
    <2> SUFFICES ASSUME NEW h1 \in ListHead, NEW h2 \in ListHead,
                        NEW j1 \in 1 .. Len(c2[h1]), NEW j2 \in 1 .. Len(c2[h2]),
                        c2[h1][j1] = c2[h2][j2]
                 PROVE  h1 = h2 /\ j1 = j2
      BY DEF Once
    <2>1. PICK k1 \in 1 .. Len(c[h1]) : /\ c2[h1][j1] = c[h1][k1]
                                        /\ j1 = IF h1 = g /\ k1 > i THEN k1 - 1 ELSE k1
      BY <1>8
    <2>2. PICK k2 \in 1 .. Len(c[h2]) : /\ c2[h2][j2] = c[h2][k2]
                                        /\ j2 = IF h2 = g /\ k2 > i THEN k2 - 1 ELSE k2
      BY <1>8
    <2>3. c[h1][k1] = c[h2][k2]
      BY <2>1, <2>2
    <2>4. h1 = h2 /\ k1 = k2
      BY <2>3, OnePlace
    <2> QED BY <2>1, <2>2, <2>4
  <1>10. ASSUME NEW n \in Node PROVE In(c2, n) <=> In(c, n) /\ n # c[g][i]
    <2>1. ASSUME In(c2, n) PROVE In(c, n) /\ n # c[g][i]
      <3>0. PICK h \in ListHead : \E j \in 1 .. Len(c2[h]) : c2[h][j] = n
        BY <2>1 DEF In
      <3>1. PICK j \in 1 .. Len(c2[h]) : c2[h][j] = n
        BY <3>0
      <3>2. PICK k \in 1 .. Len(c[h]) : c2[h][j] = c[h][k] /\ ~ (h = g /\ k = i)
        BY <1>8
      <3> QED BY <3>1, <3>2, OnePlace, InLists
    <2>2. ASSUME In(c, n), n # c[g][i] PROVE In(c2, n)
      <3>0. PICK h \in ListHead : \E k \in 1 .. Len(c[h]) : c[h][k] = n
        BY <2>2 DEF In
      <3>1. PICK k \in 1 .. Len(c[h]) : c[h][k] = n
        BY <3>0
      <3>2. CASE h # g
        BY <3>1, <3>2, InLists
      <3>3. CASE h = g /\ k < i
        <4>1. k \in 1 .. Len(c2[g]) /\ c2[g][k] = n
          BY <3>1, <3>3, <1>1 DEF L
        <4> QED BY <4>1, InLists
      <3>4. CASE h = g /\ k > i
        <4>1. /\ k - 1 \in 1 .. Len(c2[g]) /\ ~ (k - 1 < i) /\ (k - 1) + 1 = k
              /\ k - 1 \in 1 .. Len(c[g]) - 1
          BY <3>1, <3>4, <1>1 DEF L
        <4>2. c2[g][k - 1] = n
          BY <4>1, <3>1, <3>4
        <4> QED BY <4>1, <4>2, InLists
      <3> QED BY <3>2, <3>3, <3>4, <3>1, <2>2, <1>1 DEF L
    <2> QED BY <2>1, <2>2
  <1> QED BY <1>7, <1>9, <1>10 DEF Circles, a, b, nx2, pv2

\* The list of g goes to the front of the list of h, and g is empty.
Spliced(c, c2, g, h) ==
  /\ \A k \in ListHead \ {g, h} : c2[k] = c[k]
  /\ Len(c2[g]) = 0 /\ Len(c2[h]) = Len(c[g]) + Len(c[h])
  /\ \A j \in 1 .. Len(c[g]) + Len(c[h]) :
       c2[h][j] = IF j <= Len(c[g]) THEN c[g][j] ELSE c[h][j - Len(c[g])]

LEMMA Splicing ==
  ASSUME NEW nx, NEW pv, Heap(nx, pv), NEW c, Sequences(c), Once(c), Circles(nx, pv, c),
         NEW g \in ListHead, NEW h \in ListHead, g # h, Len(c[g]) > 0,
         NEW c2, Sequences(c2), Spliced(c, c2, g, h)
  PROVE  /\ Once(c2)
         /\ Circles([nx EXCEPT ![h] = nx[g], ![pv[g]] = nx[h], ![g] = g],
                    [pv EXCEPT ![nx[g]] = h, ![nx[h]] = pv[g], ![g] = g], c2)
         /\ \A n \in Node : In(c2, n) <=> In(c, n)
  <1> DEFINE first == nx[g]
             last == pv[g]
             rest == nx[h]
             nx2 == [nx EXCEPT ![h] = first, ![last] = rest, ![g] = g]
             pv2 == [pv EXCEPT ![first] = h, ![rest] = last, ![g] = g]
             L == Len(c[g])
             M == Len(c[h])
  <1>1. L \in Nat \ {0} /\ M \in Nat
    BY Lengths
  <1>a. Len(c[g]) = L /\ Len(c[h]) = M /\ Len(c2[g]) = 0 /\ Len(c2[h]) = L + M
    BY DEF Spliced
  <1>b. \A k \in ListHead \ {g, h} : c2[k] = c[k]
    BY DEF Spliced
  <1> HIDE DEF L, M
  <1>c. ASSUME NEW j \in 1 .. L PROVE c2[h][j] = c[g][j]
    <2>1. j \in 1 .. L + M /\ j <= L
      BY <1>1
    <2> QED BY <2>1, <1>a DEF Spliced
  <1>d. ASSUME NEW j \in 1 .. M PROVE j + L \in 1 .. L + M /\ c2[h][j + L] = c[h][j]
    <2>1. j + L \in 1 .. L + M /\ ~ (j + L <= L) /\ (j + L) - L = j
      BY <1>1
    <2> QED BY <2>1, <1>a DEF Spliced
  <1>e. /\ L \in 1 .. L /\ 1 \in 1 .. L /\ 0 \in 0 .. L /\ L \in 0 .. L /\ 0 \in 0 .. M
        /\ 1 \in 1 .. M + 1 /\ 1 \in 1 .. L + 1 /\ L + 1 \in 1 .. L + 1 /\ M + 1 \in 1 .. M + 1
        /\ L \in 0 .. L + 1 /\ 1 \in 0 .. L + 1 /\ 1 \in 0 .. M + 1
        /\ 0 + 1 = 1 /\ 1 # 0 /\ 1 # L + 1 /\ L # 0 /\ L # L + 1
    BY <1>1
  <1>2. /\ first = Place(c, g, 1) /\ first = c[g][1] /\ last = Place(c, g, L)
        /\ rest = Place(c, h, 1) /\ g = Place(c, g, 0) /\ g = Place(c, g, L + 1)
        /\ h = Place(c, h, 0) /\ h = Place(c, h, M + 1)
    <2>1. /\ g = Place(c, g, 0) /\ g = Place(c, g, L + 1) /\ h = Place(c, h, 0)
          /\ h = Place(c, h, M + 1) /\ Place(c, g, 1) = c[g][1]
      BY <1>a, <1>e DEF Place
    <2> QED BY <2>1, <1>a, <1>e DEF Circles
  <1>3. /\ first \in AnyNode /\ last \in AnyNode /\ rest \in AnyNode /\ g \in AnyNode /\ h \in AnyNode
        /\ g \notin {first, last, rest, h} /\ last # h /\ first # rest
    <2> HIDE DEF first, last, rest
    <2>1. g \in AnyNode /\ h \in AnyNode
      BY DEF AnyNode
    <2>2. /\ first \in AnyNode /\ last \in AnyNode
          /\ first \notin ListHead /\ last \notin ListHead
      BY <1>2, <1>a, <1>e, PlaceType
    <2>3. rest \in AnyNode /\ rest # g
      BY <1>2, <1>a, <1>e, PlaceType
    <2>4. first # rest
      BY <1>2, <1>a, <1>e, PlacesDiffer
    <2> QED BY <2>1, <2>2, <2>3, <2>4
  <1>4. /\ nx2[h] = first /\ nx2[last] = rest /\ nx2[g] = g
        /\ \A n \in AnyNode \ {h, last, g} : nx2[n] = nx[n]
        /\ pv2[first] = h /\ pv2[rest] = last /\ pv2[g] = g
        /\ \A n \in AnyNode \ {first, rest, g} : pv2[n] = pv[n]
    <2> HIDE DEF first, last, rest
    <2> QED BY <1>3 DEF Heap
  <1> HIDE DEF nx2, pv2
  <1>5. /\ Place(c2, g, 0) = g /\ Place(c2, g, 1) = g
        /\ Place(c2, h, 0) = h
        /\ \A j \in 1 .. L : Place(c2, h, j) = Place(c, g, j)
        /\ \A j \in 1 .. M + 1 : Place(c2, h, j + L) = Place(c, h, j)
    <2>1. Place(c2, g, 0) = g /\ Place(c2, g, 1) = g /\ Place(c2, h, 0) = h
      BY <1>a, <1>e DEF Place
    <2>2. ASSUME NEW j \in 1 .. L PROVE Place(c2, h, j) = Place(c, g, j)
      <3>1. j # 0 /\ j # L + 1 /\ j # L + M + 1
        BY <1>1
      <3> QED BY <3>1, <1>a, <1>c DEF Place
    <2>3. ASSUME NEW j \in 1 .. M PROVE Place(c2, h, j + L) = Place(c, h, j)
      <3>1. j # 0 /\ j # M + 1 /\ j + L # 0 /\ j + L # L + M + 1
        BY <1>1
      <3> QED BY <3>1, <1>a, <1>d DEF Place
    <2>4. Place(c2, h, (M + 1) + L) = Place(c, h, M + 1)
      <3>1. (M + 1) + L = (L + M) + 1
        BY <1>1
      <3> QED BY <3>1, <1>a DEF Place
    <2>5. \A j \in 1 .. M + 1 : j \in 1 .. M \/ j = M + 1
      BY <1>1
    <2> QED BY <2>1, <2>2, <2>3, <2>4, <2>5
  <1>6. \A k \in ListHead \ {g, h} : \A j : Place(c2, k, j) = Place(c, k, j)
    BY <1>b DEF Place
  <1>7. ASSUME NEW k \in ListHead, NEW j \in 0 .. Len(c[k])
        PROVE  /\ nx[Place(c, k, j)] = Place(c, k, j + 1)
               /\ pv[Place(c, k, j + 1)] = Place(c, k, j)
               /\ ~ (k = g /\ j \in {0, L}) /\ ~ (k = h /\ j = 0)
                    => /\ Place(c, k, j) \in AnyNode \ {h, last, g}
                       /\ Place(c, k, j + 1) \in AnyNode \ {first, rest, g}
    <2> HIDE DEF first, last, rest
    <2>1. /\ j + 1 \in 1 .. Len(c[k]) + 1 /\ j + 1 \in 0 .. Len(c[k]) + 1
          /\ j \in 0 .. Len(c[k]) + 1
      <3>1. Len(c[k]) \in Nat
        BY Lengths
      <3> QED BY <3>1
    <2>2. Place(c, k, j) \in AnyNode /\ Place(c, k, j + 1) \in AnyNode
      BY <2>1, PlaceType
    <2>4. /\ Place(c, k, j) = Place(c, g, 0) => k = g /\ j = 0
          /\ Place(c, k, j) = Place(c, g, L) => k = g /\ j = L
          /\ Place(c, k, j) = Place(c, h, 0) => k = h /\ j = 0
      BY <1>a, <1>e, PlacesDiffer
    <2>5. /\ Place(c, k, j + 1) = Place(c, g, L + 1) => k = g /\ j + 1 = L + 1
          /\ Place(c, k, j + 1) = Place(c, g, 1) => k = g /\ j + 1 = 1
          /\ Place(c, k, j + 1) = Place(c, h, 1) => k = h /\ j + 1 = 1
      BY <2>1, <1>a, <1>e, PlacesDiffer, SMTT(30)
    <2>6. (j + 1 = L + 1 => j = L) /\ (j + 1 = 1 => j = 0)
      BY <1>1
    <2>7. nx[Place(c, k, j)] = Place(c, k, j + 1) /\ pv[Place(c, k, j + 1)] = Place(c, k, j)
      BY DEF Circles
    <2> QED BY <1>2, <2>2, <2>4, <2>5, <2>6, <2>7
  <1> HIDE DEF first, last, rest
  <1>8. ASSUME NEW k \in ListHead, NEW j \in 0 .. Len(c2[k])
        PROVE  /\ nx2[Place(c2, k, j)] = Place(c2, k, j + 1)
               /\ pv2[Place(c2, k, j + 1)] = Place(c2, k, j)
    <2>1. CASE k \notin {g, h}
      <3>1. j \in 0 .. Len(c[k])
        BY <2>1, <1>b
      <3> QED BY <3>1, <2>1, <1>4, <1>6, <1>7
    <2>2. CASE k = g
      <3>1. j = 0 /\ j + 1 = 1
        BY <2>2, <1>a
      <3> QED BY <3>1, <2>2, <1>4, <1>5
    <2>3. CASE k = h
      <3>1. j \in 0 .. L + M
        BY <2>3, <1>a
      <3>2. CASE j = 0
        <4>1. Place(c2, h, j) = h /\ Place(c2, h, j + 1) = first
          BY <1>e, <1>2, <1>5, <3>2
        <4> QED BY <4>1, <1>4, <2>3
      <3>3. CASE j \in 1 .. L - 1
        <4>1. /\ j \in 1 .. L /\ j + 1 \in 1 .. L
              /\ j \in 0 .. L /\ j \notin {0, L} /\ g # h
          BY <1>1, <3>3
        <4>2. Place(c2, h, j) = Place(c, g, j) /\ Place(c2, h, j + 1) = Place(c, g, j + 1)
          BY <4>1, <1>5
        <4> QED BY <4>1, <4>2, <1>a, <1>4, <1>7, <2>3
      <3>4. CASE j = L
        <4>1. Place(c2, h, j) = last /\ Place(c2, h, j + 1) = rest
          <5>1. j + 1 = 1 + L
            BY <1>1, <3>4
          <5> QED BY <5>1, <1>e, <1>2, <1>5, <3>4
        <4> QED BY <4>1, <1>4, <2>3
      <3>5. CASE j > L
        <4>1. PICK i \in 1 .. M : j = i + L /\ j + 1 = (i + 1) + L
          <5>1. j - L \in 1 .. M /\ j = (j - L) + L /\ j + 1 = ((j - L) + 1) + L
            BY <1>1, <3>1, <3>5
          <5> QED BY <5>1
        <4>2. i \in 1 .. M + 1 /\ i + 1 \in 1 .. M + 1 /\ i \in 0 .. M /\ i # 0 /\ g # h
          BY <1>1
        <4>3. Place(c2, h, j) = Place(c, h, i) /\ Place(c2, h, j + 1) = Place(c, h, i + 1)
          BY <4>1, <4>2, <1>5
        <4> QED BY <4>2, <4>3, <1>a, <1>4, <1>7, <2>3
      <3> QED BY <3>1, <3>2, <3>3, <3>4, <3>5, <1>1
    <2> QED BY <2>1, <2>2, <2>3
  <1>9. ASSUME NEW k \in ListHead, NEW j \in 1 .. Len(c2[k])
        PROVE  \/ k \notin {g, h} /\ j \in 1 .. Len(c[k]) /\ c2[k][j] = c[k][j]
               \/ k = h /\ j \in 1 .. L /\ c2[k][j] = c[g][j]
               \/ k = h /\ \E i \in 1 .. M : j = i + L /\ c2[k][j] = c[h][i]
    <2>1. CASE k \notin {g, h}
      BY <2>1, <1>b
    <2>2. CASE k = g
      BY <2>2, <1>a
    <2>3. CASE k = h
      <3>1. j \in 1 .. L + M
        BY <2>3, <1>a
      <3>2. CASE j <= L
        <4>1. j \in 1 .. L
          BY <3>1, <3>2, <1>1
        <4> QED BY <4>1, <2>3, <1>c
      <3>3. CASE j > L
        <4>1. PICK i \in 1 .. M : j = i + L
          <5>1. j - L \in 1 .. M /\ j = (j - L) + L
            BY <3>1, <3>3, <1>1
          <5> QED BY <5>1
        <4> QED BY <4>1, <2>3, <1>d
      <3> QED BY <3>1, <3>2, <3>3, <1>1
    <2> QED BY <2>1, <2>2, <2>3
  <1>10. Once(c2)
    <2> DEFINE List(k, j) == IF k = h /\ j \in 1 .. L THEN g ELSE k
               Index(k, j) == IF k = h /\ j \notin 1 .. L THEN j - L ELSE j
    <2>1. ASSUME NEW k \in ListHead, NEW j \in 1 .. Len(c2[k])
          PROVE  /\ List(k, j) \in ListHead /\ Index(k, j) \in 1 .. Len(c[List(k, j)])
                 /\ c2[k][j] = c[List(k, j)][Index(k, j)]
                 /\ k = (IF List(k, j) = g THEN h ELSE List(k, j))
                 /\ j = (IF List(k, j) = h THEN Index(k, j) + L ELSE Index(k, j))
      <3>1. CASE k \notin {g, h} /\ j \in 1 .. Len(c[k]) /\ c2[k][j] = c[k][j]
        BY <3>1
      <3>2. CASE k = h /\ j \in 1 .. L /\ c2[k][j] = c[g][j]
        BY <3>2, <1>a
      <3>3. CASE k = h /\ \E i \in 1 .. M : j = i + L /\ c2[k][j] = c[h][i]
        <4>1. PICK i \in 1 .. M : j = i + L /\ c2[k][j] = c[h][i]
          BY <3>3
        <4>2. j \notin 1 .. L /\ j - L = i
          BY <4>1, <1>1
        <4> QED BY <4>1, <4>2, <3>3, <1>a
      <3> QED BY <3>1, <3>2, <3>3, <1>9
    <2> HIDE DEF List, Index
    <2> SUFFICES ASSUME NEW h1 \in ListHead, NEW h2 \in ListHead,
                        NEW j1 \in 1 .. Len(c2[h1]), NEW j2 \in 1 .. Len(c2[h2]),
                        c2[h1][j1] = c2[h2][j2]
                 PROVE  h1 = h2 /\ j1 = j2
      BY DEF Once
    <2>2. /\ List(h1, j1) \in ListHead /\ Index(h1, j1) \in 1 .. Len(c[List(h1, j1)])
          /\ c2[h1][j1] = c[List(h1, j1)][Index(h1, j1)]
          /\ h1 = (IF List(h1, j1) = g THEN h ELSE List(h1, j1))
          /\ j1 = (IF List(h1, j1) = h THEN Index(h1, j1) + L ELSE Index(h1, j1))
      BY <2>1
    <2>3. /\ List(h2, j2) \in ListHead /\ Index(h2, j2) \in 1 .. Len(c[List(h2, j2)])
          /\ c2[h2][j2] = c[List(h2, j2)][Index(h2, j2)]
          /\ h2 = (IF List(h2, j2) = g THEN h ELSE List(h2, j2))
          /\ j2 = (IF List(h2, j2) = h THEN Index(h2, j2) + L ELSE Index(h2, j2))
      BY <2>1
    <2>4. c[List(h1, j1)][Index(h1, j1)] = c[List(h2, j2)][Index(h2, j2)]
      BY <2>2, <2>3
    <2>5. List(h1, j1) = List(h2, j2) /\ Index(h1, j1) = Index(h2, j2)
      BY <2>2, <2>3, <2>4, OnePlace
    <2> QED BY <2>2, <2>3, <2>5
  <1>11. ASSUME NEW n \in Node PROVE In(c2, n) <=> In(c, n)
    <2>1. ASSUME In(c2, n) PROVE In(c, n)
      <3>0. PICK k \in ListHead : \E j \in 1 .. Len(c2[k]) : c2[k][j] = n
        BY <2>1 DEF In
      <3>1. PICK j \in 1 .. Len(c2[k]) : c2[k][j] = n
        BY <3>0
      <3>2. \/ \E i \in 1 .. Len(c[k]) : c[k][i] = n
            \/ \E i \in 1 .. Len(c[g]) : c[g][i] = n
            \/ \E i \in 1 .. Len(c[h]) : c[h][i] = n
        <4>1. CASE k \notin {g, h} /\ j \in 1 .. Len(c[k]) /\ c2[k][j] = c[k][j]
          BY <4>1, <3>1
        <4>2. CASE k = h /\ j \in 1 .. L /\ c2[k][j] = c[g][j]
          BY <4>2, <3>1, <1>a
        <4>3. CASE k = h /\ \E i \in 1 .. M : j = i + L /\ c2[k][j] = c[h][i]
          BY <4>3, <3>1, <1>a
        <4> QED BY <4>1, <4>2, <4>3, <1>9
      <3> QED BY <3>2, InLists
    <2>2. ASSUME In(c, n) PROVE In(c2, n)
      <3>0. PICK k \in ListHead : \E j \in 1 .. Len(c[k]) : c[k][j] = n
        BY <2>2 DEF In
      <3>1. PICK j \in 1 .. Len(c[k]) : c[k][j] = n
        BY <3>0
      <3>2. CASE k \notin {g, h}
        BY <3>1, <3>2, <1>b, InLists
      <3>3. CASE k = g
        <4>1. j \in 1 .. L /\ j \in 1 .. L + M
          BY <3>3, <1>a, <1>1
        <4>2. c2[h][j] = n
          BY <4>1, <3>1, <3>3, <1>c
        <4> QED BY <4>1, <4>2, <1>a, InLists
      <3>4. CASE k = h
        <4>1. j + L \in 1 .. L + M /\ c2[h][j + L] = n
          BY <3>1, <3>4, <1>a, <1>d
        <4> QED BY <4>1, <1>a, InLists
      <3> QED BY <3>2, <3>3, <3>4
    <2> QED BY <2>1, <2>2
  <1> QED BY <1>8, <1>10, <1>11 DEF Circles, first, last, rest, nx2, pv2

-----------------------------------------------------------------------------
(* What the loops over the lists see *)

LEMMA WalkSteps ==
  ASSUME Heap(next, prev), NEW h \in ListHead
  PROVE  \A n \in 0 .. Cardinality(AnyNode) :
           Walk(h)[n] = IF n = 0 THEN h ELSE next[Walk(h)[n - 1]]
  <1>1. PICK K \in Nat : K = Cardinality(AnyNode)
    BY NodeAssumption, FS_CardinalityType DEF AnyNode
  <1>2. PICK f \in [AnyNode -> AnyNode] : f = next
    BY DEF Heap
  <1>3. PICK w \in [0 .. K -> AnyNode] :
          \A n \in 0 .. K : w[n] = IF n = 0 THEN h ELSE f[w[n - 1]]
    <2>1. h \in AnyNode
      BY DEF AnyNode
    <2>2. Iterates(AnyNode)
      BY Iteration
    <2> QED BY <2>1, <2>2, ZenonT(30) DEF Iterates
  <1>4. w = [n \in 0 .. K |-> IF n = 0 THEN h ELSE f[w[n - 1]]]
    BY <1>3
  <1>5. \E v : v = [n \in 0 .. Cardinality(AnyNode) |-> IF n = 0 THEN h ELSE next[v[n - 1]]]
    BY <1>1, <1>2, <1>4
  <1>6. Walk(h) = [n \in 0 .. Cardinality(AnyNode) |->
                     IF n = 0 THEN h ELSE next[Walk(h)[n - 1]]]
    BY <1>5, Zenon DEF Walk
  <1>7. PICK v : v = Walk(h)
    OBVIOUS
  <1>8. v = [n \in 0 .. Cardinality(AnyNode) |-> IF n = 0 THEN h ELSE next[v[n - 1]]]
    BY <1>6, <1>7
  <1> QED BY <1>7, <1>8

\* The places of a list are different nodes, so there are enough of them.
LEMMA Room ==
  ASSUME NEW c, Sequences(c), Once(c), NEW h \in ListHead
  PROVE  Len(c[h]) + 1 <= Cardinality(AnyNode) /\ Cardinality(AnyNode) \in Nat
  <1> DEFINE L == Len(c[h])
             f == [i \in 0 .. L |-> Place(c, h, i)]
  <1>1. L \in Nat /\ Len(c[h]) = L
    BY Lengths
  <1> HIDE DEF L
  <1>2. IsFiniteSet(AnyNode)
    BY NodeAssumption DEF AnyNode
  <1>3. \A i \in 0 .. L : Place(c, h, i) \in AnyNode
    <2>1. \A i \in 0 .. L : i \in 0 .. L + 1
      BY <1>1
    <2> QED BY <2>1, <1>1, PlaceType
  <1>4. \A i, j \in 0 .. L : Place(c, h, i) = Place(c, h, j) => i = j
    BY <1>1, PlacesDiffer
  <1>5. f \in Injection(0 .. L, AnyNode)
    BY <1>3, <1>4, Fun_IsInj
  <1>6. Cardinality(0 .. L) <= Cardinality(AnyNode)
    <2> HIDE DEF f
    <2> QED BY <1>2, <1>5, FS_Injection
  <1>7. Cardinality(0 .. L) = L + 1
    BY <1>1, FS_Interval
  <1> QED BY <1>1, <1>2, <1>6, <1>7, FS_CardinalityType

LEMMA WalkIsPlace ==
  ASSUME NEW c, Represents(c), NEW h \in ListHead
  PROVE  \A n \in 0 .. Len(c[h]) + 1 : Walk(h)[n] = Place(c, h, n)
  <1> DEFINE L == Len(c[h])
             K == Cardinality(AnyNode)
             S == {n \in Nat : n <= L + 1 => Walk(h)[n] = Place(c, h, n)}
  <1>1. L \in Nat /\ K \in Nat /\ L + 1 <= K /\ Len(c[h]) = L
    BY Lengths, Room DEF Represents
  <1>2. \A n \in 0 .. K : Walk(h)[n] = IF n = 0 THEN h ELSE next[Walk(h)[n - 1]]
    BY WalkSteps DEF Represents
  <1> HIDE DEF L, K
  <1>3. 0 \in S
    BY <1>1, <1>2 DEF Place
  <1>4. ASSUME NEW n \in S PROVE n + 1 \in S
    <2>1. CASE n + 1 <= L + 1
      <3>1. n \in Nat /\ n <= L + 1 /\ n + 1 \in 0 .. K /\ n + 1 # 0 /\ (n + 1) - 1 = n /\ n \in 0 .. L
        BY <1>1, <2>1
      <3>2. Walk(h)[n] = Place(c, h, n)
        BY <3>1
      <3>3. Walk(h)[n + 1] = next[Walk(h)[n]]
        BY <3>1, <1>2
      <3>4. next[Place(c, h, n)] = Place(c, h, n + 1)
        BY <3>1, <1>1 DEF Represents, Circles
      <3> QED BY <3>1, <3>2, <3>3, <3>4
    <2> QED BY <2>1
  <1>5. S = Nat
    <2> HIDE DEF S
    <2>1. S \in SUBSET Nat
      BY DEF S
    <2> QED BY <1>3, <1>4, <2>1, SetInduction
  <1>6. ASSUME NEW n \in 0 .. L + 1 PROVE Walk(h)[n] = Place(c, h, n)
    <2>1. n \in Nat /\ n <= L + 1
      BY <1>1
    <2> QED BY <2>1, <1>5
  <1> QED BY <1>6, <1>1

LEMMA SizeIsLength ==
  ASSUME NEW c, Represents(c), NEW h \in ListHead
  PROVE  list_size(h) = Len(c[h])
  <1> DEFINE L == Len(c[h])
             K == Cardinality(AnyNode)
             ends == {n \in 1 .. K : Walk(h)[n] = h}
  <1>1. L \in Nat /\ K \in Nat /\ L + 1 <= K /\ Len(c[h]) = L
    BY Lengths, Room DEF Represents
  <1>2. ASSUME NEW n \in 1 .. L PROVE Walk(h)[n] # h
    <2>1. n \in 0 .. Len(c[h]) + 1 /\ n \notin {0, Len(c[h]) + 1}
      BY <1>1
    <2>2. Place(c, h, n) # h
      BY <2>1, PlaceType DEF Represents
    <2> QED BY <2>1, <2>2, WalkIsPlace
  <1>3. Walk(h)[L + 1] = h
    <2>1. L + 1 \in 0 .. Len(c[h]) + 1
      BY <1>1
    <2> QED BY <2>1, <1>1, WalkIsPlace DEF Place
  <1> HIDE DEF L
  <1>4. L + 1 \in ends /\ \A n \in ends : L + 1 <= n
    <2> HIDE DEF K
    <2> QED BY <1>1, <1>2, <1>3
  <1>5. ends \subseteq Nat
    <2> HIDE DEF K
    <2> QED BY <1>1
  <1> DEFINE least == CHOOSE n \in ends : \A m \in ends : n <= m
  <1>6. list_size(h) = least - 1
    BY <1>4, Zenon DEF list_size
  <1> HIDE DEF ends
  <1>7. least = L + 1
    <2>1. \A n \in ends : (\A m \in ends : n <= m) => n = L + 1
      BY <1>4, <1>5, <1>1
    <2> QED BY <2>1, <1>4
  <1> HIDE DEF least
  <1> QED BY <1>1, <1>6, <1>7

LEMMA ContentsIs ==
  ASSUME NEW c, Represents(c)
  PROVE  Contents = c
  <1>1. ASSUME NEW h \in ListHead
        PROVE  [i \in 1 .. list_size(h) |-> Walk(h)[i]] = c[h]
    <2>1. list_size(h) = Len(c[h])
      BY SizeIsLength
    <2>2. Len(c[h]) \in Nat /\ c[h] \in Seq(Node) /\ Sequences(c)
      BY Lengths DEF Represents
    <2>3. ASSUME NEW i \in 1 .. Len(c[h]) PROVE Walk(h)[i] = c[h][i]
      <3>1. i \in 0 .. Len(c[h]) + 1 /\ i # 0 /\ i # Len(c[h]) + 1
        BY <2>2
      <3> QED BY <3>1, WalkIsPlace DEF Place
    <2>4. c[h] = [i \in 1 .. Len(c[h]) |-> c[h][i]]
      BY <2>2, LenProperties
    <2> QED BY <2>1, <2>3, <2>4
  <1>2. c \in [ListHead -> Seq(Node)]
    BY DEF Represents, Sequences
  <1> QED BY <1>1, <1>2 DEF Contents

-----------------------------------------------------------------------------
(* What the operations do to the sequences *)

LEMMA InsertAtFacts ==
  ASSUME NEW s \in Seq(Node), NEW i \in 1 .. Len(s) + 1, NEW n \in Node
  PROVE  /\ InsertAt(s, i, n) \in Seq(Node)
         /\ Len(InsertAt(s, i, n)) = Len(s) + 1
         /\ \A j \in 1 .. Len(s) + 1 :
              InsertAt(s, i, n)[j] = IF j < i THEN s[j] ELSE IF j = i THEN n ELSE s[j - 1]
  <1> DEFINE L == Len(s)
             front == SubSeq(s, 1, i - 1)
             back == SubSeq(s, i, L)
             left == front \o <<n>>
  <1>1. L \in Nat /\ i \in 1 .. L + 1 /\ Len(s) = L /\ \A j \in 1 .. L : s[j] \in Node
    BY LenProperties, ElementOfSeq
  <1> HIDE DEF L
  <1>2. /\ front \in Seq(Node) /\ Len(front) = i - 1
        /\ \A j \in 1 .. i - 1 : front[j] = s[j]
    <2>1. /\ \A j \in 1 .. i - 1 : s[j] \in Node
          /\ i - 1 \in Int /\ (1 <= i - 1 => (i - 1) - 1 + 1 = i - 1)
          /\ (~ (1 <= i - 1) => i - 1 = 0)
          /\ 1 .. (i - 1) - 1 + 1 = 1 .. i - 1
          /\ \A j \in 1 .. i - 1 : 1 + j - 1 = j
      BY <1>1
    <2> QED BY <2>1, SubSeqProperties
  <1>3. /\ back \in Seq(Node) /\ Len(back) = (L - i) + 1
        /\ \A j \in 1 .. (L - i) + 1 : back[j] = s[(i + j) - 1]
    <2>1. /\ \A j \in i .. L : s[j] \in Node
          /\ i \in Int /\ L \in Int /\ (~ (i <= L) => (L - i) + 1 = 0)
      BY <1>1
    <2> QED BY <2>1, SubSeqProperties
  <1> HIDE DEF front, back
  <1>4. /\ left \in Seq(Node) /\ Len(left) = i
        /\ \A j \in 1 .. i : left[j] = IF j < i THEN s[j] ELSE n
    <2>1. left \in Seq(Node) /\ Len(left) = Len(front) + 1
          /\ \A j \in 1 .. Len(front) + 1 : left[j] = IF j <= Len(front) THEN front[j] ELSE n
      BY <1>2
    <2>2. (i - 1) + 1 = i /\ \A j \in 1 .. i : j <= i - 1 <=> j < i
      BY <1>1
    <2>3. \A j \in 1 .. i : j < i => j \in 1 .. i - 1
      BY <1>1
    <2> HIDE DEF left
    <2> QED BY <1>2, <2>1, <2>2, <2>3
  <1> HIDE DEF left
  <1>5. /\ left \o back \in Seq(Node) /\ Len(left \o back) = i + ((L - i) + 1)
        /\ \A j \in 1 .. i + ((L - i) + 1) :
             (left \o back)[j] = IF j <= i THEN left[j] ELSE back[j - i]
    <2>1. /\ left \o back \in Seq(Node) /\ Len(left \o back) = Len(left) + Len(back)
          /\ \A j \in 1 .. Len(left) + Len(back) :
               (left \o back)[j] = IF j <= Len(left) THEN left[j] ELSE back[j - Len(left)]
      BY <1>3, <1>4, ConcatProperties
    <2> QED BY <2>1, <1>3, <1>4
  <1>6. InsertAt(s, i, n) = left \o back
    BY <1>1 DEF InsertAt, left, front, back
  <1>7. ASSUME NEW j \in 1 .. L + 1
        PROVE  (left \o back)[j] = IF j < i THEN s[j] ELSE IF j = i THEN n ELSE s[j - 1]
    <2>1. j \in 1 .. i + ((L - i) + 1)
      BY <1>1
    <2>2. CASE j <= i
      <3>1. j \in 1 .. i /\ (~ (j < i) => j = i)
        BY <1>1, <2>2
      <3> QED BY <3>1, <2>1, <2>2, <1>4, <1>5
    <2>3. CASE j > i
      <3>1. /\ ~ (j <= i) /\ ~ (j < i) /\ j # i /\ j - i \in 1 .. (L - i) + 1
            /\ (i + (j - i)) - 1 = j - 1
        BY <1>1, <2>3
      <3> QED BY <3>1, <2>1, <1>3, <1>5
    <2>4. j <= i \/ j > i
      BY <1>1
    <2> QED BY <2>2, <2>3, <2>4
  <1>8. i + ((L - i) + 1) = L + 1
    BY <1>1
  <1> QED BY <1>1, <1>5, <1>6, <1>7, <1>8

LEMMA RemoveAtFacts ==
  ASSUME NEW s \in Seq(Node), NEW i \in 1 .. Len(s)
  PROVE  /\ RemoveAt(s, i) \in Seq(Node)
         /\ Len(RemoveAt(s, i)) = Len(s) - 1
         /\ \A j \in 1 .. Len(s) - 1 :
              RemoveAt(s, i)[j] = IF j < i THEN s[j] ELSE s[j + 1]
  <1> DEFINE L == Len(s)
             front == SubSeq(s, 1, i - 1)
             back == SubSeq(s, i + 1, L)
  <1>1. L \in Nat /\ i \in 1 .. L /\ Len(s) = L /\ \A j \in 1 .. L : s[j] \in Node
    BY LenProperties, ElementOfSeq
  <1> HIDE DEF L
  <1>2. /\ front \in Seq(Node) /\ Len(front) = i - 1
        /\ \A j \in 1 .. i - 1 : front[j] = s[j]
    <2>1. /\ \A j \in 1 .. i - 1 : s[j] \in Node
          /\ i - 1 \in Int /\ (1 <= i - 1 => (i - 1) - 1 + 1 = i - 1)
          /\ (~ (1 <= i - 1) => i - 1 = 0)
          /\ 1 .. (i - 1) - 1 + 1 = 1 .. i - 1
          /\ \A j \in 1 .. i - 1 : 1 + j - 1 = j
      BY <1>1
    <2> QED BY <2>1, SubSeqProperties
  <1>3. /\ back \in Seq(Node) /\ Len(back) = L - i
        /\ \A j \in 1 .. L - i : back[j] = s[i + j]
    <2>1. /\ \A j \in i + 1 .. L : s[j] \in Node
          /\ i + 1 \in Int /\ L \in Int /\ (~ (i + 1 <= L) => L - i = 0)
          /\ (L - (i + 1)) + 1 = L - i /\ \A j \in 1 .. L - i : ((i + 1) + j) - 1 = i + j
      BY <1>1
    <2> QED BY <2>1, SubSeqProperties
  <1> HIDE DEF front, back
  <1>4. /\ front \o back \in Seq(Node) /\ Len(front \o back) = (i - 1) + (L - i)
        /\ \A j \in 1 .. (i - 1) + (L - i) :
             (front \o back)[j] = IF j <= i - 1 THEN front[j] ELSE back[j - (i - 1)]
    <2>1. /\ front \o back \in Seq(Node) /\ Len(front \o back) = Len(front) + Len(back)
          /\ \A j \in 1 .. Len(front) + Len(back) :
               (front \o back)[j] = IF j <= Len(front) THEN front[j] ELSE back[j - Len(front)]
      BY <1>2, <1>3, ConcatProperties
    <2> QED BY <2>1, <1>2, <1>3
  <1>5. RemoveAt(s, i) = front \o back
    BY <1>1 DEF RemoveAt, front, back
  <1>6. ASSUME NEW j \in 1 .. L - 1
        PROVE  (front \o back)[j] = IF j < i THEN s[j] ELSE s[j + 1]
    <2>1. j \in 1 .. (i - 1) + (L - i)
      BY <1>1
    <2>2. CASE j < i
      <3>1. j \in 1 .. i - 1 /\ j <= i - 1
        BY <1>1, <2>2
      <3> QED BY <3>1, <2>1, <2>2, <1>2, <1>4
    <2>3. CASE j >= i
      <3>1. /\ ~ (j <= i - 1) /\ ~ (j < i) /\ j - (i - 1) \in 1 .. L - i
            /\ i + (j - (i - 1)) = j + 1
        BY <1>1, <2>3
      <3> QED BY <3>1, <2>1, <1>3, <1>4
    <2>4. j < i \/ j >= i
      BY <1>1
    <2> QED BY <2>2, <2>3, <2>4
  <1>7. (i - 1) + (L - i) = L - 1
    BY <1>1
  <1> QED BY <1>1, <1>4, <1>5, <1>6, <1>7

\* At the ends of the list the new node is put at the front or appended.
LEMMA InsertAtEnds ==
  ASSUME NEW s \in Seq(Node), NEW n \in Node
  PROVE  /\ <<n>> \o s = InsertAt(s, 1, n)
         /\ Append(s, n) = InsertAt(s, Len(s) + 1, n)
  <1>1. Len(s) \in Nat /\ 1 \in 1 .. Len(s) + 1 /\ Len(s) + 1 \in 1 .. Len(s) + 1
    OBVIOUS
  <1>2. <<n>> \o s = InsertAt(s, 1, n)
    <2>1. /\ <<n>> \o s \in Seq(Node) /\ Len(<<n>> \o s) = Len(s) + 1
          /\ \A j \in 1 .. Len(s) + 1 : (<<n>> \o s)[j] = IF j = 1 THEN n ELSE s[j - 1]
      OBVIOUS
    <2>2. /\ InsertAt(s, 1, n) \in Seq(Node) /\ Len(InsertAt(s, 1, n)) = Len(s) + 1
          /\ \A j \in 1 .. Len(s) + 1 : InsertAt(s, 1, n)[j] = IF j = 1 THEN n ELSE s[j - 1]
      BY <1>1, InsertAtFacts
    <2> DEFINE t == <<n>> \o s
    <2> HIDE DEF t
    <2> QED BY <2>1, <2>2, SeqEqual DEF t
  <1>3. Append(s, n) = InsertAt(s, Len(s) + 1, n)
    <2>1. /\ Append(s, n) \in Seq(Node) /\ Len(Append(s, n)) = Len(s) + 1
          /\ \A j \in 1 .. Len(s) + 1 : Append(s, n)[j] = IF j < Len(s) + 1 THEN s[j] ELSE n
      OBVIOUS
    <2>2. PICK k \in 1 .. Len(s) + 1 : k = Len(s) + 1
      BY <1>1
    <2>3. /\ InsertAt(s, k, n) \in Seq(Node) /\ Len(InsertAt(s, k, n)) = Len(s) + 1
          /\ \A j \in 1 .. Len(s) + 1 :
               InsertAt(s, k, n)[j] = IF j < k THEN s[j] ELSE IF j = k THEN n ELSE s[j - 1]
      BY InsertAtFacts
    <2>4. \A j \in 1 .. Len(s) + 1 : j < k \/ j = k
      BY <1>1, <2>2
    <2>5. \A j \in 1 .. Len(s) + 1 : Append(s, n)[j] = InsertAt(s, k, n)[j]
      BY <2>1, <2>2, <2>3, <2>4
    <2> QED BY <2>1, <2>2, <2>3, <2>5, SeqEqual
  <1> QED BY <1>2, <1>3

-----------------------------------------------------------------------------
(* What each operation does, as a step from sequences c to sequences c2 *)

Step(c, c2) ==
  \/ c2 = c
  \/ \E n \in Node, h \in ListHead :
       /\ ~ In(c, n)
       /\ \/ c2 = [c EXCEPT ![h] = <<n>> \o @]
          \/ c2 = [c EXCEPT ![h] = Append(@, n)]
          \/ \E i \in DOMAIN c[h] : c2 = [c EXCEPT ![h] = InsertAt(@, i, n)]
  \/ \E h \in ListHead : \E i \in DOMAIN c[h] : c2 = [c EXCEPT ![h] = RemoveAt(@, i)]
  \/ \E g, h \in ListHead : g # h /\ c2 = [c EXCEPT ![g] = <<>>, ![h] = c[g] \o @]

LEMMA Inserting ==
  ASSUME NEW c, Represents(c), NEW n \in Node, ~ In(c, n),
         NEW g \in ListHead, NEW i \in 1 .. Len(c[g]) + 1,
         list_insert(n, Place(c, g, i - 1), Place(c, g, i)), linked' = linked \cup {n}
  PROVE  Represents([c EXCEPT ![g] = InsertAt(@, i, n)])'
  <1> DEFINE c2 == [c EXCEPT ![g] = InsertAt(@, i, n)]
  <1>1. /\ Heap(next, prev) /\ Sequences(c) /\ Once(c) /\ Circles(next, prev, c)
        /\ Listing(linked, c)
    BY DEF Represents
  <1>2. c[g] \in Seq(Node) /\ c \in [ListHead -> Seq(Node)]
    BY <1>1 DEF Sequences
  <1>3. c2[g] = InsertAt(c[g], i, n) /\ \A h \in ListHead \ {g} : c2[h] = c[h]
    BY <1>2
  <1>4. Sequences(c2)
    <2>1. InsertAt(c[g], i, n) \in Seq(Node)
      BY <1>2, InsertAtFacts
    <2> QED BY <2>1, <1>2 DEF Sequences
  <1>5. Inserted(c, c2, g, i, n)
    BY <1>2, <1>3, InsertAtFacts DEF Inserted
  <1> HIDE DEF c2
  <1>6. /\ next' = [next EXCEPT ![n] = Place(c, g, i), ![Place(c, g, i - 1)] = n]
        /\ prev' = [prev EXCEPT ![n] = Place(c, g, i - 1), ![Place(c, g, i)] = n]
    BY DEF list_insert
  <1>7. /\ Once(c2) /\ Circles(next', prev', c2)
        /\ \A m \in Node : In(c2, m) <=> In(c, m) \/ m = n
    BY <1>1, <1>4, <1>5, <1>6, Insertion
  <1>8. Heap(next', prev')
    <2>1. i - 1 \in 0 .. Len(c[g]) + 1 /\ i \in 0 .. Len(c[g]) + 1
      BY <1>1, Lengths
    <2>2. n \in AnyNode /\ Place(c, g, i - 1) \in AnyNode /\ Place(c, g, i) \in AnyNode
      BY <2>1, <1>1, PlaceType DEF AnyNode
    <2> QED BY <2>2, <1>1, <1>6 DEF Heap
  <1>9. Listing(linked', c2)
    BY <1>1, <1>7 DEF Listing
  <1> QED BY <1>4, <1>7, <1>8, <1>9 DEF Represents, c2

LEMMA Removing ==
  ASSUME NEW c, Represents(c), NEW g \in ListHead, NEW i \in 1 .. Len(c[g]), list_del(c[g][i])
  PROVE  Represents([c EXCEPT ![g] = RemoveAt(@, i)])'
  <1> DEFINE c2 == [c EXCEPT ![g] = RemoveAt(@, i)]
  <1>1. /\ Heap(next, prev) /\ Sequences(c) /\ Once(c) /\ Circles(next, prev, c)
        /\ Listing(linked, c)
    BY DEF Represents
  <1>2. c[g] \in Seq(Node) /\ c \in [ListHead -> Seq(Node)]
    BY <1>1 DEF Sequences
  <1>3. c2[g] = RemoveAt(c[g], i) /\ \A h \in ListHead \ {g} : c2[h] = c[h]
    BY <1>2
  <1>4. Sequences(c2)
    <2>1. RemoveAt(c[g], i) \in Seq(Node)
      BY <1>2, RemoveAtFacts
    <2> QED BY <2>1, <1>2 DEF Sequences
  <1>5. Removed(c, c2, g, i)
    BY <1>2, <1>3, RemoveAtFacts DEF Removed
  <1> HIDE DEF c2
  <1>6. /\ i - 1 \in 0 .. Len(c[g]) /\ i - 1 + 1 = i /\ i \in 0 .. Len(c[g])
        /\ i - 1 \in 0 .. Len(c[g]) + 1 /\ i + 1 \in 0 .. Len(c[g]) + 1
        /\ i # 0 /\ i # Len(c[g]) + 1
    <2>1. PICK L \in Nat : L = Len(c[g]) /\ i \in 1 .. L
      BY <1>1, Lengths
    <2>2. /\ i - 1 \in 0 .. L /\ i - 1 + 1 = i /\ i \in 0 .. L
          /\ i - 1 \in 0 .. L + 1 /\ i + 1 \in 0 .. L + 1 /\ i # 0 /\ i # L + 1
      BY <2>1
    <2> QED BY <2>1, <2>2
  <1>7. /\ next[c[g][i]] = Place(c, g, i + 1) /\ prev[c[g][i]] = Place(c, g, i - 1)
    <2>1. Place(c, g, i) = c[g][i]
      BY <1>6 DEF Place
    <2>2. PICK k \in 0 .. Len(c[g]) : k = i - 1 /\ k + 1 = i
      BY <1>6
    <2>3. prev[Place(c, g, k + 1)] = Place(c, g, k) /\ next[Place(c, g, i)] = Place(c, g, i + 1)
      BY <1>1, <1>6 DEF Circles
    <2> QED BY <2>1, <2>2, <2>3
  <1>8. /\ next' = [next EXCEPT ![Place(c, g, i - 1)] = Place(c, g, i + 1)]
        /\ prev' = [prev EXCEPT ![Place(c, g, i + 1)] = Place(c, g, i - 1)]
        /\ linked' = linked \ {c[g][i]}
    BY <1>7 DEF list_del
  <1>9. /\ Once(c2) /\ Circles(next', prev', c2)
        /\ \A m \in Node : In(c2, m) <=> In(c, m) /\ m # c[g][i]
    BY <1>1, <1>4, <1>5, <1>8, Removal
  <1>10. Heap(next', prev')
    <2>1. Place(c, g, i - 1) \in AnyNode /\ Place(c, g, i + 1) \in AnyNode
      BY <1>6, <1>1, PlaceType
    <2> QED BY <2>1, <1>1, <1>8 DEF Heap
  <1>11. Listing(linked', c2)
    BY <1>1, <1>8, <1>9 DEF Listing
  <1> QED BY <1>4, <1>9, <1>10, <1>11 DEF Represents, c2

LEMMA SplicingSteps ==
  ASSUME NEW c, Represents(c), NEW g \in ListHead, NEW h \in ListHead, list_splice(g, h)
  PROVE  Represents([c EXCEPT ![g] = <<>>, ![h] = c[g] \o @])'
  <1> DEFINE c2 == [c EXCEPT ![g] = <<>>, ![h] = c[g] \o @]
  <1>1. /\ Heap(next, prev) /\ Sequences(c) /\ Once(c) /\ Circles(next, prev, c)
        /\ Listing(linked, c)
    BY DEF Represents
  <1>2. c[g] \in Seq(Node) /\ c[h] \in Seq(Node) /\ c \in [ListHead -> Seq(Node)] /\ g # h
    BY <1>1 DEF Sequences, list_splice
  <1>3. /\ c2[g] = <<>> /\ c2[h] = c[g] \o c[h]
        /\ \A k \in ListHead \ {g, h} : c2[k] = c[k]
    BY <1>2
  <1>4. Sequences(c2)
    <2>1. <<>> \in Seq(Node) /\ c[g] \o c[h] \in Seq(Node)
      BY <1>2, EmptySeq, ConcatProperties
    <2> QED BY <2>1, <1>2 DEF Sequences
  <1>5. Len(c[g]) > 0
    <2> SUFFICES ASSUME Len(c[g]) = 0 PROVE FALSE
      BY <1>2
    <2>1. next[Place(c, g, 0)] = Place(c, g, 1)
      BY <1>1 DEF Circles
    <2> QED BY <2>1 DEF Place, list_splice, list_empty
  <1>6. Spliced(c, c2, g, h)
    BY <1>2, <1>3, ConcatProperties, EmptySeq DEF Spliced
  <1> HIDE DEF c2
  <1>7. /\ next' = [next EXCEPT ![h] = next[g], ![prev[g]] = next[h], ![g] = g]
        /\ prev' = [prev EXCEPT ![next[g]] = h, ![next[h]] = prev[g], ![g] = g]
        /\ linked' = linked
    BY DEF list_splice
  <1>8. /\ Once(c2) /\ Circles(next', prev', c2)
        /\ \A m \in Node : In(c2, m) <=> In(c, m)
    BY <1>1, <1>2, <1>4, <1>5, <1>6, <1>7, Splicing
  <1>9. Heap(next', prev')
    <2>1. g \in AnyNode /\ h \in AnyNode
      BY DEF AnyNode
    <2> QED BY <2>1, <1>1, <1>7 DEF Heap
  <1>10. Listing(linked', c2)
    BY <1>1, <1>7, <1>8 DEF Listing
  <1> QED BY <1>4, <1>8, <1>9, <1>10 DEF Represents, c2

\* A node that is in no list can be initialised.
LEMMA Initialising ==
  ASSUME NEW c, Represents(c), NEW n \in Node, list_init(n)
  PROVE  Represents(c)'
  <1>1. /\ Heap(next, prev) /\ Sequences(c) /\ Once(c) /\ Circles(next, prev, c)
        /\ Listing(linked, c)
    BY DEF Represents
  <1>2. /\ next' = [next EXCEPT ![n] = n] /\ prev' = [prev EXCEPT ![n] = n]
        /\ linked' = linked /\ n \notin linked /\ n \in AnyNode
    BY DEF list_init, AnyNode
  <1>3. ASSUME NEW h \in ListHead, NEW i \in 0 .. Len(c[h]) + 1
        PROVE  Place(c, h, i) \in AnyNode \ {n}
    <2>1. Place(c, h, i) \in Node => i \in 1 .. Len(c[h]) /\ Place(c, h, i) = c[h][i]
      BY <1>1, PlaceType
    <2>2. ~ In(c, n)
      BY <1>1, <1>2 DEF Listing
    <2> QED BY <2>1, <2>2, <1>1, PlaceType, InLists
  <1>4. Circles(next', prev', c)
    <2> SUFFICES ASSUME NEW h \in ListHead, NEW i \in 0 .. Len(c[h])
                 PROVE  /\ next'[Place(c, h, i)] = Place(c, h, i + 1)
                        /\ prev'[Place(c, h, i + 1)] = Place(c, h, i)
      BY DEF Circles
    <2>1. i \in 0 .. Len(c[h]) + 1 /\ i + 1 \in 0 .. Len(c[h]) + 1
      <3>1. Len(c[h]) \in Nat
        BY <1>1, Lengths
      <3> QED BY <3>1
    <2>2. /\ Place(c, h, i) \in AnyNode \ {n} /\ Place(c, h, i + 1) \in AnyNode \ {n}
      BY <2>1, <1>3
    <2>3. next[Place(c, h, i)] = Place(c, h, i + 1) /\ prev[Place(c, h, i + 1)] = Place(c, h, i)
      BY <1>1 DEF Circles
    <2> QED BY <2>2, <2>3, <1>1, <1>2 DEF Heap
  <1>5. Heap(next', prev')
    BY <1>1, <1>2 DEF Heap
  <1> QED BY <1>1, <1>2, <1>4, <1>5 DEF Represents

LEMMA ListsMove ==
  ASSUME NEW c, Represents(c), Next
  PROVE  \E c2 : Represents(c2)' /\ Step(c, c2)
  <1>1. Sequences(c) /\ Circles(next, prev, c) /\ Listing(linked, c)
    BY DEF Represents
  <1>2. ASSUME NEW n \in Node, list_init(n) PROVE \E c2 : Represents(c2)' /\ Step(c, c2)
    BY <1>2, Initialising DEF Step
  <1>3. ASSUME NEW n \in Node, list_del(n) PROVE \E c2 : Represents(c2)' /\ Step(c, c2)
    <2>1. In(c, n)
      BY <1>1, <1>3 DEF list_del, Listing
    <2>2. PICK g \in ListHead : \E i \in 1 .. Len(c[g]) : c[g][i] = n
      BY <2>1 DEF In
    <2>3. PICK i \in 1 .. Len(c[g]) : c[g][i] = n
      BY <2>2
    <2>4. Represents([c EXCEPT ![g] = RemoveAt(@, i)])'
      BY <1>3, <2>3, Removing
    <2>5. i \in DOMAIN c[g]
      BY <1>1, Lengths
    <2>6. Step(c, [c EXCEPT ![g] = RemoveAt(@, i)])
      BY <2>5 DEF Step
    <2> QED BY <2>4, <2>6
  <1>4. ASSUME NEW n \in Node, NEW h \in ListHead, list_add(n, h)
        PROVE  \E c2 : Represents(c2)' /\ Step(c, c2)
    <2>1. ~ In(c, n) /\ linked' = linked \cup {n}
      BY <1>1, <1>4 DEF list_add, Listing
    <2>2. Len(c[h]) \in Nat /\ c[h] \in Seq(Node)
      BY <1>1, Lengths
    <2>3. PICK i \in 1 .. Len(c[h]) + 1 : i = 1 /\ i - 1 = 0 /\ i - 1 \in 0 .. Len(c[h])
      BY <2>2
    <2>4. Place(c, h, i - 1) = h /\ next[h] = Place(c, h, i)
      <3>1. next[Place(c, h, 0)] = Place(c, h, 1)
        BY <1>1, <2>3 DEF Circles
      <3> QED BY <3>1, <2>3 DEF Place
    <2>5. list_insert(n, Place(c, h, i - 1), Place(c, h, i))
      BY <1>4, <2>4 DEF list_add
    <2>6. Represents([c EXCEPT ![h] = InsertAt(@, i, n)])'
      BY <2>1, <2>5, Inserting
    <2>7. [c EXCEPT ![h] = InsertAt(@, i, n)] = [c EXCEPT ![h] = <<n>> \o @]
      <3>1. InsertAt(c[h], i, n) = <<n>> \o c[h]
        BY <2>2, <2>3, InsertAtEnds
      <3> QED BY <3>1
    <2>8. Step(c, [c EXCEPT ![h] = <<n>> \o @])
      BY <2>1 DEF Step
    <2> QED BY <2>6, <2>7, <2>8
  <1>5. ASSUME NEW n \in Node, NEW h \in AnyNode, list_add_tail(n, h)
        PROVE  \E c2 : Represents(c2)' /\ Step(c, c2)
    <2>1. ~ In(c, n) /\ linked' = linked \cup {n} /\ h \in ListHead \cup linked
      BY <1>1, <1>5 DEF list_add_tail, Listing
    <2>2. CASE h \in ListHead
      <3>1. Len(c[h]) \in Nat /\ c[h] \in Seq(Node)
        BY <1>1, <2>2, Lengths
      <3>2. PICK i \in 1 .. Len(c[h]) + 1 :
              i = Len(c[h]) + 1 /\ i - 1 = Len(c[h]) /\ i - 1 \in 0 .. Len(c[h])
        BY <3>1
      <3>3. Place(c, h, i) = h /\ prev[h] = Place(c, h, i - 1)
        <4>1. PICK k \in 0 .. Len(c[h]) : k = i - 1 /\ k + 1 = i
          BY <3>2
        <4>2. prev[Place(c, h, k + 1)] = Place(c, h, k)
          BY <1>1, <2>2 DEF Circles
        <4>3. Place(c, h, i) = h
          BY <3>2 DEF Place
        <4> QED BY <4>1, <4>2, <4>3
      <3>4. list_insert(n, Place(c, h, i - 1), Place(c, h, i))
        BY <1>5, <3>3 DEF list_add_tail
      <3>5. Represents([c EXCEPT ![h] = InsertAt(@, i, n)])'
        BY <2>1, <2>2, <3>4, Inserting
      <3>6. [c EXCEPT ![h] = InsertAt(@, i, n)] = [c EXCEPT ![h] = Append(@, n)]
        <4>1. InsertAt(c[h], i, n) = Append(c[h], n)
          BY <3>1, <3>2, InsertAtEnds
        <4> QED BY <4>1
      <3>7. Step(c, [c EXCEPT ![h] = Append(@, n)])
        BY <2>1, <2>2 DEF Step
      <3> QED BY <3>5, <3>6, <3>7
    <2>3. CASE h \in linked
      <3>1. In(c, h)
        BY <1>1, <2>3 DEF Listing
      <3>2. PICK g \in ListHead : \E i \in 1 .. Len(c[g]) : c[g][i] = h
        BY <3>1 DEF In
      <3>3. PICK i \in 1 .. Len(c[g]) : c[g][i] = h
        BY <3>2
      <3>4. Len(c[g]) \in Nat
        BY <1>1, Lengths
      <3>5. /\ i \in 1 .. Len(c[g]) + 1 /\ i # 0 /\ i # Len(c[g]) + 1
            /\ i - 1 \in 0 .. Len(c[g]) /\ (i - 1) + 1 = i
        BY <3>4
      <3>6. Place(c, g, i) = h /\ prev[h] = Place(c, g, i - 1)
        <4>1. PICK k \in 0 .. Len(c[g]) : k = i - 1 /\ k + 1 = i
          BY <3>5
        <4>2. prev[Place(c, g, k + 1)] = Place(c, g, k)
          BY <1>1 DEF Circles
        <4>3. Place(c, g, i) = h
          BY <3>3, <3>5 DEF Place
        <4> QED BY <4>1, <4>2, <4>3
      <3>7. list_insert(n, Place(c, g, i - 1), Place(c, g, i))
        BY <1>5, <3>6 DEF list_add_tail
      <3>8. Represents([c EXCEPT ![g] = InsertAt(@, i, n)])'
        BY <2>1, <3>5, <3>7, Inserting
      <3>9. i \in DOMAIN c[g]
        BY <1>1, Lengths
      <3>10. Step(c, [c EXCEPT ![g] = InsertAt(@, i, n)])
        BY <2>1, <3>9 DEF Step
      <3> QED BY <3>8, <3>10
    <2> QED BY <2>1, <2>2, <2>3
  <1>6. ASSUME NEW g \in ListHead, NEW h \in ListHead, list_splice(g, h)
        PROVE  \E c2 : Represents(c2)' /\ Step(c, c2)
    <2>1. Represents([c EXCEPT ![g] = <<>>, ![h] = c[g] \o @])'
      BY <1>6, SplicingSteps
    <2>2. g # h
      BY <1>6 DEF list_splice
    <2>3. Step(c, [c EXCEPT ![g] = <<>>, ![h] = c[g] \o @])
      BY <2>2 DEF Step
    <2> QED BY <2>1, <2>3
  <1> QED BY <1>2, <1>3, <1>4, <1>5, <1>6 DEF Next

LEMMA ListsStay ==
  ASSUME NEW c, Represents(c), UNCHANGED vars
  PROVE  Represents(c)'
  BY DEF Represents, vars

LEMMA ListsStart ==
  ASSUME Init
  PROVE  Represents([h \in ListHead |-> <<>>])
  <1> DEFINE c == [h \in ListHead |-> <<>>]
  <1>1. \A h \in ListHead : c[h] = <<>> /\ Len(c[h]) = 0
    BY EmptySeq
  <1>2. Sequences(c)
    BY EmptySeq DEF Sequences
  <1> HIDE DEF c
  <1>3. Heap(next, prev)
    BY DEF Init, Heap
  <1>4. Once(c) /\ Listing(linked, c)
    BY <1>1 DEF Once, Listing, In, Init
  <1>5. Circles(next, prev, c)
    <2>1. \A h \in ListHead : \A i \in 0 .. 0 + 1 : Place(c, h, i) = h
      BY <1>1 DEF Place
    <2>2. \A h \in ListHead : next[h] = h /\ prev[h] = h
      BY DEF Init, AnyNode
    <2> QED BY <1>1, <2>1, <2>2 DEF Circles
  <1> QED BY <1>2, <1>3, <1>4, <1>5 DEF Represents, c

-----------------------------------------------------------------------------
(* The theorems *)

LEMMA ContentsIsNext ==
  ASSUME NEW c
  PROVE  Represents(c)' => (Contents = c)'
  <1>1. Represents(c) => Contents = c
    BY ContentsIs
  <1>2. (Represents(c) => Contents = c)'
    BY <1>1, PTL
  <1> QED BY <1>2

LEMMA Invariance == Spec => []IInv
  <1>1. Init => IInv
    BY ListsStart, ContentsIs DEF IInv
  <1>2. IInv /\ [Next]_vars => IInv'
    <2> SUFFICES ASSUME IInv, [Next]_vars PROVE IInv'
      OBVIOUS
    <2>1. PICK c : c = Contents
      OBVIOUS
    <2>2. Represents(c)
      BY <2>1 DEF IInv
    <2>3. \E c2 : Represents(c2)'
      BY <2>2, ListsMove, ListsStay
    <2>4. PICK c2 : Represents(c2)'
      BY <2>3
    <2>5. c2 = Contents'
      BY <2>4, ContentsIsNext
    <2> QED BY <2>4, <2>5 DEF IInv
  <1> QED BY <1>1, <1>2, PTL DEF Spec

\* Each node in a list is at a place it is reached at and left from.
LEMMA Placed ==
  ASSUME NEW c, Represents(c), NEW n \in ListHead \cup linked
  PROVE  \E h \in ListHead :
           /\ \E i \in 0 .. Len(c[h]) : n = Place(c, h, i)
           /\ \E i \in 0 .. Len(c[h]) : n = Place(c, h, i + 1)
  <1>1. Sequences(c) /\ Listing(linked, c)
    BY DEF Represents
  <1>2. CASE n \in ListHead
    <2>1. PICK L \in Nat : L = Len(c[n])
      BY <1>1, <1>2, Lengths
    <2>2. 0 \in 0 .. L /\ L \in 0 .. L
      BY <2>1
    <2>3. Place(c, n, 0) = n /\ Place(c, n, L + 1) = n
      BY <2>1 DEF Place
    <2> QED BY <1>2, <2>1, <2>2, <2>3
  <1>3. CASE n \in linked
    <2>1. In(c, n)
      BY <1>1, <1>3 DEF Listing
    <2>2. PICK h \in ListHead : \E i \in 1 .. Len(c[h]) : c[h][i] = n
      BY <2>1 DEF In
    <2>3. PICK i \in 1 .. Len(c[h]) : c[h][i] = n
      BY <2>2
    <2>4. Len(c[h]) \in Nat
      BY <1>1, Lengths
    <2>5. PICK k \in 0 .. Len(c[h]) : k = i - 1 /\ k + 1 = i
      BY <2>4
    <2>6. i \in 0 .. Len(c[h]) /\ i # 0 /\ i # Len(c[h]) + 1
      BY <2>4
    <2>7. Place(c, h, i) = n
      BY <2>3, <2>6 DEF Place
    <2> QED BY <2>5, <2>6, <2>7
  <1> QED BY <1>2, <1>3

LEMMA PlacesLinked ==
  ASSUME NEW c, Represents(c), NEW h \in ListHead, NEW i \in 0 .. Len(c[h]) + 1
  PROVE  Place(c, h, i) \in ListHead \cup linked
  <1>1. Sequences(c) /\ Listing(linked, c)
    BY DEF Represents
  <1> QED BY <1>1, PlaceType, InLists DEF Listing, AnyNode

\* The pointers of list.c agree in both directions: no list leads into a
\* node that has been deleted, whatever the pointers in it are.
THEOREM ListsWellLinked == Spec => []WellLinked
  <1>1. IInv => WellLinked
    <2> SUFFICES ASSUME IInv, NEW n \in ListHead \cup linked
                 PROVE  /\ next[n] \in ListHead \cup linked /\ prev[next[n]] = n
                        /\ prev[n] \in ListHead \cup linked /\ next[prev[n]] = n
      BY DEF WellLinked
    <2>1. PICK c : c = Contents
      OBVIOUS
    <2>2. Represents(c)
      BY <2>1 DEF IInv
    <2>3. PICK h \in ListHead : /\ \E i \in 0 .. Len(c[h]) : n = Place(c, h, i)
                                /\ \E i \in 0 .. Len(c[h]) : n = Place(c, h, i + 1)
      BY <2>2, Placed
    <2>4. PICK i \in 0 .. Len(c[h]) : n = Place(c, h, i)
      BY <2>3
    <2>5. PICK j \in 0 .. Len(c[h]) : n = Place(c, h, j + 1)
      BY <2>3
    <2>6. Circles(next, prev, c) /\ Len(c[h]) \in Nat
      BY <2>2, Lengths DEF Represents
    <2>7. i + 1 \in 0 .. Len(c[h]) + 1 /\ j \in 0 .. Len(c[h]) + 1
      BY <2>6
    <2>8. /\ next[Place(c, h, i)] = Place(c, h, i + 1) /\ prev[Place(c, h, i + 1)] = Place(c, h, i)
          /\ next[Place(c, h, j)] = Place(c, h, j + 1) /\ prev[Place(c, h, j + 1)] = Place(c, h, j)
      BY <2>6 DEF Circles
    <2> QED BY <2>2, <2>4, <2>5, <2>7, <2>8, PlacesLinked
  <1> QED BY <1>1, Invariance, PTL

\* Every operation of list.c does to the sequences what its caller expects,
\* to the lists it names and to no others.
LEMMA StepIsNext ==
  ASSUME NEW c, c = Contents, Sequences(c), NEW c2, c2 = Contents', Step(c, c2)
  PROVE  [Sequence!Next]_Contents
  <1>1. \A n \in Node : ~ In(c, n) => n \notin Sequence!Listed
    <2>1. \A h \in ListHead : DOMAIN c[h] = 1 .. Len(c[h])
      BY Lengths
    <2> QED BY <2>1 DEF In, Sequence!Listed, Sequence!ToSet
  <1>2. CASE c2 = c
    BY <1>2
  <1>3. ASSUME NEW n \in Node, NEW h \in ListHead, ~ In(c, n),
               \/ c2 = [c EXCEPT ![h] = <<n>> \o @]
               \/ c2 = [c EXCEPT ![h] = Append(@, n)]
               \/ \E i \in DOMAIN c[h] : c2 = [c EXCEPT ![h] = InsertAt(@, i, n)]
        PROVE  Sequence!Next
    <2>1. n \notin Sequence!Listed
      BY <1>1, <1>3
    <2>2. CASE c2 = [c EXCEPT ![h] = <<n>> \o @]
      BY <2>1, <2>2 DEF Sequence!Next, Sequence!AddFirst
    <2>3. CASE c2 = [c EXCEPT ![h] = Append(@, n)]
      BY <2>1, <2>3 DEF Sequence!Next, Sequence!AddLast
    <2>4. CASE \E i \in DOMAIN c[h] : c2 = [c EXCEPT ![h] = InsertAt(@, i, n)]
      <3>1. PICK i \in DOMAIN c[h] : c2 = [c EXCEPT ![h] = InsertAt(@, i, n)]
        BY <2>4
      <3>2. c[h][i] \in Node
        BY Lengths
      <3>3. Sequence!AddBefore(n, c[h][i])
        BY <2>1, <3>1, Zenon DEF Sequence!AddBefore, Sequence!InsertAt, InsertAt
      <3> QED BY <3>2, <3>3 DEF Sequence!Next
    <2> QED BY <1>3, <2>2, <2>3, <2>4
  <1>4. ASSUME NEW h \in ListHead, NEW i \in DOMAIN c[h], c2 = [c EXCEPT ![h] = RemoveAt(@, i)]
        PROVE  Sequence!Next
    <2>1. c[h][i] \in Node
      BY Lengths
    <2>2. Sequence!Delete(c[h][i])
      BY <1>4, Zenon DEF Sequence!Delete, Sequence!RemoveAt, RemoveAt
    <2> QED BY <2>1, <2>2 DEF Sequence!Next
  <1>5. ASSUME NEW g \in ListHead, NEW h \in ListHead, g # h,
               c2 = [c EXCEPT ![g] = <<>>, ![h] = c[g] \o @]
        PROVE  Sequence!Next
    BY <1>5 DEF Sequence!Next, Sequence!Splice
  <1> QED BY <1>2, <1>3, <1>4, <1>5 DEF Step

\* Each function of list.c does to the pointers what one operation of
\* ListSequence does to sequences of nodes, in the list it names and in no
\* other; so each list is the sequence its callers count on.
THEOREM ListsAreSequences == Spec => ImplementsSequence
  <1>1. Init => Sequence!Init
    BY ListsStart, ContentsIs DEF Sequence!Init
  <1>2. IInv /\ [Next]_vars => [Sequence!Next]_Contents
    <2> SUFFICES ASSUME IInv, [Next]_vars PROVE [Sequence!Next]_Contents
      OBVIOUS
    <2>1. PICK c : c = Contents
      OBVIOUS
    <2>2. Represents(c)
      BY <2>1 DEF IInv
    <2>3. \E c2 : Represents(c2)' /\ Step(c, c2)
      <3>1. CASE Next
        BY <3>1, <2>2, ListsMove
      <3>2. CASE UNCHANGED vars
        BY <3>2, <2>2, ListsStay DEF Step
      <3> QED BY <3>1, <3>2
    <2>4. PICK c2 : Represents(c2)' /\ Step(c, c2)
      BY <2>3
    <2>5. c2 = Contents'
      BY <2>4, ContentsIsNext
    <2>6. Sequences(c)
      BY <2>2 DEF Represents
    <2> QED BY <2>1, <2>4, <2>5, <2>6, StepIsNext
  <1> QED BY <1>1, <1>2, Invariance, PTL DEF Spec, ImplementsSequence, Sequence!Spec

\* The nodes in the lists of the heads in s
Members(c, s) == {n \in Node : \E h \in s : \E i \in 1 .. Len(c[h]) : c[h][i] = n}

LEMMA MembersAdd ==
  ASSUME NEW c, Represents(c), NEW s \in SUBSET ListHead, NEW x \in s
  PROVE  /\ Cardinality(Members(c, s)) \in Nat
         /\ Cardinality(Members(c, s)) = list_size(x) + Cardinality(Members(c, s \ {x}))
  <1> DEFINE L == Len(c[x])
             f == [i \in 1 .. L |-> c[x][i]]
             mine == Members(c, {x})
             rest == Members(c, s \ {x})
  <1>1. Sequences(c) /\ Once(c) /\ x \in ListHead
    BY DEF Represents
  <1>2. L \in Nat /\ Len(c[x]) = L /\ \A i \in 1 .. L : c[x][i] \in Node
    BY <1>1, Lengths
  <1>3. IsFiniteSet(Node)
    BY NodeAssumption, FS_Subset
  <1>4. \A t : IsFiniteSet(Members(c, t))
    BY <1>3, FS_Subset DEF Members
  <1> HIDE DEF L
  <1>5. f \in Bijection(1 .. L, mine)
    <2>1. f \in [1 .. L -> mine]
      BY <1>2 DEF Members
    <2>2. \A i, j \in 1 .. L : f[i] = f[j] => i = j
      BY <1>1, <1>2, OnePlace
    <2>3. \A n \in mine : \E i \in 1 .. L : f[i] = n
      BY <1>2 DEF Members
    <2> HIDE DEF f
    <2> QED BY <2>1, <2>2, <2>3, Fun_IsBij
  <1>6. Cardinality(mine) = L
    <2>1. Cardinality(1 .. L) = L /\ IsFiniteSet(1 .. L)
      BY <1>2, FS_Interval
    <2> HIDE DEF f, mine
    <2>2. Cardinality(mine) = Cardinality(1 .. L)
      BY <1>5, <2>1, FS_Bijection DEF ExistsBijection
    <2> QED BY <2>1, <2>2
  <1>7. Members(c, s) = mine \cup rest
    BY DEF Members
  <1>8. mine \cap rest = {}
    <2> SUFFICES ASSUME NEW n \in mine, n \in rest PROVE FALSE
      OBVIOUS
    <2>1. PICK i \in 1 .. Len(c[x]) : c[x][i] = n
      BY DEF Members
    <2>2. PICK h \in s \ {x} : \E j \in 1 .. Len(c[h]) : c[h][j] = n
      BY DEF Members
    <2>3. PICK j \in 1 .. Len(c[h]) : c[h][j] = n
      BY <2>2
    <2> QED BY <1>1, <2>1, <2>3, OnePlace
  <1>9. list_size(x) = L
    BY <1>1, <1>2, SizeIsLength
  <1>10. IsFiniteSet(mine) /\ IsFiniteSet(rest)
    BY <1>4
  <1> HIDE DEF mine, rest
  <1>11. Cardinality(mine \cup rest) = Cardinality(mine) + Cardinality(rest) - Cardinality(mine \cap rest)
    BY <1>10, FS_Union
  <1>12. Cardinality(mine \cap rest) = 0
    BY <1>8, FS_EmptySet
  <1>13. Cardinality(rest) \in Nat
    BY <1>10, FS_CardinalityType
  <1> QED BY <1>2, <1>6, <1>7, <1>9, <1>11, <1>12, <1>13 DEF rest

LEMMA SumOfSizes ==
  ASSUME NEW c, Represents(c)
  PROVE  MapThenSumSet(list_size, ListHead) = Cardinality(Members(c, ListHead))
  <1> DEFINE some(s) == CHOOSE x \in s : TRUE
             W == [s \in SUBSET ListHead |-> Cardinality(Members(c, s))]
             It == CHOOSE iter : iter = [s \in SUBSET ListHead |->
                     IF s = {} THEN 0 ELSE list_size(some(s)) + iter[s \ {some(s)}]]
  <1>1. Members(c, {}) = {}
    BY DEF Members
  <1>2. W = [s \in SUBSET ListHead |->
               IF s = {} THEN 0 ELSE list_size(some(s)) + W[s \ {some(s)}]]
    <2>1. ASSUME NEW s \in SUBSET ListHead
          PROVE  Cardinality(Members(c, s)) =
                   IF s = {} THEN 0 ELSE list_size(some(s)) + W[s \ {some(s)}]
      <3>1. CASE s = {}
        BY <3>1, <1>1, FS_EmptySet
      <3>2. CASE s # {}
        <4>1. some(s) \in s /\ s \ {some(s)} \in SUBSET ListHead
          BY <3>2
        <4>2. W[s \ {some(s)}] = Cardinality(Members(c, s \ {some(s)}))
          BY <4>1
        <4> HIDE DEF some, W
        <4> QED BY <3>2, <4>1, <4>2, MembersAdd
      <3> QED BY <3>1, <3>2
    <2> QED BY <2>1
  <1>3. It = [s \in SUBSET ListHead |->
                IF s = {} THEN 0 ELSE list_size(some(s)) + It[s \ {some(s)}]]
    <2> HIDE DEF W, some
    <2> QED BY <1>2, Zenon
  <1>4. MapThenSumSet(list_size, ListHead) = It[ListHead]
    BY DEF MapThenSumSet, MapThenFoldSet
  <1> DEFINE S == {k \in Nat : \A s \in SUBSET ListHead : Cardinality(s) = k => It[s] = W[s]}
  <1>5. IsFiniteSet(ListHead)
    BY NodeAssumption, FS_Subset
  <1>6. \A s \in SUBSET ListHead :
          /\ It[s] = IF s = {} THEN 0 ELSE list_size(some(s)) + It[s \ {some(s)}]
          /\ W[s] = IF s = {} THEN 0 ELSE list_size(some(s)) + W[s \ {some(s)}]
    <2>1. PICK i : i = It
      OBVIOUS
    <2>2. PICK w : w = W
      OBVIOUS
    <2> HIDE DEF It, W, some
    <2>3. /\ i = [s \in SUBSET ListHead |->
                    IF s = {} THEN 0 ELSE list_size(some(s)) + i[s \ {some(s)}]]
          /\ w = [s \in SUBSET ListHead |->
                    IF s = {} THEN 0 ELSE list_size(some(s)) + w[s \ {some(s)}]]
      BY <1>2, <1>3, <2>1, <2>2
    <2> QED BY <2>1, <2>2, <2>3
  <1>7. ASSUME NEW s \in SUBSET ListHead
        PROVE  /\ IsFiniteSet(s) /\ Cardinality(s) \in Nat
               /\ s # {} => /\ some(s) \in s /\ s \ {some(s)} \in SUBSET ListHead
                            /\ Cardinality(s \ {some(s)}) = Cardinality(s) - 1
    <2>1. IsFiniteSet(s) /\ Cardinality(s) \in Nat
      BY <1>5, FS_Subset, FS_CardinalityType
    <2>2. s # {} => some(s) \in s
      OBVIOUS
    <2> HIDE DEF some
    <2> QED BY <2>1, <2>2, FS_RemoveElement
  <1> HIDE DEF It, W, some
  <1>8. 0 \in S
    <2>1. \A s \in SUBSET ListHead : Cardinality(s) = 0 => s = {}
      BY <1>7, FS_EmptySet
    <2> QED BY <2>1, <1>6
  <1>9. ASSUME NEW k \in S PROVE k + 1 \in S
    <2> SUFFICES ASSUME NEW s \in SUBSET ListHead, Cardinality(s) = k + 1 PROVE It[s] = W[s]
      OBVIOUS
    <2>1. k \in Nat /\ k + 1 # 0 /\ (k + 1) - 1 = k
      OBVIOUS
    <2>2. s # {}
      BY <2>1, FS_EmptySet
    <2>3. s \ {some(s)} \in SUBSET ListHead /\ Cardinality(s \ {some(s)}) = k
      BY <2>1, <2>2, <1>7
    <2>4. It[s \ {some(s)}] = W[s \ {some(s)}]
      BY <2>3
    <2> QED BY <2>2, <2>4, <1>6
  <1>10. S = Nat
    <2> HIDE DEF S
    <2>1. S \in SUBSET Nat
      BY DEF S
    <2> QED BY <1>8, <1>9, <2>1, SetInduction
  <1>11. It[ListHead] = W[ListHead]
    <2>1. PICK k \in Nat : Cardinality(ListHead) = k
      BY <1>7
    <2> QED BY <2>1, <1>10
  <1> QED BY <1>4, <1>11 DEF W

\* The loops over the lists of list.c end, and count every node that is in
\* a list once; list_empty and list_first say the same of a list.
THEOREM ListSizesAddUp == Spec => []SizesAddUp
  <1>1. IInv => SizesAddUp
    <2> SUFFICES ASSUME IInv PROVE SizesAddUp
      OBVIOUS
    <2>1. PICK c : c = Contents
      OBVIOUS
    <2>2. Represents(c)
      BY <2>1 DEF IInv
    <2>3. Members(c, ListHead) = linked
      BY <2>2 DEF Represents, Listing, In, Members
    <2>4. MapThenSumSet(list_size, ListHead) = Cardinality(linked)
      BY <2>2, <2>3, SumOfSizes
    <2>5. ASSUME NEW h \in ListHead
          PROVE  /\ list_empty(h) <=> list_size(h) = 0
                 /\ list_first(h) \in linked <=> list_size(h) > 0
      <3>1. PICK L \in Nat : L = Len(c[h]) /\ list_size(h) = L
        BY <2>2, Lengths, SizeIsLength DEF Represents
      <3>2. next[h] = Place(c, h, 1)
        <4>1. 0 \in 0 .. Len(c[h])
          BY <3>1
        <4>2. next[Place(c, h, 0)] = Place(c, h, 0 + 1)
          BY <4>1, <2>2 DEF Represents, Circles
        <4> QED BY <4>2 DEF Place
      <3>3. h \notin linked
        BY <2>2, NodeAssumption DEF Represents, Listing
      <3>4. CASE L = 0
        BY <3>1, <3>2, <3>3, <3>4 DEF Place, list_empty, list_first
      <3>5. CASE L # 0
        <4>1. 1 \in 1 .. Len(c[h]) /\ 1 # 0 /\ 1 # Len(c[h]) + 1
          BY <3>1, <3>5
        <4>2. next[h] = c[h][1]
          BY <3>2, <4>1 DEF Place
        <4>3. c[h][1] \in linked
          BY <4>1, <2>2, InLists, Lengths DEF Represents, Listing
        <4> QED BY <4>2, <4>3, <3>1, <3>3, <3>5 DEF list_empty, list_first
      <3> QED BY <3>4, <3>5
    <2> QED BY <2>4, <2>5 DEF SizesAddUp
  <1> QED BY <1>1, Invariance, PTL
=============================================================================
