--------------------------- MODULE SpinLockProofs ---------------------------
(***************************************************************************)
(* Proofs about the ticket lock, for every finite set of threads and every *)
(* number of ticket values that is at least the number of threads.         *)
(***************************************************************************)
EXTENDS SpinLock, FiniteSetTheorems, SequenceTheorems, TLAPS

-----------------------------------------------------------------------------
(* Arithmetic modulo TicketMod *)

\* What the increment of a uint16_t ticket is.
LEMMA IncValue ==
  ASSUME NEW n \in Ticket
  PROVE  Inc(n) = IF n = TicketMod - 1 THEN 0 ELSE n + 1
  <1> USE ModAssumption DEF Inc, Ticket
  <1>1. CASE n = TicketMod - 1
    BY <1>1
  <1>2. CASE n # TicketMod - 1
    BY <1>2
  <1> QED BY <1>1, <1>2

\* What the distance of a ticket from the one being served is.
LEMMA ModDifference ==
  ASSUME NEW a \in Ticket, NEW b \in Ticket
  PROVE  (a - b) % TicketMod = IF a >= b THEN a - b ELSE a - b + TicketMod
  <1> USE ModAssumption DEF Ticket
  <1>1. CASE a >= b
    BY <1>1
  <1>2. CASE ~(a >= b)
    BY <1>2
  <1> QED BY <1>1, <1>2

\* Tickets at the same distance from another one are the same.
LEMMA SameDistance ==
  ASSUME NEW a \in Ticket, NEW b \in Ticket, NEW c \in Ticket,
         (a - c) % TicketMod = (b - c) % TicketMod
  PROVE  a = b
  <1>1. /\ (a - c) % TicketMod = IF a >= c THEN a - c ELSE a - c + TicketMod
        /\ (b - c) % TicketMod = IF b >= c THEN b - c ELSE b - c + TicketMod
    BY ModDifference
  <1>2. (IF a >= c THEN a - c ELSE a - c + TicketMod) = (IF b >= c THEN b - c ELSE b - c + TicketMod)
    BY <1>1
  <1>3. a \in Int /\ b \in Int /\ c \in Int /\ TicketMod \in Int
        /\ 0 <= a /\ 0 <= b /\ a < TicketMod /\ b < TicketMod
    BY ModAssumption DEF Ticket
  <1> QED BY <1>2, <1>3

\* What the ticket drawn by the next of n callers is.
LEMMA ModSum ==
  ASSUME NEW a \in Ticket, NEW n \in 0 .. TicketMod
  PROVE  (a + n) % TicketMod = IF a + n < TicketMod THEN a + n ELSE a + n - TicketMod
  <1> USE ModAssumption DEF Ticket
  <1>1. CASE a + n < TicketMod
    BY <1>1
  <1>2. CASE ~(a + n < TicketMod)
    BY <1>2
  <1> QED BY <1>1, <1>2

-----------------------------------------------------------------------------
(* Type correctness *)

\* The counters and the local tickets stay in the range of a uint16_t.
THEOREM TypeCorrect == Spec => []TypeOK
  <1>1. Init => TypeOK
    BY ModAssumption DEF Init, TypeOK, Ticket
  <1>2. TypeOK /\ [Next]_vars => TypeOK'
    <2> SUFFICES ASSUME TypeOK, [Next]_vars
                 PROVE  TypeOK'
      OBVIOUS
    <2> USE DEF TypeOK
    <2>1. \A n \in Ticket : Inc(n) \in Ticket
      BY IncValue, ModAssumption DEF Ticket
    <2>2. ASSUME NEW t \in Thread, Take(t)
          PROVE  TypeOK'
      BY <2>1, <2>2 DEF Take
    <2>3. ASSUME NEW t \in Thread, Acquire(t)
          PROVE  TypeOK'
      BY <2>3 DEF Acquire
    <2>4. ASSUME NEW t \in Thread, Unlock(t)
          PROVE  TypeOK'
      BY <2>1, <2>4 DEF Unlock
    <2>5. CASE UNCHANGED vars
      BY <2>5 DEF vars
    <2> QED BY <2>2, <2>3, <2>4, <2>5 DEF Next
  <1> QED BY <1>1, <1>2, PTL DEF Spec

-----------------------------------------------------------------------------
(***************************************************************************)
(* Mutual exclusion alone is not inductive: it depends on no two waiters   *)
(* having drawn the same ticket, which holds because the tickets in use    *)
(* are the ones from the ticket being served up to the next one to draw,   *)
(* and there are at most TicketMod of them.                                *)
(***************************************************************************)
TicketsDistinct ==
  \A s, t \in Waiting : mine[s] = mine[t] => s = t

TicketsInUse ==
  \A t \in Waiting : Ahead(t) < Cardinality(Waiting)

\* The waiters fill the places from 0 on.
PlacesTaken ==
  \A i \in 0 .. Cardinality(Waiting) - 1 : \E t \in Waiting : Ahead(t) = i

NextTicket == users = (ticket + Cardinality(Waiting)) % TicketMod

HolderServed == \A t \in Thread : pc[t] = "critical" => mine[t] = ticket

IInv ==
  /\ TypeOK
  /\ TicketsDistinct
  /\ TicketsInUse
  /\ PlacesTaken
  /\ NextTicket
  /\ HolderServed

\* The number of waiters is a number of threads.
LEMMA WaitingFinite ==
  /\ IsFiniteSet(Waiting)
  /\ Cardinality(Waiting) \in 0 .. TicketMod
  /\ \A t \in Thread \ Waiting : Cardinality(Waiting) < TicketMod
  <1>1. Waiting \in SUBSET Thread
    BY DEF Waiting
  <1>2. IsFiniteSet(Waiting) /\ Cardinality(Waiting) <= Cardinality(Thread)
    BY <1>1, ThreadAssumption, FS_Subset
  <1>3. Cardinality(Waiting) \in Nat /\ Cardinality(Thread) \in Nat
    BY <1>2, ThreadAssumption, FS_CardinalityType
  <1>4. ASSUME NEW t \in Thread \ Waiting
        PROVE  Cardinality(Waiting) < Cardinality(Thread)
    <2>1. Cardinality(Waiting) # Cardinality(Thread)
      BY <1>1, <1>4, ThreadAssumption, FS_Subset
    <2> QED BY <2>1, <1>2, <1>3
  <1> QED BY <1>2, <1>3, <1>4, FewThreads, ModAssumption

LEMMA InitIInv == Init => IInv
  <1> SUFFICES ASSUME Init
               PROVE  IInv
    OBVIOUS
  <1>1. Waiting = {}
    BY DEF Init, Waiting
  <1>2. Cardinality(Waiting) = 0
    BY <1>1, FS_EmptySet
  <1>3. users = (ticket + Cardinality(Waiting)) % TicketMod
    BY <1>2, ModAssumption DEF Init
  <1> QED
    BY <1>1, <1>2, <1>3, ModAssumption
       DEF Init, IInv, TypeOK, TicketsDistinct, TicketsInUse, PlacesTaken, NextTicket, HolderServed, Ticket

\* A new caller draws a ticket that no other waiter holds.
LEMMA TakeIInv ==
  ASSUME IInv, NEW t \in Thread, Take(t), TypeOK'
  PROVE  IInv'
  <1> DEFINE n == Cardinality(Waiting)
  <1> USE DEF IInv, TypeOK
  <1>1. Waiting' = Waiting \cup {t} /\ t \notin Waiting
    BY DEF Take, Waiting
  <1>2. n \in 0 .. TicketMod - 1
    BY <1>1, WaitingFinite, ModAssumption
  <1>3. Cardinality(Waiting)' = n + 1
    BY <1>1, WaitingFinite, FS_AddElement
  <1>0. users = (ticket + n) % TicketMod
    BY DEF NextTicket
  <1> HIDE DEF n
  <1>4. users = IF ticket + n < TicketMod THEN ticket + n ELSE ticket + n - TicketMod
    <2>1. ticket \in Ticket /\ n \in 0 .. TicketMod
      BY <1>2, ModAssumption
    <2> QED BY <1>0, <2>1, ModSum
  <1>5. (users - ticket) % TicketMod = n
    BY <1>2, <1>4, ModDifference, ModAssumption DEF Ticket
  <1>6. \A s \in Waiting : mine'[s] = mine[s] /\ Ahead(s)' = Ahead(s) /\ Ahead(s) < n
    BY <1>1 DEF Take, Ahead, TicketsInUse, n, Waiting
  <1>7. mine'[t] = users /\ Ahead(t)' = n
    BY <1>5 DEF Take, Ahead
  <1>8. \A s \in Waiting : mine'[s] # mine'[t]
    BY <1>5, <1>6, <1>7, <1>2 DEF Ahead
  <1>9. TicketsDistinct'
    BY <1>1, <1>6, <1>8 DEF TicketsDistinct
  <1>10. TicketsInUse'
    <2> SUFFICES ASSUME NEW s \in Waiting'
                 PROVE  Ahead(s)' < n + 1
      BY <1>3 DEF TicketsInUse
    <2>1. CASE s = t
      BY <2>1, <1>7, <1>2
    <2>2. CASE s \in Waiting
      <3>1. Ahead(s) \in Int
        BY <2>2, ModDifference, ModAssumption DEF Ahead, Waiting, Ticket
      <3> QED BY <2>2, <3>1, <1>6, <1>2
    <2> QED BY <2>1, <2>2, <1>1
  <1>11. NextTicket'
    <2>1. ticket' = ticket /\ users' = Inc(users)
      BY DEF Take
    <2>2. n + 1 \in 0 .. TicketMod
      BY <1>2, ModAssumption
    <2>3. (ticket + (n + 1)) % TicketMod =
            IF ticket + (n + 1) < TicketMod THEN ticket + (n + 1)
                                            ELSE ticket + (n + 1) - TicketMod
      BY <2>2, ModSum
    <2>4. Inc(users) = IF users = TicketMod - 1 THEN 0 ELSE users + 1
      BY IncValue
    <2>5. Inc(users) = (ticket + (n + 1)) % TicketMod
      BY <2>3, <2>4, <1>2, <1>4, ModAssumption DEF Ticket
    <2> QED BY <2>1, <2>5, <1>3 DEF NextTicket
  <1>12. HolderServed'
    BY DEF HolderServed, Take
  <1>13. PlacesTaken'
    <2> SUFFICES ASSUME NEW i \in 0 .. n
                 PROVE  \E s \in Waiting' : Ahead(s)' = i
      BY <1>2, <1>3 DEF PlacesTaken
    <2>1. CASE i = n
      BY <2>1, <1>1, <1>7
    <2>2. CASE i # n
      <3>1. i \in 0 .. n - 1
        BY <1>2, <2>2
      <3>2. PICK s \in Waiting : Ahead(s) = i
        BY <3>1 DEF PlacesTaken, n
      <3> QED BY <1>1, <1>6, <3>2
    <2> QED BY <2>1, <2>2
  <1> QED BY <1>9, <1>10, <1>11, <1>12, <1>13

\* Leaving the spin loop changes no ticket.
LEMMA AcquireIInv ==
  ASSUME IInv, NEW t \in Thread, Acquire(t), TypeOK'
  PROVE  IInv'
  <1> USE DEF IInv, TypeOK
  <1>1. Waiting' = Waiting
    BY DEF Acquire, Waiting
  <1>2. Cardinality(Waiting)' = Cardinality(Waiting)
    BY <1>1
  <1>3. \A s \in Thread : Ahead(s)' = Ahead(s)
    BY DEF Acquire, Ahead
  <1>4. TicketsDistinct' /\ HolderServed'
    BY <1>1 DEF Acquire, TicketsDistinct, HolderServed
  <1>5. TicketsInUse' /\ PlacesTaken'
    BY <1>1, <1>2, <1>3 DEF TicketsInUse, PlacesTaken, Waiting
  <1>6. NextTicket'
    BY <1>2 DEF Acquire, NextTicket
  <1> QED BY <1>4, <1>5, <1>6

\* The holder gives its ticket back: every other waiter moves up by one.
LEMMA UnlockIInv ==
  ASSUME IInv, NEW t \in Thread, Unlock(t), TypeOK'
  PROVE  IInv'
  <1> DEFINE n == Cardinality(Waiting)
  <1> USE DEF IInv, TypeOK
  <1>1. Waiting' = Waiting \ {t} /\ t \in Waiting
    BY DEF Unlock, Waiting
  <1>2. Cardinality(Waiting)' = n - 1
    BY <1>1, WaitingFinite, FS_RemoveElement
  <1>3. n \in 1 .. TicketMod
    <2>1. n # 0
      BY <1>1, WaitingFinite, FS_EmptySet
    <2> QED BY <2>1, WaitingFinite
  <1>11. users = (ticket + n) % TicketMod
    BY DEF NextTicket
  <1> HIDE DEF n
  <1>4. mine[t] = ticket /\ mine' = mine /\ users' = users
    BY DEF Unlock, HolderServed
  <1>5. ticket' = IF ticket = TicketMod - 1 THEN 0 ELSE ticket + 1
    BY IncValue DEF Unlock
  <1>6. TicketsDistinct'
    BY <1>1, <1>4 DEF TicketsDistinct
  <1>7. \A s \in Waiting' : Ahead(s)' = Ahead(s) - 1 /\ Ahead(s) \in Nat
    <2> SUFFICES ASSUME NEW s \in Waiting'
                 PROVE  Ahead(s)' = Ahead(s) - 1 /\ Ahead(s) \in Nat
      OBVIOUS
    <2>1. s \in Thread /\ s \in Waiting /\ mine[s] # ticket
      BY <1>1, <1>4 DEF TicketsDistinct, Waiting
    <2>2. Ahead(s) = IF mine[s] >= ticket THEN mine[s] - ticket
                                          ELSE mine[s] - ticket + TicketMod
      BY <2>1, ModDifference DEF Ahead
    <2>3. Ahead(s)' = IF mine[s] >= ticket' THEN mine[s] - ticket'
                                            ELSE mine[s] - ticket' + TicketMod
      BY <2>1, <1>4, ModDifference DEF Ahead
    <2>4. mine[s] \in 0 .. TicketMod - 1 /\ ticket \in 0 .. TicketMod - 1
      BY <2>1 DEF Ticket
    <2> QED BY <2>1, <2>2, <2>3, <2>4, <1>5, ModAssumption
  <1>8. TicketsInUse'
    <2> SUFFICES ASSUME NEW s \in Waiting'
                 PROVE  Ahead(s)' < n - 1
      BY <1>2 DEF TicketsInUse
    <2>1. Ahead(s) < n
      BY <1>1 DEF TicketsInUse, n
    <2> QED BY <2>1, <1>7, <1>3
  <1>9. NextTicket'
    <2>1. n - 1 \in 0 .. TicketMod
      BY <1>3, ModAssumption
    <2>2. (ticket' + (n - 1)) % TicketMod =
            IF ticket' + (n - 1) < TicketMod THEN ticket' + (n - 1)
                                             ELSE ticket' + (n - 1) - TicketMod
      BY <2>1, ModSum
    <2>5. ticket \in Ticket /\ n \in 0 .. TicketMod
      BY <1>3, ModAssumption
    <2>3. users = IF ticket + n < TicketMod THEN ticket + n ELSE ticket + n - TicketMod
      BY <1>11, <2>5, ModSum
    <2>4. users' = (ticket' + (n - 1)) % TicketMod
      BY <2>2, <2>3, <1>3, <1>4, <1>5, ModAssumption DEF Ticket
    <2> QED BY <2>4, <1>2 DEF NextTicket
  <1>10. HolderServed'
    <2> SUFFICES ASSUME NEW s \in Thread, pc'[s] = "critical"
                 PROVE  FALSE
      BY DEF HolderServed
    <2>1. s # t /\ pc[s] = "critical"
      BY DEF Unlock
    <2>2. mine[s] = mine[t] /\ s \in Waiting
      BY <2>1, <1>4 DEF HolderServed, Waiting
    <2> QED BY <2>1, <2>2, <1>1 DEF TicketsDistinct
  <1>12. PlacesTaken'
    <2> SUFFICES ASSUME NEW i \in 0 .. n - 2
                 PROVE  \E s \in Waiting' : Ahead(s)' = i
      BY <1>2, <1>3 DEF PlacesTaken
    <2>1. i + 1 \in 0 .. n - 1
      BY <1>3
    <2>2. PICK s \in Waiting : Ahead(s) = i + 1
      BY <2>1 DEF PlacesTaken, n
    <2>3. Ahead(t) = 0
      BY <1>4, ModDifference, ModAssumption DEF Ahead, Ticket
    <2>4. s \in Waiting'
      BY <1>1, <2>2, <2>3
    <2> QED BY <1>7, <2>2, <2>4
  <1> QED BY <1>6, <1>8, <1>9, <1>10, <1>12

LEMMA StepIInv ==
  ASSUME IInv, TypeOK', [Next]_vars
  PROVE  IInv'
  <1>1. CASE Next
    BY <1>1, TakeIInv, AcquireIInv, UnlockIInv DEF Next
  <1>2. CASE UNCHANGED vars
    BY <1>2 DEF vars, IInv, TypeOK, TicketsDistinct, TicketsInUse, PlacesTaken, NextTicket,
                HolderServed, Waiting, Ahead
  <1> QED BY <1>1, <1>2

LEMMA OneHolder == IInv => MutualExclusion
BY DEF IInv, TicketsDistinct, HolderServed, MutualExclusion, Waiting

\* The section between lock() and unlock() has one thread at a time.
THEOREM Exclusion == Spec => []MutualExclusion
BY StepIInv, OneHolder, InitIInv, TypeCorrect, PTL DEF Spec

-----------------------------------------------------------------------------
(***************************************************************************)
(* The refinement of FifoLock: each step of the ticket lock appends to the *)
(* queue of waiters, grants the lock to its head, or takes the head off.   *)
(***************************************************************************)

Held == \E t \in Thread : pc[t] = "critical"

\* q lists the members of W, each at its place, counted from 0.
Lists(q, W, place) ==
  /\ q = [i \in 1 .. Cardinality(W) |-> q[i]]
  /\ \A i \in 1 .. Cardinality(W) : q[i] \in W /\ place[q[i]] = i - 1
  /\ \A t \in W : place[t] + 1 \in 1 .. Cardinality(W) /\ q[place[t] + 1] = t
  /\ Cardinality(W) \in Nat

Place == [t \in Thread |-> Ahead(t)]

LEMMA ListSequence ==
  ASSUME NEW W, NEW q, NEW place, Lists(q, W, place)
  PROVE  /\ q \in Seq(W) /\ Len(q) = Cardinality(W) /\ DOMAIN q = 1 .. Cardinality(W)
         /\ {q[i] : i \in DOMAIN q} = W
  <1> DEFINE n == Cardinality(W)
  <1>1. /\ n \in Nat /\ q = [i \in 1 .. n |-> q[i]] /\ \A i \in 1 .. n : q[i] \in W
        /\ \A t \in W : \E i \in 1 .. n : q[i] = t
    BY DEF Lists
  <1> HIDE DEF n
  <1>2. q \in Seq(W) /\ Len(q) = n /\ DOMAIN q = 1 .. n
    BY <1>1
  <1>3. {q[i] : i \in DOMAIN q} = W
    BY <1>1, <1>2
  <1> QED BY <1>2, <1>3 DEF n

\* One more member, with the next place.
LEMMA ListAppend ==
  ASSUME NEW W, NEW V, NEW t, t \notin W, V = W \cup {t}, Cardinality(V) = Cardinality(W) + 1,
         NEW q, NEW r, NEW place, NEW later,
         Lists(q, W, place), Lists(r, V, later), \A s \in W : later[s] = place[s]
  PROVE  r = Append(q, t)
  <1> DEFINE n == Cardinality(W)
  <1>1. n \in Nat
    BY DEF Lists
  <1>2. q \in Seq(V) /\ Len(q) = n
    <2>1. q \in Seq(W) /\ Len(q) = n
      BY ListSequence
    <2> QED BY <2>1
  <1>3. r \in Seq(V) /\ Len(r) = n + 1
    BY ListSequence
  <1>4. ASSUME NEW i \in 1 .. n
        PROVE  r[i] = q[i]
    <2>1. q[i] \in W /\ place[q[i]] = i - 1
      BY DEF Lists
    <2>2. q[i] \in V /\ later[q[i]] = i - 1
      BY <2>1
    <2>3. r[later[q[i]] + 1] = q[i]
      BY <2>2 DEF Lists
    <2> QED BY <2>2, <2>3, <1>1
  <1>5. r[n + 1] = t
    <2>1. n + 1 \in 1 .. Cardinality(V) /\ (n + 1) - 1 = n
      BY <1>1
    <2>2. \A i \in 1 .. Cardinality(V) : r[i] \in V /\ later[r[i]] = i - 1
      BY DEF Lists
    <2>3. r[n + 1] \in V /\ later[r[n + 1]] = n
      <3> HIDE DEF n
      <3> QED BY <2>1, <2>2
    <2>4. ASSUME r[n + 1] \in W
          PROVE  FALSE
      <3>1. place[r[n + 1]] = n /\ place[r[n + 1]] + 1 \in 1 .. n
        BY <2>3, <2>4 DEF Lists
      <3> QED BY <3>1, <1>1
    <2> QED BY <2>3, <2>4
  <1> HIDE DEF n
  <1>6. /\ Append(q, t) \in Seq(V) /\ Len(Append(q, t)) = n + 1
        /\ \A i \in 1 .. n : Append(q, t)[i] = q[i]
        /\ Append(q, t)[n + 1] = t
    BY <1>2, AppendProperties
  <1>7. \A i \in 1 .. Len(r) : r[i] = Append(q, t)[i]
    <2> SUFFICES ASSUME NEW i \in 1 .. n + 1 PROVE r[i] = Append(q, t)[i]
      BY <1>3
    <2>1. i = n + 1 \/ i \in 1 .. n
      BY <1>1
    <2> QED BY <2>1, <1>4, <1>5, <1>6
  <1> QED BY <1>3, <1>6, <1>7, SeqEqual

\* One member less, the first, and all others one place further to the front.
LEMMA ListTail ==
  ASSUME NEW W, NEW V, V \subseteq W, Cardinality(V) = Cardinality(W) - 1,
         NEW q, NEW r, NEW place, NEW later,
         Lists(q, W, place), Lists(r, V, later),
         \A s \in V : place[s] = later[s] + 1
  PROVE  r = Tail(q)
  <1> DEFINE n == Cardinality(W)
  <1>1. n \in Nat /\ n # 0
    BY DEF Lists
  <1>2. q \in Seq(W) /\ Len(q) = n
    BY ListSequence
  <1>3. r \in Seq(W) /\ Len(r) = n - 1
    <2>1. r \in Seq(V) /\ Len(r) = n - 1
      BY ListSequence
    <2> QED BY <2>1
  <1>4. ASSUME NEW i \in 1 .. n - 1
        PROVE  r[i] = q[i + 1]
    <2>1. r[i] \in V /\ later[r[i]] = i - 1
      BY DEF Lists
    <2>2. r[i] \in W /\ place[r[i]] = (i - 1) + 1
      BY <2>1
    <2>3. q[place[r[i]] + 1] = r[i]
      BY <2>2 DEF Lists
    <2>4. (i - 1) + 1 = i
      BY <1>1
    <2> QED BY <2>2, <2>3, <2>4
  <1> HIDE DEF n
  <1>5. q # <<>>
    BY <1>1, <1>2
  <1>6. /\ Tail(q) \in Seq(W) /\ Len(Tail(q)) = n - 1
        /\ \A i \in 1 .. n - 1 : Tail(q)[i] = q[i + 1]
    BY <1>2, <1>5, HeadTailProperties
  <1>7. \A i \in 1 .. Len(r) : r[i] = Tail(q)[i]
    BY <1>3, <1>4, <1>6
  <1> QED BY <1>3, <1>6, <1>7, SeqEqual

\* The waiter at place i of the queue is the one with i - 1 others ahead.
LEMMA Places ==
  ASSUME IInv
  PROVE  Lists(Queue, Waiting, Place)
  <1> DEFINE n == Cardinality(Waiting)
  <1>1. n \in Nat
    BY WaitingFinite, ModAssumption
  <1>2. ASSUME NEW i \in 1 .. n
        PROVE  Queue[i] \in Waiting /\ Ahead(Queue[i]) = i - 1
    <2>1. i - 1 \in 0 .. n - 1
      BY <1>1
    <2>2. \E t \in Waiting : Ahead(t) = i - 1
      BY <2>1 DEF IInv, PlacesTaken
    <2>3. Queue[i] = CHOOSE t \in Waiting : Ahead(t) = i - 1 \/ \A s \in Waiting : Ahead(s) # i - 1
      BY DEF Queue
    <2> QED BY <2>2, <2>3
  <1>3. ASSUME NEW s \in Waiting, NEW t \in Waiting, Ahead(s) = Ahead(t)
        PROVE  s = t
    <2>1. mine[s] \in Ticket /\ mine[t] \in Ticket /\ ticket \in Ticket
      BY DEF Waiting, IInv, TypeOK
    <2>2. mine[s] = mine[t]
      BY <1>3, <2>1, SameDistance DEF Ahead
    <2> QED BY <2>2 DEF IInv, TicketsDistinct
  <1>4. ASSUME NEW t \in Waiting
        PROVE  Ahead(t) + 1 \in 1 .. n /\ Queue[Ahead(t) + 1] = t
    <2>1. Ahead(t) \in Nat
      BY ModDifference, ModAssumption DEF Ahead, Waiting, IInv, TypeOK, Ticket
    <2>2. Ahead(t) < n
      BY DEF IInv, TicketsInUse
    <2>3. Ahead(t) + 1 \in 1 .. n /\ (Ahead(t) + 1) - 1 = Ahead(t)
      BY <1>1, <2>1, <2>2
    <2>4. Queue[Ahead(t) + 1] \in Waiting /\ Ahead(Queue[Ahead(t) + 1]) = Ahead(t)
      BY <1>2, <2>3
    <2>5. Queue[Ahead(t) + 1] = t
      BY <1>3, <2>4
    <2> QED BY <2>3, <2>5
  <1>5. Queue = [i \in 1 .. n |-> Queue[i]]
    BY DEF Queue
  <1>6. \A t \in Waiting : Place[t] = Ahead(t)
    BY DEF Place, Waiting
  <1> QED BY <1>1, <1>2, <1>4, <1>5, <1>6 DEF Lists

LEMMA SameQueue ==
  ASSUME UNCHANGED <<Waiting, mine, ticket>>
  PROVE  Queue' = Queue
BY DEF Queue, Ahead

\* Take appends the caller.
LEMMA TakeRequest ==
  ASSUME IInv, IInv', NEW t \in Thread, Take(t)
  PROVE  /\ Queue' = Append(Queue, t) /\ t \notin {Queue[i] : i \in DOMAIN Queue}
         /\ Held' = Held
  <1>1. Waiting' = Waiting \cup {t} /\ t \notin Waiting
    BY DEF Take, Waiting, IInv, TypeOK
  <1>2. Cardinality(Waiting') = Cardinality(Waiting) + 1
    BY <1>1, WaitingFinite, FS_AddElement
  <1>3. \A s \in Waiting : Place'[s] = Place[s]
    BY <1>1 DEF Take, Place, Ahead, Waiting, IInv, TypeOK
  <1>4. Lists(Queue, Waiting, Place) /\ Lists(Queue', Waiting', Place')
    <2>1. (IInv => Lists(Queue, Waiting, Place))'
      BY Places, PTL
    <2> QED BY <2>1, Places DEF Lists
  <1>5. Queue' = Append(Queue, t)
    BY <1>1, <1>2, <1>3, <1>4, ListAppend
  <1>6. {Queue[i] : i \in DOMAIN Queue} = Waiting
    BY <1>4, ListSequence
  <1>7. Held' = Held
    BY DEF Take, Held, IInv, TypeOK
  <1> QED BY <1>1, <1>5, <1>6, <1>7

\* Acquire grants the lock to the head, when nobody holds it.
LEMMA AcquireGrant ==
  ASSUME IInv, NEW t \in Thread, Acquire(t)
  PROVE  Queue # <<>> /\ Queue' = Queue /\ ~Held /\ Held'
  <1>1. Waiting' = Waiting /\ t \in Waiting
    BY DEF Acquire, Waiting, IInv, TypeOK
  <1>2. Queue' = Queue
    BY <1>1, SameQueue DEF Acquire
  <1>3. ~Held
    BY <1>1 DEF Acquire, Held, IInv, TypeOK, HolderServed, TicketsDistinct, Waiting
  <1>4. Held'
    BY DEF Acquire, Held, IInv, TypeOK
  <1>5. {Queue[i] : i \in DOMAIN Queue} # {}
    BY <1>1, Places, ListSequence
  <1>6. Queue # <<>>
    BY <1>5
  <1> QED BY <1>2, <1>3, <1>4, <1>6

\* Unlock takes the head off.
LEMMA UnlockLeave ==
  ASSUME IInv, IInv', NEW t \in Thread, Unlock(t)
  PROVE  Queue' = Tail(Queue) /\ Held /\ ~Held'
  <1>1. Waiting' = Waiting \ {t} /\ t \in Waiting
    BY DEF Unlock, Waiting, IInv, TypeOK
  <1>2. Cardinality(Waiting') = Cardinality(Waiting) - 1
    BY <1>1, WaitingFinite, FS_RemoveElement
  <1>3. mine[t] = ticket /\ mine' = mine /\ ticket' = Inc(ticket)
    BY DEF Unlock, IInv, HolderServed
  <1>4. ASSUME NEW s \in Waiting'
        PROVE  Place[s] = Place'[s] + 1
    <2>1. s \in Thread /\ s \in Waiting /\ mine[s] # ticket
      BY <1>1, <1>3 DEF IInv, TicketsDistinct, Waiting
    <2>2. mine[s] \in Ticket /\ ticket \in Ticket /\ ticket' \in Ticket
      BY <2>1 DEF IInv, TypeOK
    <2>3. /\ Ahead(s) = IF mine[s] >= ticket THEN mine[s] - ticket ELSE mine[s] - ticket + TicketMod
          /\ Ahead(s)' = IF mine[s] >= ticket' THEN mine[s] - ticket' ELSE mine[s] - ticket' + TicketMod
      BY <2>2, <1>3, ModDifference DEF Ahead
    <2>4. ticket' = IF ticket = TicketMod - 1 THEN 0 ELSE ticket + 1
      BY <1>3, <2>2, IncValue
    <2>5. Ahead(s) = Ahead(s)' + 1
      BY <2>1, <2>2, <2>3, <2>4, ModAssumption DEF Ticket
    <2> QED BY <2>1, <2>5 DEF Place
  <1>5. Lists(Queue, Waiting, Place) /\ Lists(Queue', Waiting', Place')
    <2>1. (IInv => Lists(Queue, Waiting, Place))'
      BY Places, PTL
    <2> QED BY <2>1, Places DEF Lists
  <1>6. Queue' = Tail(Queue)
    BY <1>1, <1>2, <1>4, <1>5, ListTail
  <1>7. Held /\ ~Held'
    BY <1>3 DEF Unlock, Held, IInv, TypeOK, HolderServed, TicketsDistinct, Waiting
  <1> QED BY <1>6, <1>7

\* A ticket lock is a first-come first-served lock, for any number of threads
\* and of tickets, across the wrap-around of its counters; that its callers
\* are served at all is left to the runs.
THEOREM ServedFifo == Spec => Fifo!Init /\ [][Fifo!Next]_(Fifo!vars)
  <1>1. Init => Fifo!Init
    <2> SUFFICES ASSUME Init PROVE Fifo!Init
      OBVIOUS
    <2>1. Waiting = {} /\ ~Held
      BY DEF Init, Waiting, Held
    <2>2. Cardinality(Waiting) = 0
      BY <2>1, FS_EmptySet
    <2>3. Queue = <<>>
      BY <2>2 DEF Queue
    <2> QED BY <2>1, <2>3 DEF Fifo!Init, Held
  <1>2. IInv /\ IInv' /\ [Next]_vars => [Fifo!Next]_(Fifo!vars)
    <2> SUFFICES ASSUME IInv, IInv', [Next]_vars
                 PROVE  [Fifo!Next]_(Fifo!vars)
      OBVIOUS
    <2>1. ASSUME NEW t \in Thread, Take(t)
          PROVE  Fifo!Request(t)
      BY <2>1, TakeRequest DEF Fifo!Request, Fifo!ToSet, Held
    <2>2. ASSUME NEW t \in Thread, Acquire(t)
          PROVE  Fifo!Grant
      BY <2>2, AcquireGrant DEF Fifo!Grant, Held
    <2>3. ASSUME NEW t \in Thread, Unlock(t)
          PROVE  Fifo!Leave
      BY <2>3, UnlockLeave DEF Fifo!Leave, Held
    <2>4. CASE UNCHANGED vars
      <3>1. UNCHANGED <<Waiting, mine, ticket, Held>>
        BY <2>4 DEF vars, Waiting, Held
      <3> QED BY <3>1, SameQueue DEF Fifo!vars, Held
    <2> QED BY <2>1, <2>2, <2>3, <2>4 DEF Next, Fifo!Next
  <1> QED BY <1>1, <1>2, StepIInv, InitIInv, TypeCorrect, PTL DEF Spec
=============================================================================
