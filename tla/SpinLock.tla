------------------------------ MODULE SpinLock ------------------------------
(***************************************************************************)
(* The ticket lock of lock.c, as the threads of the kernel use it with     *)
(* plain lock() and unlock(): interrupts stay enabled, so the steps of     *)
(* different threads interleave at every memory access.                    *)
(*                                                                         *)
(* users and ticket are uint16_t fields that wrap around: the number of    *)
(* their values, 2^16, is the constant TicketMod.                          *)
(***************************************************************************)
EXTENDS Integers, FiniteSets, SequencesExt

CONSTANTS Thread,      \* threads that may call lock() on this lock
          TicketMod    \* number of values of a uint16_t

ASSUME ThreadAssumption == IsFiniteSet(Thread)
ASSUME ModAssumption == TicketMod \in Nat \ {0}

\* One waiter too many and two callers draw the same ticket.
ASSUME FewThreads == Cardinality(Thread) <= TicketMod

Ticket == 0 .. TicketMod - 1

VARIABLES users,    \* lock->users: the next ticket to draw
          ticket,   \* lock->ticket: the ticket being served
          mine,     \* mine[t]: the local variable `ticket' of t's call
          pc        \* where t is: outside, in the spin loop, after it

vars == <<users, ticket, mine, pc>>

\* Mutation: a counter that wraps one too late.
IncPastEnd(n) == IF n = TicketMod THEN 0 ELSE n + 1

\* The increment of a uint16_t.
Inc(n) == (n + 1) % TicketMod

\* init_lock
Init ==
  /\ users = 0
  /\ ticket = 0
  /\ mine = [t \in Thread |-> 0]
  /\ pc = [t \in Thread |-> "outside"]

\* Mutation: the ticket is not drawn atomically with the increment.
TakeWithoutIncrement(t) ==
  /\ pc[t] = "outside"
  /\ mine' = [mine EXCEPT ![t] = users]
  /\ pc' = [pc EXCEPT ![t] = "spin"]
  /\ UNCHANGED <<users, ticket>>

\* lock(): __sync_fetch_and_add(&lock->users, 1), one atomic instruction
Take(t) ==
  /\ pc[t] = "outside"
  /\ mine' = [mine EXCEPT ![t] = users]
  /\ users' = Inc(users)
  /\ pc' = [pc EXCEPT ![t] = "spin"]
  /\ UNCHANGED ticket

\* Mutation: any waiter may pass when no one holds the lock.
AcquireAny(t) ==
  /\ pc[t] = "spin"
  /\ \A s \in Thread : pc[s] # "critical"
  /\ pc' = [pc EXCEPT ![t] = "critical"]
  /\ UNCHANGED <<users, ticket, mine>>

\* lock(): the read of lock->ticket that ends the spin loop
Acquire(t) ==
  /\ pc[t] = "spin"
  /\ ticket = mine[t]
  /\ pc' = [pc EXCEPT ![t] = "critical"]
  /\ UNCHANGED <<users, ticket, mine>>

\* unlock()
Unlock(t) ==
  /\ pc[t] = "critical"
  /\ ticket' = Inc(ticket)
  /\ pc' = [pc EXCEPT ![t] = "outside"]
  /\ UNCHANGED <<users, mine>>

Next == \E t \in Thread : Take(t) \/ Acquire(t) \/ Unlock(t)

(***************************************************************************)
(* The timer of pit.c preempts a spinning thread after its quantum and the *)
(* ring of threads.c gives every thread another one, so a thread that can  *)
(* leave the loop does, and no thread stays in a critical section forever. *)
(* Nothing obliges a thread to call lock().                                *)
(***************************************************************************)
Fairness == \A t \in Thread : WF_vars(Acquire(t)) /\ WF_vars(Unlock(t))

Spec == Init /\ [][Next]_vars /\ Fairness

-----------------------------------------------------------------------------
(* Properties *)

TypeOK ==
  /\ users \in Ticket
  /\ ticket \in Ticket
  /\ mine \in [Thread -> Ticket]
  /\ pc \in [Thread -> {"outside", "spin", "critical"}]

\* The section between lock() and unlock() has one thread at a time, also
\* after the 16-bit counters have wrapped around.
MutualExclusion ==
  \A s, t \in Thread : pc[s] = "critical" /\ pc[t] = "critical" => s = t

\* Every thread that called lock() gets out of the spin loop.
StarvationFree ==
  \A t \in Thread : pc[t] = "spin" ~> pc[t] = "critical"

(***************************************************************************)
(* The refinement of FifoLock: the callers that have not unlocked yet, in  *)
(* the order of their tickets counted from the one being served.           *)
(***************************************************************************)
Waiting == {t \in Thread : pc[t] # "outside"}

Ahead(t) == (mine[t] - ticket) % TicketMod

\* The tickets in use follow one another, so a waiter is at each place.
Queue ==
  [i \in 1 .. Cardinality(Waiting) |->
     CHOOSE t \in Waiting : Ahead(t) = i - 1 \/ \A s \in Waiting : Ahead(s) # i - 1]

Fifo == INSTANCE FifoLock WITH
          queue   <- Queue,
          granted <- \E t \in Thread : pc[t] = "critical"

\* lock() and unlock() are a first-come first-served lock: no thread
\* overtakes another that took its ticket before.
ServedInOrder == Fifo!Spec
=============================================================================
