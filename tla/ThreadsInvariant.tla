-------------------------- MODULE ThreadsInvariant --------------------------
(***************************************************************************)
(* Why the locking of threads.c is right: the invariant that implies       *)
(* LockDiscipline, Suspended and StackAlive and is inductive.  Which locks *)
(* are held depends on where the suspended threads continue, this on who   *)
(* may be switched to, this on the order of the list that thread_yield     *)
(* scans, and the list on what thread_join takes off it.                   *)
(***************************************************************************)
EXTENDS Threads

Used(t) == state[t] # "UNUSED"

\* What runs on top of something else, and everything below it.
SubroutineLabel ==
  HandlerLabel \cup {"wrapper_unlock", "yield_lock", "yield_pick", "yield_scan", "yield_unlock"}

YieldLabel == {"yield_lock", "yield_pick", "yield_scan", "yield_unlock"}

\* The places outside critical sections, where interrupts are on.
OpenLabel == Label \ (CriticalLabel \cup {"tick_lock"})

\* A stack s with the place p on top is one call of the thread's own and, on
\* top of it, calls of thread_yield and interrupt handlers, all entered with
\* interrupts on.  thread_exit calls thread_yield and nothing else.
WellStacked(s, p) ==
  /\ \A i \in DOMAIN s :
       /\ s[i] \in OpenLabel
       /\ s[i] \in SubroutineLabel <=> i # Len(s)
  /\ p \in SubroutineLabel <=> s # <<>>
  /\ Bottom(s, p) = "exit_returned" =>
       /\ s # <<>>
       /\ (IF Len(s) = 1 THEN p ELSE s[Len(s) - 1]) \in YieldLabel

StackShape == \A t \in Thread : Used(t) => WellStacked(stack[t], pc[t])

\* A thread has finished exactly when it is past the body of thread_exit.
Finished ==
  \A t \in Thread : Used(t) =>
    (state[t] \in {"FINISHED", "RELEASED"} <=> Base(t) \in {"exit_unlock", "exit_returned"})

\* The thread on the processor; only the scan of thread_yield tells
\* current_thread from it.  A thread that returns from thread_yield is
\* RUNNING.
OnProcessor ==
  /\ state[cpu] \in {"RUNNING", "FINISHED"}
  /\ ~At("yield_scan") => current_thread = cpu
  /\ pc[cpu] \in {"yield_unlock", "wrapper_unlock"} => state[cpu] = "RUNNING"

\* The scan has not come round to the thread that yields, unless that is
\* Main, which never finishes.
ScanBounded ==
  At("yield_scan") =>
    /\ old_thread = cpu
    /\ \E i, j \in DOMAIN ring :
         /\ ring[i] = cpu /\ ring[j] = current_thread
         /\ j > i \/ j = 1

RingOrder ==
  /\ ring # <<>> /\ ring[1] = Main /\ state[Main] = "RUNNING"
  /\ \A i, j \in DOMAIN ring : ring[i] = ring[j] => i = j
  /\ \A i \in DOMAIN ring : Used(ring[i])
  /\ \E i \in DOMAIN ring : ring[i] = cpu

InRing(t) == \E i \in DOMAIN ring : ring[i] = t

\* A thread can be joined by one thread, its creator; while that may still
\* take it off the list it is there, and freed only afterwards.
Ownership ==
  /\ \A s \in Thread : target[s] # NoThread => Used(target[s]) /\ target[s] # Main
  /\ \A s \in Thread : \A t \in handles[s] : Used(t) /\ t # Main /\ InRing(t)
  /\ \A r, s \in Thread : target[r] = target[s] /\ target[r] # NoThread => r = s
  /\ \A r, s \in Thread : handles[r] \cap handles[s] # {} => r = s
  /\ \A r, s \in Thread : target[r] \notin handles[s]

Joining ==
  \A s \in Thread : Used(s) =>
    /\ Base(s) \in {"join_wait", "join_read", "join_lock", "join_del"} =>
         target[s] # NoThread /\ InRing(target[s])
    /\ Base(s) \in {"join_read", "join_lock", "join_del",
                    "join_unlock", "join_free", "join_spin"} =>
         target[s] # NoThread /\ state[target[s]] = "RELEASED"
    /\ Base(s) \in {"join_unlock", "join_free", "join_spin"} => ~InRing(target[s])

\* A thread object is off the list only between the list_del and the free of
\* the thread_join for it.
Unlisted ==
  \A t \in Thread : Used(t) /\ ~InRing(t) => \E s \in Thread : Deleting(s) /\ target[s] = t

\* The first thread runs main(), which never returns.
MainStays == Base(Main) \notin {"exit_lock", "exit_body"}

\* A thread between lock() and unlock() of an allocator is the one served.
HeapHeld ==
  \A s \in Thread : Used(s) =>
    /\ Base(s) \in {"join_freed", "slab_held", "page_spin", "page_held"} => Served("slab") = s
    /\ Base(s) \in {"buddy_held", "page_held"} => Served("buddy") = s

IInv ==
  /\ TypeOK
  /\ LockDiscipline
  /\ Suspended
  /\ StackShape
  /\ Finished
  /\ OnProcessor
  /\ ScanBounded
  /\ RingOrder
  /\ Ownership
  /\ Joining
  /\ Unlisted
  /\ MainStays
  /\ HeapHeld
=============================================================================
