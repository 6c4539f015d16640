------------------------------ MODULE Threads -------------------------------
(***************************************************************************)
(* The threads of the kernel: threads.c, the context switch of             *)
(* threads_wrapper.S, the lock that disables interrupts of lock.c, and the *)
(* timer interrupt of pit.c and wrapper.S that preempts the running thread.*)
(*                                                                         *)
(* There is one processor.  Its stack pointer is in the stack of thread    *)
(* cpu, and pc[cpu] names the next thing that thread does; interrupts is   *)
(* the flag IF.  Code that runs with interrupts enabled is cut into one    *)
(* step per access to shared state, because the timer may come between any *)
(* two.  pc[t] of the other threads is where they continue, and stack[t]   *)
(* holds the places to return to, the innermost first: a call of           *)
(* thread_yield pushes one, and so does an interrupt.                      *)
(*                                                                         *)
(* threads_list is the sequence ring, which starts with Main because       *)
(* threads_list points to the list node of the initial thread; LinkedList  *)
(* shows that the operations of list.c implement those of the sequence.    *)
(* The ticket locks of the two allocators are the sequences heap[lock] of  *)
(* the threads that drew a ticket, which is what SpinLock is shown to      *)
(* implement; threads_lock never has a waiter (LockDiscipline).            *)
(***************************************************************************)
EXTENDS Integers, Sequences, SequencesExt, FiniteSets

CONSTANTS
  Thread,       \* struct thread objects: the threads that can exist at once
  Main,         \* the thread init_threads makes of the caller
  Value,        \* values a thread can return
  NoThread, NoValue,
  Quantum,      \* timer ticks in THREAD_QUANTUM
  MaxNest,      \* bound: timer handlers active on one stack
  Spawners,     \* threads that call thread_create and thread_join
  HeapUsers     \* threads that call an allocator themselves

ASSUME MainAssumption == Main \in Thread /\ NoThread \notin Thread
ASSUME ValueAssumption == NoValue \notin Value
ASSUME BoundAssumption == Quantum \in Nat \ {0} /\ MaxNest \in Nat

ThreadState == {"UNUSED", "RUNNING", "FINISHED", "RELEASED"}

HeapLock == {"slab", "buddy"}

\* The places where the interrupt handler runs, and all others.
HandlerLabel == {"tick_lock", "tick_count", "tick_unlock", "tick_expired", "tick_iret"}

Label == HandlerLabel \cup
  {"run", "wrapper_unlock",
   "create_lock", "create_body", "create_unlock",
   "exit_lock", "exit_body", "exit_unlock", "exit_returned",
   "yield_lock", "yield_pick", "yield_scan", "yield_unlock",
   "join_wait", "join_read", "join_lock", "join_del", "join_unlock",
   "join_free", "join_spin", "join_freed",
   "slab_spin", "slab_held", "buddy_spin", "buddy_held", "page_spin", "page_held"}

VARIABLES
  state, return_value,       \* fields of struct thread
  ring,                      \* the list threads_list is the head of
  current_thread,
  old_thread,                \* the local variable of thread_yield
  elapsed_time,              \* in ticks
  threads_lock,              \* whether it is locked
  lock_nesting_depth,
  interrupts,
  cpu, pc, stack,
  saved_if,                  \* IF in the rflags that switch_threads will pop
  heap,
  arg,                       \* the value each thread passed to thread_exit
  target,                    \* the thread each thread is joining
  received,                  \* *value_ptr of that thread_join
  handles                    \* threads it created and has not joined

fields   == <<state, return_value, ring>>
schedule == <<current_thread, old_thread, elapsed_time>>
locking  == <<threads_lock, lock_nesting_depth, interrupts>>
context  == <<cpu, saved_if>>
user     == <<arg, target, received, handles>>

vars == <<fields, schedule, locking, context, pc, stack, heap, user>>

-----------------------------------------------------------------------------
(* Control flow of the thread on the processor *)

At(l) == pc[cpu] = l

Goto(l) == pc' = [pc EXCEPT ![cpu] = l] /\ UNCHANGED stack

Call(l, return) ==
  /\ pc' = [pc EXCEPT ![cpu] = l]
  /\ stack' = [stack EXCEPT ![cpu] = <<return>> \o @]

Return ==
  /\ pc' = [pc EXCEPT ![cpu] = Head(stack[cpu])]
  /\ stack' = [stack EXCEPT ![cpu] = Tail(@)]

\* The place of t outside of thread_yield and of the interrupt handler: the
\* one below all calls of the stack s with p on top.
Bottom(s, p) == IF s = <<>> THEN p ELSE s[Len(s)]

Base(t) == Bottom(stack[t], pc[t])

\* Timer handlers that have not returned yet on t's stack.
Nest(t) ==
  Cardinality({i \in DOMAIN stack[t] : stack[t][i] \in HandlerLabel})
    + (IF pc[t] \in HandlerLabel THEN 1 ELSE 0)

\* The thread whose ticket is served by the lock of an allocator.
Served(l) == IF heap[l] = <<>> THEN NoThread ELSE heap[l][1]

\* lock_with_interrupts(&threads_lock): if it is locked, the loop in lock()
\* never ends, for interrupts are off.
LockWithInterrupts(from, to) ==
  /\ At(from)
  /\ interrupts' = FALSE
  /\ IF threads_lock
     THEN UNCHANGED <<threads_lock, lock_nesting_depth, pc, stack>>
     ELSE /\ threads_lock' = TRUE
          /\ lock_nesting_depth' = lock_nesting_depth + 1
          /\ Goto(to)
  /\ UNCHANGED <<fields, schedule, context, heap, user>>

\* unlock_with_interrupts(&threads_lock)
UnlockWithInterrupts(from) ==
  /\ At(from)
  /\ threads_lock' = FALSE
  /\ lock_nesting_depth' = lock_nesting_depth - 1
  /\ interrupts' = (interrupts \/ lock_nesting_depth = 1)
  /\ UNCHANGED <<fields, schedule, context, heap, user>>

\* Mutation: the scan starts over at the head of the list.
NextFromHead(t) == IF t = ring[1] /\ Len(ring) > 1 THEN ring[2] ELSE ring[1]

\* The node after t in the list, and list_del of t.
Position(t) == CHOOSE i \in DOMAIN ring : ring[i] = t

NextInRing(t) == IF Position(t) = Len(ring) THEN ring[1] ELSE ring[Position(t) + 1]

RingWithout(t) ==
  [i \in 1 .. Len(ring) - 1 |-> IF i < Position(t) THEN ring[i] ELSE ring[i + 1]]

-----------------------------------------------------------------------------
(* init_threads, after which main() enables interrupts *)

Init ==
  /\ state = [t \in Thread |-> IF t = Main THEN "RUNNING" ELSE "UNUSED"]
  /\ return_value = [t \in Thread |-> NoValue]
  /\ ring = <<Main>>
  /\ current_thread = Main
  /\ old_thread = NoThread
  /\ elapsed_time = 0
  /\ threads_lock = FALSE
  /\ lock_nesting_depth = 0
  /\ interrupts = TRUE
  /\ cpu = Main
  /\ pc = [t \in Thread |-> "run"]
  /\ stack = [t \in Thread |-> <<>>]
  /\ saved_if = [t \in Thread |-> FALSE]
  /\ heap = [l \in HeapLock |-> <<>>]
  /\ arg = [t \in Thread |-> NoValue]
  /\ target = [t \in Thread |-> NoThread]
  /\ received = [t \in Thread |-> NoValue]
  /\ handles = [t \in Thread |-> {}]

-----------------------------------------------------------------------------
(* thread_create *)

Creating == {s \in Thread : Base(s) \in {"create_lock", "create_body"}}

\* The bound on the threads that exist at once: a caller finds a free object.
CreateCall ==
  /\ At("run")
  /\ cpu \in Spawners
  /\ Cardinality(Creating) < Cardinality({t \in Thread : state[t] = "UNUSED"})
  /\ Goto("create_lock")
  /\ UNCHANGED <<fields, schedule, locking, context, heap, user>>

CreateLock == LockWithInterrupts("create_lock", "create_body")

\* Mutation: the flags of a new thread have IF set.
CreateInterruptible(t) ==
  /\ At("create_body")
  /\ heap["slab"] = <<>> /\ heap["buddy"] = <<>>
  /\ state[t] = "UNUSED"
  /\ state' = [state EXCEPT ![t] = "RUNNING"]
  /\ ring' = Append(ring, t)
  /\ pc' = [pc EXCEPT ![cpu] = "create_unlock", ![t] = "wrapper_unlock"]
  /\ stack' = [stack EXCEPT ![t] = <<"run">>]
  /\ saved_if' = [saved_if EXCEPT ![t] = TRUE]
  /\ handles' = [handles EXCEPT ![cpu] = @ \cup {t}, ![t] = {}]
  /\ UNCHANGED <<return_value, schedule, locking, cpu, heap, arg, target, received>>

\* Everything between the lock and the unlock.  slab_allocator_allocate and
\* allocate_page take the locks of the allocators: a waiter there spins
\* forever, for interrupts are off.
CreateBody(t) ==
  /\ At("create_body")
  /\ heap["slab"] = <<>> /\ heap["buddy"] = <<>>
  /\ state[t] = "UNUSED"
  /\ state' = [state EXCEPT ![t] = "RUNNING"]
  /\ ring' = Append(ring, t)
  /\ pc' = [pc EXCEPT ![cpu] = "create_unlock", ![t] = "wrapper_unlock"]
  /\ stack' = [stack EXCEPT ![t] = <<"run">>]
  /\ saved_if' = [saved_if EXCEPT ![t] = interrupts]   \* pushfq
  /\ handles' = [handles EXCEPT ![cpu] = @ \cup {t}, ![t] = {}]
  /\ UNCHANGED <<return_value, schedule, locking, cpu, heap, arg, target, received>>

CreateUnlock == UnlockWithInterrupts("create_unlock") /\ Goto("run")

\* function_wrapper of a thread that runs for the first time
WrapperUnlock == UnlockWithInterrupts("wrapper_unlock") /\ Return

-----------------------------------------------------------------------------
(* thread_yield and switch_threads *)

YieldCall ==
  /\ At("run")
  /\ Call("yield_lock", "run")
  /\ UNCHANGED <<fields, schedule, locking, context, heap, user>>

YieldLock == LockWithInterrupts("yield_lock", "yield_pick")

YieldPick ==
  /\ At("yield_pick")
  /\ old_thread' = current_thread
  /\ current_thread' = NextInRing(current_thread)
  /\ Goto("yield_scan")
  /\ UNCHANGED <<fields, elapsed_time, locking, context, heap, user>>

\* Mutation: a finished thread is skipped.
YieldReapNothing ==
  /\ At("yield_scan")
  /\ state[current_thread] = "FINISHED"
  /\ current_thread' = NextInRing(current_thread)
  /\ UNCHANGED <<fields, old_thread, elapsed_time, locking, context, pc, stack, heap, user>>

\* free_page takes the lock of the buddy allocator, with interrupts off.
YieldReap ==
  /\ At("yield_scan")
  /\ state[current_thread] = "FINISHED"
  /\ heap["buddy"] = <<>>
  /\ state' = [state EXCEPT ![current_thread] = "RELEASED"]
  /\ current_thread' = NextInRing(current_thread)
  /\ UNCHANGED <<return_value, ring, old_thread, elapsed_time, locking, context,
                 pc, stack, heap, user>>

YieldSkip ==
  /\ At("yield_scan")
  /\ state[current_thread] = "RELEASED"
  /\ current_thread' = NextInRing(current_thread)
  /\ UNCHANGED <<fields, old_thread, elapsed_time, locking, context, pc, stack, heap, user>>

YieldStay ==
  /\ At("yield_scan")
  /\ state[current_thread] = "RUNNING"
  /\ current_thread = old_thread
  /\ elapsed_time' = 0
  /\ old_thread' = NoThread
  /\ Goto("yield_unlock")
  /\ UNCHANGED <<fields, current_thread, locking, context, heap, user>>

\* Mutation: thread_yield switches to finished threads too.
YieldSwitchFinished ==
  /\ At("yield_scan")
  /\ state[current_thread] # "RELEASED"
  /\ current_thread # old_thread
  /\ elapsed_time' = 0
  /\ old_thread' = NoThread
  /\ Goto("yield_unlock")
  /\ saved_if' = [saved_if EXCEPT ![cpu] = interrupts]
  /\ cpu' = current_thread
  /\ interrupts' = saved_if[current_thread]
  /\ UNCHANGED <<fields, current_thread, threads_lock, lock_nesting_depth, heap, user>>

\* switch_threads: pushfq in the old stack, popfq and ret in the new one
YieldSwitch ==
  /\ At("yield_scan")
  /\ state[current_thread] = "RUNNING"
  /\ current_thread # old_thread
  /\ elapsed_time' = 0
  /\ old_thread' = NoThread
  /\ Goto("yield_unlock")
  /\ saved_if' = [saved_if EXCEPT ![cpu] = interrupts]
  /\ cpu' = current_thread
  /\ interrupts' = saved_if[current_thread]
  /\ UNCHANGED <<fields, current_thread, threads_lock, lock_nesting_depth, heap, user>>

YieldUnlock == UnlockWithInterrupts("yield_unlock") /\ Return

-----------------------------------------------------------------------------
(* thread_exit, called by the thread or by function_wrapper when the        *)
(* thread's function returns.  main() never ends.                           *)

ExitCall(v) ==
  /\ At("run")
  /\ cpu # Main
  /\ arg' = [arg EXCEPT ![cpu] = v]
  /\ Goto("exit_lock")
  /\ UNCHANGED <<fields, schedule, locking, context, heap, target, received, handles>>

ExitLock == LockWithInterrupts("exit_lock", "exit_body")

\* Mutation: the value is not stored.
ExitWithoutValue ==
  /\ At("exit_body")
  /\ state' = [state EXCEPT ![current_thread] = "FINISHED"]
  /\ Goto("exit_unlock")
  /\ UNCHANGED <<return_value, ring, schedule, locking, context, heap, user>>

ExitBody ==
  /\ At("exit_body")
  /\ state' = [state EXCEPT ![current_thread] = "FINISHED"]
  /\ return_value' = [return_value EXCEPT ![current_thread] = arg[cpu]]
  /\ Goto("exit_unlock")
  /\ UNCHANGED <<ring, schedule, locking, context, heap, user>>

ExitUnlock == UnlockWithInterrupts("exit_unlock") /\ Call("yield_lock", "exit_returned")

-----------------------------------------------------------------------------
(* thread_join *)

JoinCall(t) ==
  /\ At("run")
  /\ t \in handles[cpu]
  /\ target' = [target EXCEPT ![cpu] = t]
  /\ handles' = [handles EXCEPT ![cpu] = @ \ {t}]
  /\ Goto("join_wait")
  /\ UNCHANGED <<fields, schedule, locking, context, heap, arg, received>>

\* Mutation: thread_join waits for the end of the thread only.
JoinWaitFinished ==
  /\ At("join_wait")
  /\ IF state[target[cpu]] = "RUNNING"
     THEN Call("yield_lock", "join_wait")
     ELSE Goto("join_read")
  /\ UNCHANGED <<fields, schedule, locking, context, heap, user>>

JoinWait ==
  /\ At("join_wait")
  /\ IF state[target[cpu]] # "RELEASED"
     THEN Call("yield_lock", "join_wait")
     ELSE Goto("join_read")
  /\ UNCHANGED <<fields, schedule, locking, context, heap, user>>

\* Mutation: the caller gets the thread and not its value.
JoinReadThread ==
  /\ At("join_read")
  /\ received' = [received EXCEPT ![cpu] = target[cpu]]
  /\ Goto("join_lock")
  /\ UNCHANGED <<fields, schedule, locking, context, heap, arg, target, handles>>

JoinRead ==
  /\ At("join_read")
  /\ received' = [received EXCEPT ![cpu] = return_value[target[cpu]]]
  /\ Goto("join_lock")
  /\ UNCHANGED <<fields, schedule, locking, context, heap, arg, target, handles>>

JoinLock == LockWithInterrupts("join_lock", "join_del")

\* Mutation: thread_join forgets the list_del.
JoinKeep ==
  /\ At("join_del")
  /\ Goto("join_unlock")
  /\ UNCHANGED <<fields, schedule, locking, context, heap, user>>

JoinDel ==
  /\ At("join_del")
  /\ ring' = RingWithout(target[cpu])
  /\ Goto("join_unlock")
  /\ UNCHANGED <<state, return_value, schedule, locking, context, heap, user>>

JoinUnlock == UnlockWithInterrupts("join_unlock") /\ Goto("join_free")

\* slab_allocator_free(t), with interrupts enabled
JoinTakeTicket ==
  /\ At("join_free")
  /\ heap' = [heap EXCEPT !["slab"] = Append(@, cpu)]
  /\ Goto("join_spin")
  /\ UNCHANGED <<fields, schedule, locking, context, user>>

\* What is left of the object is never read again: the model forgets it.
JoinFree ==
  /\ At("join_spin")
  /\ Served("slab") = cpu
  /\ state' = [state EXCEPT ![target[cpu]] = "UNUSED"]
  /\ return_value' = [return_value EXCEPT ![target[cpu]] = NoValue]
  /\ arg' = [arg EXCEPT ![target[cpu]] = NoValue]
  /\ pc' = [pc EXCEPT ![cpu] = "join_freed", ![target[cpu]] = "run"]
  /\ stack' = [stack EXCEPT ![target[cpu]] = <<>>]
  /\ target' = [target EXCEPT ![cpu] = NoThread]
  /\ UNCHANGED <<ring, schedule, locking, context, heap, received, handles>>

JoinReturn ==
  /\ At("join_freed")
  /\ heap' = [heap EXCEPT !["slab"] = Tail(@)]
  /\ Goto("run")
  /\ UNCHANGED <<fields, schedule, locking, context, user>>

-----------------------------------------------------------------------------
(* A thread's own calls of slab_allocator_allocate, slab_allocator_free,    *)
(* allocate_page and free_page, as the file system and the tests make them. *)

SpinLabel == [slab |-> "slab_spin", buddy |-> "buddy_spin"]
HeldLabel == [slab |-> "slab_held", buddy |-> "buddy_held"]

HeapCall(l) ==
  /\ At("run")
  /\ cpu \in HeapUsers
  /\ heap' = [heap EXCEPT ![l] = Append(@, cpu)]
  /\ Goto(SpinLabel[l])
  /\ UNCHANGED <<fields, schedule, locking, context, user>>

HeapAcquire(l) ==
  /\ At(SpinLabel[l])
  /\ Served(l) = cpu
  /\ Goto(HeldLabel[l])
  /\ UNCHANGED <<fields, schedule, locking, context, heap, user>>

HeapRelease(l) ==
  /\ At(HeldLabel[l])
  /\ heap' = [heap EXCEPT ![l] = Tail(@)]
  /\ Goto("run")
  /\ UNCHANGED <<fields, schedule, locking, context, user>>

\* init_slab calls allocate_page inside the lock of the slab allocator.
NewSlab ==
  /\ At("slab_held")
  /\ heap' = [heap EXCEPT !["buddy"] = Append(@, cpu)]
  /\ Goto("page_spin")
  /\ UNCHANGED <<fields, schedule, locking, context, user>>

NewSlabAcquire ==
  /\ At("page_spin")
  /\ Served("buddy") = cpu
  /\ Goto("page_held")
  /\ UNCHANGED <<fields, schedule, locking, context, heap, user>>

NewSlabRelease ==
  /\ At("page_held")
  /\ heap' = [heap EXCEPT !["buddy"] = Tail(@)]
  /\ Goto("slab_held")
  /\ UNCHANGED <<fields, schedule, locking, context, user>>

-----------------------------------------------------------------------------
(* The timer interrupt: an interrupt gate, which clears IF *)

Timer ==
  /\ interrupts
  /\ Nest(cpu) < MaxNest
  /\ interrupts' = FALSE
  /\ Call("tick_lock", pc[cpu])
  /\ UNCHANGED <<fields, schedule, threads_lock, lock_nesting_depth, context, heap, user>>

\* pit_handler and thread_schedule
TickLock == LockWithInterrupts("tick_lock", "tick_count")

TickCount ==
  /\ At("tick_count")
  /\ elapsed_time' = elapsed_time + 1
  /\ Goto(IF elapsed_time' >= Quantum THEN "tick_expired" ELSE "tick_unlock")
  /\ UNCHANGED <<fields, current_thread, old_thread, locking, context, heap, user>>

TickUnlock == UnlockWithInterrupts("tick_unlock") /\ Goto("tick_iret")

\* Mutation: thread_schedule yields before it unlocks.
TickExpiredLocked ==
  /\ At("tick_expired")
  /\ Call("yield_lock", "tick_iret")
  /\ UNCHANGED <<fields, schedule, locking, context, heap, user>>

TickExpired == UnlockWithInterrupts("tick_expired") /\ Call("yield_lock", "tick_iret")

\* iretq restores the rflags of the interrupted code, which had IF set.
TickIret ==
  /\ At("tick_iret")
  /\ interrupts' = TRUE
  /\ Return
  /\ UNCHANGED <<fields, schedule, threads_lock, lock_nesting_depth, context, heap, user>>

-----------------------------------------------------------------------------
(* Specification *)

Create == CreateLock \/ (\E t \in Thread : CreateBody(t)) \/ CreateUnlock \/ WrapperUnlock

Yield == \/ YieldLock \/ YieldPick \/ YieldReap \/ YieldSkip
         \/ YieldStay \/ YieldSwitch \/ YieldUnlock

Exit == ExitLock \/ ExitBody \/ ExitUnlock

Join == \/ JoinWait \/ JoinRead \/ JoinLock \/ JoinDel \/ JoinUnlock
        \/ JoinTakeTicket \/ JoinFree \/ JoinReturn

Heap == \/ \E l \in HeapLock : HeapAcquire(l) \/ HeapRelease(l)
        \/ NewSlabAcquire \/ NewSlabRelease

Tick == TickLock \/ TickCount \/ TickUnlock \/ TickExpired \/ TickIret

\* What the processor does by itself, and what a thread's function decides.
KernelStep == Create \/ Yield \/ Exit \/ Join \/ Heap \/ Tick

UserStep == \/ CreateCall
            \/ YieldCall
            \/ \E v \in Value : ExitCall(v)
            \/ \E t \in Thread : JoinCall(t)
            \/ \E l \in HeapLock : HeapCall(l)
            \/ NewSlab

Next == KernelStep \/ UserStep \/ Timer

(***************************************************************************)
(* The interval timer keeps ticking and the interrupt controller holds a   *)
(* tick that comes while interrupts are off: a processor that enables      *)
(* interrupts again and again takes one again and again.  Ticks are        *)
(* milliseconds apart, so the code they interrupt, at each level of        *)
(* nesting, gets on whenever the thread has the processor again and again. *)
(* No thread is obliged to make a call.                                    *)
(***************************************************************************)
Fairness ==
  /\ SF_vars(Timer)
  /\ \A t \in Thread, n \in 0 .. MaxNest :
       SF_vars(cpu = t /\ Nest(t) = n /\ KernelStep)

Spec == Init /\ [][Next]_vars

FairSpec == Spec /\ Fairness

-----------------------------------------------------------------------------
(* Properties *)

TypeOK ==
  /\ state \in [Thread -> ThreadState]
  /\ return_value \in [Thread -> Value \cup {NoValue}]
  /\ ring \in Seq(Thread)
  /\ current_thread \in Thread
  /\ old_thread \in Thread \cup {NoThread}
  /\ elapsed_time \in Nat
  /\ threads_lock \in BOOLEAN
  /\ lock_nesting_depth \in Int
  /\ interrupts \in BOOLEAN
  /\ cpu \in Thread
  /\ pc \in [Thread -> Label]
  /\ stack \in [Thread -> Seq(Label)]
  /\ saved_if \in [Thread -> BOOLEAN]
  /\ heap \in [HeapLock -> Seq(Thread)]
  /\ arg \in [Thread -> Value \cup {NoValue}]
  /\ target \in [Thread -> Thread \cup {NoThread}]
  /\ received \in [Thread -> Value \cup {NoValue}]
  /\ handles \in [Thread -> SUBSET Thread]

\* The places between lock_with_interrupts and unlock_with_interrupts.
CriticalLabel ==
  {"create_body", "create_unlock", "wrapper_unlock", "exit_body", "exit_unlock",
   "yield_pick", "yield_scan", "yield_unlock", "join_del", "join_unlock",
   "tick_count", "tick_unlock", "tick_expired"}

\* Although a thread locks and another one unlocks, threads_lock is locked
\* exactly while the processor is in a critical section, always with
\* interrupts off and counted once; elsewhere interrupts are on, except at
\* the entry of the interrupt handler.
LockDiscipline ==
  /\ threads_lock <=> pc[cpu] \in CriticalLabel
  /\ lock_nesting_depth = IF threads_lock THEN 1 ELSE 0
  /\ interrupts <=> ~threads_lock /\ ~At("tick_lock")

\* A thread that is not on the processor continues where it has to unlock
\* threads_lock, with interrupts off: the unlock in the thread switched to
\* matches the lock in the thread switched from.
Suspended ==
  \A t \in Thread : t # cpu /\ state[t] # "UNUSED" =>
    pc[t] \in {"wrapper_unlock", "yield_unlock"} /\ ~saved_if[t]

\* The stack the processor runs on has not been given back by another
\* thread's thread_yield (or by its own), and a finished thread never gets
\* the processor back, to return from its thread_exit.
StackAlive ==
  /\ state[cpu] \in {"RUNNING", "FINISHED"}
  /\ ~At("exit_returned")

\* t has deleted the thread it joins from the list, but not freed it yet.
Deleting(t) == state[t] # "UNUSED" /\ Base(t) \in {"join_unlock", "join_free", "join_spin"}

\* The list starts with Main and holds every thread once, from thread_create
\* to the list_del of the one thread_join for it: the scan of thread_yield
\* always has a RUNNING thread ahead.
RingMembers ==
  /\ ring[1] = Main /\ state[Main] = "RUNNING"
  /\ \A i, j \in DOMAIN ring : ring[i] = ring[j] => i = j
  /\ {ring[i] : i \in DOMAIN ring} =
       {t \in Thread : state[t] # "UNUSED"} \ {target[s] : s \in {r \in Thread : Deleting(r)}}

\* No one waits in lock() with interrupts off for a lock that is taken: the
\* holder could never run again.
NoHang ==
  /\ At("create_body") => heap["slab"] = <<>> /\ heap["buddy"] = <<>>
  /\ At("yield_scan") /\ state[current_thread] = "FINISHED" => heap["buddy"] = <<>>
  /\ pc[cpu] \in {"create_lock", "exit_lock", "yield_lock", "join_lock", "tick_lock"} =>
       ~threads_lock

\* Every thread that has not finished runs again and again, whatever the
\* others do.
Turn == \A t \in Thread : []<>(state[t] = "RUNNING" => cpu = t)

\* The stack of a thread that has finished is given back.
Reclaimed == \A t \in Thread : state[t] = "FINISHED" ~> state[t] = "RELEASED"

-----------------------------------------------------------------------------
(***************************************************************************)
(* The refinement of ThreadService: what callers are promised.             *)
(***************************************************************************)
Collected(t) ==
  \E s \in Thread :
    /\ target[s] = t /\ state[s] # "UNUSED"
    /\ Base(s) \in {"join_lock", "join_del", "join_unlock", "join_free", "join_spin"}

Service == INSTANCE ThreadService WITH
  phase  <- [t \in Thread |->
               CASE state[t] = "UNUSED" -> "none"
                 [] state[t] = "RUNNING" -> "live"
                 [] OTHER -> IF Collected(t) THEN "collected" ELSE "exited"],
  result <- [t \in Thread |->
               IF state[t] \in {"FINISHED", "RELEASED"} THEN arg[t] ELSE NoValue],
  joiner <- [t \in Thread |->
               IF \E s \in Thread : target[s] = t
               THEN CHOOSE s \in Thread : target[s] = t ELSE NoThread],
  seen   <- received

\* thread_create, thread_exit and thread_join do nothing else than what
\* ThreadService allows: no value is lost or read too early, no thread object
\* is reused while someone may still read it.
ImplementsService == Service!Safety

\* A thread_join returns once the thread it waits for has ended.
ServiceProgress == Service!Spec
=============================================================================
