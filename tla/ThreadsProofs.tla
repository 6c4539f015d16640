---------------------------- MODULE ThreadsProofs ----------------------------
(***************************************************************************)
(* Proofs about the threads of Threads, for every set of threads, values,  *)
(* spawners and users of the allocators, every quantum and every nesting   *)
(* of timer handlers: the invariant IInv is inductive, and the steps are   *)
(* those of ThreadService: five do what a caller of thread_create,         *)
(* thread_exit and thread_join sees, and all others stutter.               *)
(***************************************************************************)
EXTENDS ThreadsInvariant, TLAPS

-----------------------------------------------------------------------------
(* Stacks *)

\* A call from the place p, which is returned to.
LEMMA Push ==
  ASSUME NEW s \in Seq(Label), NEW p \in OpenLabel, WellStacked(s, p),
         NEW l \in {"tick_lock", "yield_lock"}
  PROVE  /\ <<p>> \o s \in Seq(Label)
         /\ WellStacked(<<p>> \o s, l)
         /\ Bottom(<<p>> \o s, l) = Bottom(s, p)
  <1> DEFINE r == <<p>> \o s
  <1>1. p \in Label
    BY DEF OpenLabel
  <1>2. /\ r \in Seq(Label) /\ Len(r) = Len(s) + 1 /\ r # <<>>
        /\ DOMAIN r = 1 .. Len(s) + 1
        /\ r[1] = p
        /\ \A i \in 2 .. Len(r) : r[i] = s[i - 1]
    BY <1>1
  <1>3. Bottom(r, l) = Bottom(s, p)
    <2>1. CASE s = <<>>
      BY <1>2, <2>1 DEF Bottom
    <2>2. CASE s # <<>>
      <3>1. Len(s) \in Nat \ {0}
        BY <2>2
      <3> QED BY <1>2, <3>1, <2>2 DEF Bottom
    <2> QED BY <2>1, <2>2
  <1>4. ASSUME NEW i \in DOMAIN r
        PROVE  r[i] \in OpenLabel /\ (r[i] \in SubroutineLabel <=> i # Len(r))
    <2>1. CASE i = 1
      <3>1. i # Len(r) <=> s # <<>>
        BY <1>2, <2>1
      <3> QED BY <1>2, <2>1, <3>1 DEF WellStacked
    <2>2. CASE i # 1
      <3>1. i - 1 \in DOMAIN s /\ r[i] = s[i - 1]
        BY <1>2, <1>4, <2>2
      <3>2. i # Len(r) <=> i - 1 # Len(s)
        BY <1>2, <1>4
      <3> QED BY <3>1, <3>2 DEF WellStacked
    <2> QED BY <2>1, <2>2
  <1>5. l \in SubroutineLabel
    BY DEF SubroutineLabel, HandlerLabel
  <1>6. ASSUME Bottom(s, p) = "exit_returned"
        PROVE  (IF Len(r) = 1 THEN l ELSE r[Len(r) - 1]) \in YieldLabel
    <2>1. s # <<>> /\ (IF Len(s) = 1 THEN p ELSE s[Len(s) - 1]) \in YieldLabel
      BY <1>6 DEF WellStacked
    <2>2. Len(s) \in Nat \ {0}
      BY <2>1
    <2>3. CASE Len(s) = 1
      BY <1>2, <2>1, <2>3
    <2>4. CASE Len(s) # 1
      <3>1. Len(r) - 1 \in 2 .. Len(r) /\ r[Len(r) - 1] = s[Len(s) - 1]
        BY <1>2, <2>2, <2>4
      <3> QED BY <2>1, <2>2, <2>4, <3>1, <1>2
    <2> QED BY <2>3, <2>4
  <1> QED BY <1>2, <1>3, <1>4, <1>5, <1>6 DEF WellStacked

\* A return to the place on top of the stack.
LEMMA Pop ==
  ASSUME NEW s \in Seq(Label), NEW p \in Label, WellStacked(s, p), s # <<>>,
         p \in YieldLabel => Bottom(s, p) # "exit_returned"
  PROVE  /\ Tail(s) \in Seq(Label) /\ Head(s) \in OpenLabel
         /\ WellStacked(Tail(s), Head(s))
         /\ Bottom(Tail(s), Head(s)) = Bottom(s, p)
  <1> DEFINE r == Tail(s)
  <1>1. /\ Len(s) \in Nat \ {0} /\ r \in Seq(Label) /\ Len(r) = Len(s) - 1
        /\ DOMAIN r = 1 .. Len(s) - 1 /\ DOMAIN s = 1 .. Len(s)
        /\ Head(s) = s[1]
        /\ \A i \in DOMAIN r : r[i] = s[i + 1]
    OBVIOUS
  <1>2. r = <<>> <=> Len(s) = 1
    <2>1. r = <<>> <=> Len(r) = 0
      <3> HIDE DEF r
      <3> QED BY <1>1
    <2> QED BY <1>1, <2>1
  <1>3. Bottom(r, Head(s)) = Bottom(s, p)
    BY <1>1, <1>2 DEF Bottom
  <1>4. \A i \in DOMAIN r : r[i] \in OpenLabel /\ (r[i] \in SubroutineLabel <=> i # Len(r))
    <2> TAKE i \in DOMAIN r
    <2>1. i + 1 \in DOMAIN s /\ r[i] = s[i + 1] /\ (i # Len(r) <=> i + 1 # Len(s))
      BY <1>1
    <2> QED BY <2>1 DEF WellStacked
  <1>5. Head(s) \in OpenLabel /\ (Head(s) \in SubroutineLabel <=> r # <<>>)
    BY <1>1, <1>2 DEF WellStacked
  <1>6. ASSUME Bottom(s, p) = "exit_returned"
        PROVE  r # <<>> /\ (IF Len(r) = 1 THEN Head(s) ELSE r[Len(r) - 1]) \in YieldLabel
    <2>1. p \notin YieldLabel /\ (IF Len(s) = 1 THEN p ELSE s[Len(s) - 1]) \in YieldLabel
      BY <1>6 DEF WellStacked
    <2>2. Len(s) # 1 /\ s[Len(s) - 1] \in YieldLabel
      BY <2>1
    <2>3. CASE Len(s) = 2
      BY <1>1, <1>2, <2>2, <2>3
    <2>4. CASE Len(s) # 2
      <3>1. Len(r) - 1 \in DOMAIN r /\ r[Len(r) - 1] = s[Len(s) - 1] /\ Len(r) # 1
        BY <1>1, <2>2, <2>4
      <3> QED BY <1>2, <2>2, <3>1
    <2> QED BY <2>3, <2>4
  <1> QED BY <1>1, <1>3, <1>4, <1>5, <1>6 DEF WellStacked

\* A step to another place on top of the same stack.
LEMMA Move ==
  ASSUME NEW s \in Seq(Label), NEW p \in Label, WellStacked(s, p),
         NEW l \in Label, l \in SubroutineLabel <=> p \in SubroutineLabel,
         p \in SubroutineLabel => (p \in YieldLabel => l \in YieldLabel),
         p \notin SubroutineLabel => l # "exit_returned"
  PROVE  /\ WellStacked(s, l)
         /\ Bottom(s, l) = IF p \in SubroutineLabel THEN Bottom(s, p) ELSE l
  <1>1. CASE s = <<>>
    BY <1>1 DEF WellStacked, Bottom
  <1>2. CASE s # <<>>
    BY <1>2 DEF WellStacked, Bottom
  <1> QED BY <1>1, <1>2

-----------------------------------------------------------------------------
(* Steps that leave the threads, the list and the processor alone *)

\* IInv without the types and the locks.
Control ==
  /\ StackShape
  /\ Finished
  /\ OnProcessor
  /\ ScanBounded
  /\ RingOrder
  /\ Ownership
  /\ Joining
  /\ Unlisted
  /\ MainStays

\* IInv in the parts that are proved separately.
LEMMA Parts == IInv <=> TypeOK /\ LockDiscipline /\ Suspended /\ Control /\ HeapHeld
  BY DEF IInv, Control

Exited  == {"exit_unlock", "exit_returned"}
Waits   == {"join_wait", "join_read", "join_lock", "join_del"}
Reads   == {"join_read", "join_lock", "join_del", "join_unlock", "join_free", "join_spin"}
Deletes == {"join_unlock", "join_free", "join_spin"}

\* A step of the processor's thread from its own place b to c that neither
\* begins nor ends something Control speaks of.
OwnStep(b, c) ==
  /\ c \in Exited <=> b \in Exited
  /\ c \in Waits => b \in Waits
  /\ c \in Reads => b \in Reads \/ state[target[cpu]] = "RELEASED"
  /\ c \in Deletes <=> b \in Deletes
  /\ c \in {"exit_lock", "exit_body"} => b \in {"exit_lock", "exit_body"} \/ cpu # Main

\* Where the thread on the processor is.
LEMMA Where ==
  ASSUME IInv
  PROVE  /\ cpu \in Thread /\ Used(cpu)
         /\ stack[cpu] \in Seq(Label) /\ pc[cpu] \in Label
         /\ WellStacked(stack[cpu], pc[cpu])
         /\ Base(cpu) = Bottom(stack[cpu], pc[cpu])
         /\ pc[cpu] \notin SubroutineLabel => stack[cpu] = <<>> /\ Base(cpu) = pc[cpu]
         /\ pc[cpu] \in SubroutineLabel =>
              /\ stack[cpu] # <<>>
              /\ Base(cpu) \in OpenLabel \ SubroutineLabel
  <1>1. /\ cpu \in Thread /\ Used(cpu)
        /\ stack[cpu] \in Seq(Label) /\ pc[cpu] \in Label
        /\ WellStacked(stack[cpu], pc[cpu])
    BY DEF IInv, TypeOK, OnProcessor, Used, StackShape
  <1>2. pc[cpu] \notin SubroutineLabel => stack[cpu] = <<>> /\ Base(cpu) = pc[cpu]
    BY <1>1 DEF WellStacked, Base, Bottom
  <1>3. ASSUME pc[cpu] \in SubroutineLabel
        PROVE  stack[cpu] # <<>> /\ Base(cpu) \in OpenLabel \ SubroutineLabel
    <2> DEFINE s == stack[cpu]
    <2>1. s # <<>> /\ s \in Seq(Label)
      BY <1>1, <1>3 DEF WellStacked
    <2>2. Len(s) \in DOMAIN s
      <3> HIDE DEF s
      <3> QED BY <2>1
    <2>3. Base(cpu) = s[Len(s)]
      BY <2>1 DEF Base, Bottom
    <2> QED BY <1>1, <2>1, <2>2, <2>3 DEF WellStacked
  <1> QED BY <1>1, <1>2, <1>3 DEF Base

\* A step of the processor's thread that changes only where it is preserves
\* Control if it is an OwnStep and stays out of the scan of thread_yield.
LEMMA Quiet ==
  ASSUME IInv, UNCHANGED <<state, ring, current_thread, cpu, target, handles>>,
         \A t \in Thread \ {cpu} : pc'[t] = pc[t] /\ stack'[t] = stack[t],
         WellStacked(stack'[cpu], pc'[cpu]),
         OwnStep(Base(cpu), Bottom(stack'[cpu], pc'[cpu])),
         pc[cpu] # "yield_scan",
         pc'[cpu] \notin {"yield_scan", "yield_unlock", "wrapper_unlock"}
  PROVE  Control'
  <1> DEFINE b == Base(cpu)
             c == Bottom(stack'[cpu], pc'[cpu])
  <1>1. cpu \in Thread /\ Used(cpu) /\ cpu' = cpu /\ state' = state
    BY Where
  <1>2. /\ \A t \in Thread \ {cpu} : Bottom(stack'[t], pc'[t]) = Base(t)
        /\ Bottom(stack'[cpu], pc'[cpu]) = c
    BY DEF Base
  <1>3. StackShape'
    BY DEF IInv, StackShape, Used
  <1>4. Finished'
    BY <1>1, <1>2 DEF IInv, Finished, Used, Base, OwnStep, Exited
  <1>5. OnProcessor'
    BY DEF IInv, OnProcessor, At
  <1>6. ScanBounded'
    BY DEF ScanBounded, At
  <1>7. RingOrder'
    BY DEF IInv, RingOrder, Used
  <1>8. Ownership'
    BY DEF IInv, Ownership, Used, InRing
  <1>9. Joining'
    <2> SUFFICES ASSUME NEW s \in Thread, state[s] # "UNUSED"
                 PROVE  LET d == Bottom(stack'[s], pc'[s])
                        IN  /\ d \in Waits => target[s] # NoThread /\ InRing(target[s])
                            /\ d \in Reads => target[s] # NoThread /\ state[target[s]] = "RELEASED"
                            /\ d \in Deletes => ~InRing(target[s])
      BY DEF Joining, Used, Base, InRing, Waits, Reads, Deletes
    <2>1. /\ Base(s) \in Waits => target[s] # NoThread /\ InRing(target[s])
          /\ Base(s) \in Reads => target[s] # NoThread /\ state[target[s]] = "RELEASED"
          /\ Base(s) \in Deletes => ~InRing(target[s])
      BY DEF IInv, Joining, Used, Waits, Reads, Deletes
    <2>2. CASE s = cpu
      <3>1. c \in Reads => c \in Waits \/ c \in Deletes
        BY DEF Reads, Waits, Deletes
      <3>2. b \in Waits \/ b \in Deletes => target[s] # NoThread
        BY <2>1, <2>2 DEF Reads, Deletes
      <3> QED BY <2>1, <2>2, <3>1, <3>2 DEF OwnStep
    <2>3. CASE s # cpu
      BY <1>2, <2>1, <2>3
    <2> QED BY <2>2, <2>3
  <1>10. Unlisted'
    <2> SUFFICES ASSUME NEW t \in Thread, state[t] # "UNUSED", ~InRing(t)
                 PROVE  \E s \in Thread : /\ state[s] # "UNUSED" /\ target[s] = t
                                           /\ Bottom(stack'[s], pc'[s]) \in Deletes
      BY DEF Unlisted, Deleting, Used, Base, InRing, Deletes
    <2>1. PICK s \in Thread : /\ state[s] # "UNUSED" /\ target[s] = t
                               /\ Base(s) \in Deletes
      BY DEF IInv, Unlisted, Deleting, Used, Deletes
    <2>2. Bottom(stack'[s], pc'[s]) \in Deletes
      BY <1>2, <2>1 DEF OwnStep
    <2> QED BY <2>1, <2>2
  <1>11. MainStays'
    BY <1>1, <1>2, MainAssumption DEF IInv, MainStays, OwnStep, Base
  <1> QED BY <1>3, <1>4, <1>5, <1>6, <1>7, <1>8, <1>9, <1>10, <1>11 DEF Control

\* The other threads stay where they are.
LEMMA OthersStay ==
  ASSUME IInv, UNCHANGED <<state, cpu, saved_if>>,
         \A t \in Thread \ {cpu} : pc'[t] = pc[t] /\ stack'[t] = stack[t]
  PROVE  Suspended'
  BY DEF IInv, Suspended

\* A thread stays the one served by an allocator's lock while others take
\* tickets, and the one on the processor may leave or come to be served.
LEMMA OthersServed ==
  ASSUME IInv, UNCHANGED <<state, cpu>>,
         \A t \in Thread \ {cpu} : pc'[t] = pc[t] /\ stack'[t] = stack[t],
         \A l \in HeapLock, t \in Thread \ {cpu} : Served(l) = t => Served(l)' = t,
         Bottom(stack'[cpu], pc'[cpu]) \in {"join_freed", "slab_held", "page_spin", "page_held"} =>
           Served("slab")' = cpu,
         Bottom(stack'[cpu], pc'[cpu]) \in {"buddy_held", "page_held"} => Served("buddy")' = cpu
  PROVE  HeapHeld'
  <1>1. {"slab", "buddy"} = HeapLock
    BY DEF HeapLock
  <1> QED BY <1>1 DEF IInv, HeapHeld, Used, Base, Served

\* No one comes to hold or to release an allocator's lock.
LEMMA HeapKept ==
  ASSUME IInv, UNCHANGED <<state, cpu, heap>>,
         \A t \in Thread \ {cpu} : pc'[t] = pc[t] /\ stack'[t] = stack[t],
         Bottom(stack'[cpu], pc'[cpu]) \in
             {"join_freed", "slab_held", "buddy_held", "page_spin", "page_held"} =>
           Bottom(stack'[cpu], pc'[cpu]) = Base(cpu)
  PROVE  HeapHeld'
  <1>1. /\ Base(cpu) \in {"join_freed", "slab_held", "page_spin", "page_held"} =>
             Served("slab") = cpu
        /\ Base(cpu) \in {"buddy_held", "page_held"} => Served("buddy") = cpu
    BY Where DEF IInv, HeapHeld
  <1> QED BY <1>1, OthersServed DEF Served

\* Only the control flow and threads_lock change.
LEMMA TypesKept ==
  ASSUME TypeOK, UNCHANGED <<fields, schedule, context, heap, user>>,
         threads_lock' \in BOOLEAN, interrupts' \in BOOLEAN, lock_nesting_depth' \in Int,
         pc' \in [Thread -> Label], stack' \in [Thread -> Seq(Label)]
  PROVE  TypeOK'
  BY DEF TypeOK, fields, schedule, context, user

\* A step to another place with nothing but the locks changed.
LEMMA GotoStep ==
  ASSUME IInv, NEW from \in Label, NEW to \in Label, At(from), Goto(to),
         UNCHANGED <<fields, current_thread, context, target, handles>>,
         from \in SubroutineLabel <=> to \in SubroutineLabel,
         from \in YieldLabel => to \in YieldLabel,
         from # "yield_scan",
         to \notin {"exit_returned", "yield_scan", "yield_unlock", "wrapper_unlock"},
         from \notin SubroutineLabel => OwnStep(from, to)
  PROVE  /\ Control' /\ Suspended'
         /\ pc'[cpu] = to /\ pc' \in [Thread -> Label] /\ stack' = stack
         /\ \A t \in Thread \ {cpu} : pc'[t] = pc[t] /\ stack'[t] = stack[t]
         /\ Bottom(stack'[cpu], pc'[cpu]) =
              IF from \in SubroutineLabel THEN Base(cpu) ELSE to
  <1>1. /\ pc'[cpu] = to /\ pc' \in [Thread -> Label] /\ stack' = stack
        /\ \A t \in Thread \ {cpu} : pc'[t] = pc[t] /\ stack'[t] = stack[t]
    BY Where DEF IInv, TypeOK, Goto
  <1>2. /\ WellStacked(stack'[cpu], pc'[cpu])
        /\ Bottom(stack'[cpu], pc'[cpu]) =
             IF from \in SubroutineLabel THEN Base(cpu) ELSE to
    BY <1>1, Where, Move DEF At
  <1>3. OwnStep(Base(cpu), Bottom(stack'[cpu], pc'[cpu]))
    <2>1. CASE from \in SubroutineLabel
      BY <1>2, <2>1 DEF OwnStep
    <2>2. CASE from \notin SubroutineLabel
      BY <1>2, <2>2, Where DEF At
    <2> QED BY <2>1, <2>2
  <1>4. Control'
    BY <1>1, <1>2, <1>3, Quiet DEF fields, context, At
  <1>5. Suspended'
    BY <1>1, OthersStay DEF fields, context
  <1> QED BY <1>1, <1>2, <1>4, <1>5

\* A call that returns to a place where interrupts are on.
LEMMA CallStep ==
  ASSUME IInv, NEW l \in {"tick_lock", "yield_lock"}, NEW return \in OpenLabel,
         Call(l, return),
         UNCHANGED <<fields, current_thread, context, target, handles>>,
         pc[cpu] # "yield_scan",
         WellStacked(stack[cpu], return),
         OwnStep(Base(cpu), Bottom(stack[cpu], return))
  PROVE  /\ Control' /\ Suspended'
         /\ pc'[cpu] = l /\ pc' \in [Thread -> Label] /\ stack' \in [Thread -> Seq(Label)]
         /\ \A t \in Thread \ {cpu} : pc'[t] = pc[t] /\ stack'[t] = stack[t]
         /\ Bottom(stack'[cpu], pc'[cpu]) = Bottom(stack[cpu], return)
  <1>1. /\ <<return>> \o stack[cpu] \in Seq(Label)
        /\ WellStacked(<<return>> \o stack[cpu], l)
        /\ Bottom(<<return>> \o stack[cpu], l) = Bottom(stack[cpu], return)
    BY Where, Push
  <1>2. l \in Label /\ l \notin {"yield_scan", "yield_unlock", "wrapper_unlock"}
    BY DEF Label, HandlerLabel
  <1>3. /\ pc \in [Thread -> Label] /\ stack \in [Thread -> Seq(Label)] /\ cpu \in Thread
    BY Parts DEF TypeOK
  <1>4. /\ pc'[cpu] = l /\ pc' \in [Thread -> Label]
        /\ stack'[cpu] = <<return>> \o stack[cpu] /\ stack' \in [Thread -> Seq(Label)]
        /\ \A t \in Thread \ {cpu} : pc'[t] = pc[t] /\ stack'[t] = stack[t]
    BY <1>1, <1>2, <1>3 DEF Call
  <1>5. Control'
    BY <1>1, <1>2, <1>4, Quiet DEF fields, context
  <1>6. Suspended'
    BY <1>4, OthersStay DEF fields, context
  <1> QED BY <1>1, <1>4, <1>5, <1>6

\* A return to the place on top of the stack, with nothing but the locks
\* changed.
LEMMA ReturnStep ==
  ASSUME IInv, Return, pc[cpu] \in SubroutineLabel, pc[cpu] # "yield_scan",
         pc[cpu] \in YieldLabel => Base(cpu) # "exit_returned",
         UNCHANGED <<fields, current_thread, context, target, handles>>
  PROVE  /\ Control' /\ Suspended'
         /\ pc'[cpu] \in OpenLabel
         /\ pc' \in [Thread -> Label] /\ stack' \in [Thread -> Seq(Label)]
         /\ \A t \in Thread \ {cpu} : pc'[t] = pc[t] /\ stack'[t] = stack[t]
         /\ Bottom(stack'[cpu], pc'[cpu]) = Base(cpu)
  <1>1. /\ Tail(stack[cpu]) \in Seq(Label) /\ Head(stack[cpu]) \in OpenLabel
        /\ WellStacked(Tail(stack[cpu]), Head(stack[cpu]))
        /\ Bottom(Tail(stack[cpu]), Head(stack[cpu])) = Base(cpu)
    BY Where, Pop
  <1>2. /\ pc \in [Thread -> Label] /\ stack \in [Thread -> Seq(Label)] /\ cpu \in Thread
    BY Parts DEF TypeOK
  <1>3. Head(stack[cpu]) \in Label /\ Head(stack[cpu]) \notin {"yield_scan", "yield_unlock", "wrapper_unlock"}
    BY <1>1 DEF OpenLabel, CriticalLabel
  <1>4. /\ pc'[cpu] = Head(stack[cpu]) /\ pc' \in [Thread -> Label]
        /\ stack'[cpu] = Tail(stack[cpu]) /\ stack' \in [Thread -> Seq(Label)]
        /\ \A t \in Thread \ {cpu} : pc'[t] = pc[t] /\ stack'[t] = stack[t]
    BY <1>1, <1>2, <1>3 DEF Return
  <1>5. OwnStep(Base(cpu), Base(cpu))
    BY DEF OwnStep
  <1>6. Control'
    BY <1>1, <1>3, <1>4, <1>5, Quiet DEF fields, context
  <1>7. Suspended'
    BY <1>4, OthersStay DEF fields, context
  <1> QED BY <1>1, <1>4, <1>6, <1>7

-----------------------------------------------------------------------------
(* The steps one by one: each preserves IInv *)

\* lock_with_interrupts finds threads_lock free, for the thread that calls it
\* is not in a critical section.
LEMMA LockStep ==
  ASSUME IInv, NEW from, NEW to, LockWithInterrupts(from, to),
         <<from, to>> \in {<<"create_lock", "create_body">>, <<"yield_lock", "yield_pick">>,
                           <<"exit_lock", "exit_body">>, <<"join_lock", "join_del">>,
                           <<"tick_lock", "tick_count">>}
  PROVE  IInv'
  <1>1. /\ from \in Label \ CriticalLabel /\ to \in CriticalLabel /\ to \in Label
        /\ At(from) /\ from # "yield_scan" /\ to # "tick_lock"
        /\ to \notin {"exit_returned", "yield_scan", "yield_unlock", "wrapper_unlock"}
        /\ from \in SubroutineLabel <=> to \in SubroutineLabel
        /\ from \in YieldLabel => to \in YieldLabel
    BY DEF Label, CriticalLabel, HandlerLabel, SubroutineLabel, YieldLabel, LockWithInterrupts
  <1>2. from \notin SubroutineLabel => OwnStep(from, to)
    BY DEF OwnStep, Exited, Waits, Reads, Deletes, SubroutineLabel, HandlerLabel
  <1>3. /\ ~threads_lock /\ Goto(to) /\ interrupts' = FALSE
        /\ threads_lock' = TRUE /\ lock_nesting_depth' = 1
        /\ UNCHANGED <<fields, schedule, context, heap, user>>
    BY <1>1 DEF IInv, LockDiscipline, LockWithInterrupts, At
  <1>4. UNCHANGED <<fields, current_thread, context, target, handles>>
    BY <1>3 DEF schedule, user
  <1>5. /\ Control' /\ Suspended'
        /\ pc'[cpu] = to /\ pc' \in [Thread -> Label] /\ stack' = stack
        /\ \A t \in Thread \ {cpu} : pc'[t] = pc[t] /\ stack'[t] = stack[t]
        /\ Bottom(stack'[cpu], pc'[cpu]) = IF from \in SubroutineLabel THEN Base(cpu) ELSE to
    BY <1>1, <1>2, <1>3, <1>4, GotoStep
  <1>6. TypeOK'
    <2>1. TypeOK /\ stack' \in [Thread -> Seq(Label)]
      BY <1>5, Parts DEF TypeOK
    <2>2. threads_lock' \in BOOLEAN /\ interrupts' \in BOOLEAN
      BY <1>3
    <2>3. lock_nesting_depth' \in Int
      BY <1>3
    <2> QED BY <1>3, <1>5, <2>1, <2>2, <2>3, TypesKept
  <1>7. LockDiscipline'
    BY <1>1, <1>3, <1>5, Where DEF LockDiscipline, At, context
  <1>8. HeapHeld'
    <2>1. Bottom(stack'[cpu], pc'[cpu]) \in
             {"join_freed", "slab_held", "buddy_held", "page_spin", "page_held"} =>
            Bottom(stack'[cpu], pc'[cpu]) = Base(cpu)
      BY <1>5, <1>1 DEF CriticalLabel
    <2> QED BY <1>3, <1>5, <2>1, HeapKept DEF context, fields
  <1> QED BY <1>5, <1>6, <1>7, <1>8, Parts DEF Control, IInv

\* unlock_with_interrupts leaves the processor outside critical sections, with
\* interrupts on, wherever it goes from there.
LEMMA UnlockStep ==
  ASSUME IInv, NEW from \in CriticalLabel, UnlockWithInterrupts(from),
         pc'[cpu] \in OpenLabel
  PROVE  LockDiscipline'
  <1>1. threads_lock /\ lock_nesting_depth = 1 /\ ~interrupts
    BY DEF UnlockWithInterrupts, IInv, LockDiscipline, At
  <1>2. ~threads_lock' /\ lock_nesting_depth' = 0 /\ interrupts' /\ cpu' = cpu
    <2>1. threads_lock' = FALSE /\ lock_nesting_depth' = 0
      BY <1>1 DEF UnlockWithInterrupts
    <2>2. interrupts' = TRUE
      BY <1>1 DEF UnlockWithInterrupts
    <2>3. cpu' = cpu
      BY DEF UnlockWithInterrupts, context
    <2> QED BY <2>1, <2>2, <2>3
  <1> QED BY <1>2 DEF LockDiscipline, OpenLabel, At

\* unlock_with_interrupts keeps the variables it writes in their types.
LEMMA UnlockTypes ==
  ASSUME TypeOK, NEW from, UnlockWithInterrupts(from)
  PROVE  /\ threads_lock' \in BOOLEAN /\ interrupts' \in BOOLEAN
         /\ lock_nesting_depth' \in Int
  <1>1. threads_lock' \in BOOLEAN
    BY DEF UnlockWithInterrupts
  <1>2. interrupts' \in BOOLEAN
    BY DEF UnlockWithInterrupts
  <1>3. lock_nesting_depth' \in Int
    BY DEF UnlockWithInterrupts, TypeOK
  <1> QED BY <1>1, <1>2, <1>3

\* The unlocks of thread_create, thread_join and pit_handler, which go on
\* where they are.
LEMMA UnlockGoto ==
  ASSUME IInv, NEW from, NEW to, UnlockWithInterrupts(from), Goto(to),
         <<from, to>> \in {<<"create_unlock", "run">>, <<"join_unlock", "join_free">>,
                           <<"tick_unlock", "tick_iret">>}
  PROVE  IInv'
  <1>1. /\ from \in CriticalLabel /\ to \in OpenLabel /\ from \in Label /\ to \in Label
        /\ At(from) /\ from # "yield_scan"
        /\ to \notin {"exit_returned", "yield_scan", "yield_unlock", "wrapper_unlock"}
        /\ from \in SubroutineLabel <=> to \in SubroutineLabel
        /\ from \in YieldLabel => to \in YieldLabel
    BY DEF Label, OpenLabel, CriticalLabel, HandlerLabel, SubroutineLabel, YieldLabel,
           UnlockWithInterrupts
  <1>2. from \notin SubroutineLabel => OwnStep(from, to)
    BY DEF OwnStep, Exited, Waits, Reads, Deletes, SubroutineLabel, HandlerLabel
  <1>3. UNCHANGED <<fields, schedule, context, heap, user>>
    BY DEF UnlockWithInterrupts
  <1>4. UNCHANGED <<fields, current_thread, context, target, handles>>
    BY <1>3 DEF schedule, user
  <1>5. /\ Control' /\ Suspended'
        /\ pc'[cpu] = to /\ pc' \in [Thread -> Label] /\ stack' = stack
        /\ \A t \in Thread \ {cpu} : pc'[t] = pc[t] /\ stack'[t] = stack[t]
        /\ Bottom(stack'[cpu], pc'[cpu]) = IF from \in SubroutineLabel THEN Base(cpu) ELSE to
    BY <1>1, <1>2, <1>4, GotoStep
  <1>6. LockDiscipline'
    BY <1>1, <1>5, UnlockStep
  <1>7. TypeOK'
    <2>1. TypeOK /\ stack' \in [Thread -> Seq(Label)]
      BY <1>5, Parts DEF TypeOK
    <2> QED BY <1>3, <1>5, <2>1, UnlockTypes, TypesKept
  <1>8. HeapHeld'
    <2>1. Bottom(stack'[cpu], pc'[cpu]) \in
             {"join_freed", "slab_held", "buddy_held", "page_spin", "page_held"} =>
            Bottom(stack'[cpu], pc'[cpu]) = Base(cpu)
      BY <1>5
    <2> QED BY <1>3, <1>5, <2>1, HeapKept DEF context, fields
  <1> QED BY <1>5, <1>6, <1>7, <1>8, Parts DEF Control, IInv

\* thread_exit unlocks and calls thread_yield, which never comes back.
LEMMA ExitUnlockStep ==
  ASSUME IInv, ExitUnlock
  PROVE  IInv'
  <1>1. /\ pc[cpu] = "exit_unlock" /\ stack[cpu] = <<>> /\ Base(cpu) = "exit_unlock"
        /\ cpu \in Thread
    BY Where DEF ExitUnlock, UnlockWithInterrupts, At, SubroutineLabel, HandlerLabel
  <1>2. UNCHANGED <<fields, schedule, context, heap, user>>
    BY DEF ExitUnlock, UnlockWithInterrupts
  <1>3. /\ pc'[cpu] = "yield_lock" /\ pc' \in [Thread -> Label]
        /\ stack'[cpu] = <<"exit_returned">> /\ stack' \in [Thread -> Seq(Label)]
        /\ \A t \in Thread \ {cpu} : pc'[t] = pc[t] /\ stack'[t] = stack[t]
    <2>1. <<"exit_returned">> \o <<>> = <<"exit_returned">> /\ <<"exit_returned">> \in Seq(Label)
      BY DEF Label
    <2>2. pc \in [Thread -> Label] /\ stack \in [Thread -> Seq(Label)] /\ "yield_lock" \in Label
      BY Parts DEF TypeOK, Label
    <2> QED BY <1>1, <2>1, <2>2 DEF ExitUnlock, Call
  <1>4. /\ WellStacked(<<"exit_returned">>, "yield_lock")
        /\ Bottom(<<"exit_returned">>, "yield_lock") = "exit_returned"
    BY DEF WellStacked, Bottom, OpenLabel, Label, CriticalLabel, SubroutineLabel,
           HandlerLabel, YieldLabel
  <1>5. OwnStep("exit_unlock", "exit_returned")
    BY DEF OwnStep, Exited, Waits, Reads, Deletes
  <1>6. Control'
    BY <1>1, <1>2, <1>3, <1>4, <1>5, Quiet DEF fields, schedule, context, user
  <1>7. Suspended'
    BY <1>2, <1>3, OthersStay DEF fields, context
  <1>8. LockDiscipline'
    BY <1>3, UnlockStep DEF ExitUnlock, CriticalLabel, OpenLabel, Label
  <1>9. TypeOK'
    BY <1>2, <1>3, Parts, UnlockTypes, TypesKept DEF ExitUnlock
  <1>10. HeapHeld'
    BY <1>2, <1>3, <1>4, HeapKept DEF fields, context
  <1> QED BY <1>6, <1>7, <1>8, <1>9, <1>10, Parts DEF Control, IInv

\* thread_schedule unlocks and calls thread_yield.
LEMMA TickExpiredStep ==
  ASSUME IInv, TickExpired
  PROVE  IInv'
  <1>1. /\ pc[cpu] = "tick_expired" /\ WellStacked(stack[cpu], pc[cpu]) /\ pc[cpu] \in Label
        /\ stack[cpu] \in Seq(Label) /\ Base(cpu) = Bottom(stack[cpu], pc[cpu])
    BY Where DEF TickExpired, UnlockWithInterrupts, At
  <1>2. UNCHANGED <<fields, schedule, context, heap, user>>
    BY DEF TickExpired, UnlockWithInterrupts
  <1>3. "tick_iret" \in OpenLabel /\ "tick_iret" \in SubroutineLabel /\ "tick_iret" \in Label
    BY DEF OpenLabel, Label, CriticalLabel, SubroutineLabel, HandlerLabel
  <1>4. pc[cpu] \in SubroutineLabel /\ pc[cpu] \notin YieldLabel
    BY <1>1 DEF SubroutineLabel, HandlerLabel, YieldLabel
  <1>5. WellStacked(stack[cpu], "tick_iret") /\ Bottom(stack[cpu], "tick_iret") = Base(cpu)
    BY <1>1, <1>3, <1>4, Move
  <1>6. OwnStep(Base(cpu), Base(cpu))
    BY DEF OwnStep
  <1>7. /\ Control' /\ Suspended'
        /\ pc'[cpu] = "yield_lock" /\ pc' \in [Thread -> Label] /\ stack' \in [Thread -> Seq(Label)]
        /\ \A t \in Thread \ {cpu} : pc'[t] = pc[t] /\ stack'[t] = stack[t]
        /\ Bottom(stack'[cpu], pc'[cpu]) = Base(cpu)
    BY <1>1, <1>2, <1>3, <1>5, <1>6, CallStep DEF TickExpired, schedule, user
  <1>8. LockDiscipline'
    BY <1>7, UnlockStep DEF TickExpired, CriticalLabel, OpenLabel, Label
  <1>9. TypeOK'
    BY <1>2, <1>7, Parts, UnlockTypes, TypesKept DEF TickExpired
  <1>10. HeapHeld'
    BY <1>2, <1>7, HeapKept DEF fields, context
  <1> QED BY <1>7, <1>8, <1>9, <1>10, Parts DEF Control, IInv

\* A thread that is switched to unlocks and returns, to thread_exit never.
LEMMA UnlockReturn ==
  ASSUME IInv, NEW from \in {"wrapper_unlock", "yield_unlock"},
         UnlockWithInterrupts(from), Return
  PROVE  IInv'
  <1>1. pc[cpu] = from /\ from \in CriticalLabel /\ from \in SubroutineLabel /\ from # "yield_scan"
    BY DEF UnlockWithInterrupts, At, CriticalLabel, SubroutineLabel
  <1>2. UNCHANGED <<fields, schedule, context, heap, user>>
    BY DEF UnlockWithInterrupts
  <1>3. Base(cpu) # "exit_returned"
    <2>1. state[cpu] = "RUNNING"
      BY <1>1 DEF IInv, OnProcessor
    <2> QED BY <2>1, Where DEF IInv, Finished
  <1>4. /\ Control' /\ Suspended'
        /\ pc'[cpu] \in OpenLabel
        /\ pc' \in [Thread -> Label] /\ stack' \in [Thread -> Seq(Label)]
        /\ \A t \in Thread \ {cpu} : pc'[t] = pc[t] /\ stack'[t] = stack[t]
        /\ Bottom(stack'[cpu], pc'[cpu]) = Base(cpu)
    BY <1>1, <1>2, <1>3, ReturnStep DEF schedule, user
  <1>5. LockDiscipline'
    BY <1>1, <1>4, UnlockStep
  <1>6. TypeOK'
    BY <1>2, <1>4, Parts, UnlockTypes, TypesKept
  <1>7. HeapHeld'
    BY <1>2, <1>4, HeapKept DEF fields, context
  <1> QED BY <1>4, <1>5, <1>6, <1>7, Parts DEF Control, IInv

\* The handler returns to code that had interrupts on.
LEMMA TickIretStep ==
  ASSUME IInv, TickIret
  PROVE  IInv'
  <1>1. /\ pc[cpu] = "tick_iret" /\ pc[cpu] \in SubroutineLabel /\ pc[cpu] \notin YieldLabel
        /\ pc[cpu] # "yield_scan" /\ pc[cpu] \notin CriticalLabel
    BY DEF TickIret, At, SubroutineLabel, HandlerLabel, YieldLabel, CriticalLabel
  <1>2. UNCHANGED <<fields, schedule, context, heap, user, threads_lock, lock_nesting_depth>>
    BY DEF TickIret
  <1>3. /\ Control' /\ Suspended'
        /\ pc'[cpu] \in OpenLabel
        /\ pc' \in [Thread -> Label] /\ stack' \in [Thread -> Seq(Label)]
        /\ \A t \in Thread \ {cpu} : pc'[t] = pc[t] /\ stack'[t] = stack[t]
        /\ Bottom(stack'[cpu], pc'[cpu]) = Base(cpu)
    BY <1>1, <1>2, ReturnStep DEF schedule, user, TickIret
  <1>4. LockDiscipline'
    <2>1. ~threads_lock /\ interrupts' = TRUE /\ cpu' = cpu
      BY <1>1, <1>2 DEF IInv, LockDiscipline, TickIret, context
    <2> QED BY <1>2, <1>3, <2>1 DEF IInv, LockDiscipline, OpenLabel, At
  <1>5. TypeOK'
    <2>1. threads_lock' \in BOOLEAN /\ lock_nesting_depth' \in Int
      BY <1>2, Parts DEF TypeOK
    <2>2. interrupts' \in BOOLEAN
      BY DEF TickIret
    <2> QED BY <1>2, <1>3, <2>1, <2>2, Parts, TypesKept
  <1>6. HeapHeld'
    BY <1>2, <1>3, HeapKept DEF fields, context
  <1> QED BY <1>3, <1>4, <1>5, <1>6, Parts DEF Control, IInv

\* A step to another place that leaves the locks alone.
LEMMA SilentGoto ==
  ASSUME IInv, NEW from, NEW to, At(from), Goto(to),
         UNCHANGED <<fields, current_thread, locking, context, target, handles>>,
         \/ <<from, to>> \in {<<"run", "create_lock">>, <<"join_read", "join_lock">>,
                              <<"join_free", "join_spin">>, <<"join_freed", "run">>,
                              <<"run", "slab_spin">>, <<"run", "buddy_spin">>,
                              <<"slab_spin", "slab_held">>, <<"buddy_spin", "buddy_held">>,
                              <<"slab_held", "run">>, <<"buddy_held", "run">>,
                              <<"slab_held", "page_spin">>, <<"page_spin", "page_held">>,
                              <<"page_held", "slab_held">>,
                              <<"tick_count", "tick_expired">>, <<"tick_count", "tick_unlock">>}
         \/ <<from, to>> = <<"run", "exit_lock">> /\ cpu # Main
         \/ <<from, to>> = <<"join_wait", "join_read">> /\ state[target[cpu]] = "RELEASED"
  PROVE  /\ Control' /\ Suspended' /\ LockDiscipline'
         /\ pc' \in [Thread -> Label] /\ stack' \in [Thread -> Seq(Label)]
         /\ \A t \in Thread \ {cpu} : pc'[t] = pc[t] /\ stack'[t] = stack[t]
         /\ Bottom(stack'[cpu], pc'[cpu]) =
              IF from \in SubroutineLabel THEN Base(cpu) ELSE to
  <1>1. /\ from \in Label /\ to \in Label /\ from # "yield_scan"
        /\ from # "tick_lock" /\ to # "tick_lock"
        /\ to \notin {"exit_returned", "yield_scan", "yield_unlock", "wrapper_unlock"}
        /\ from \in SubroutineLabel <=> to \in SubroutineLabel
        /\ from \in YieldLabel => to \in YieldLabel
        /\ from \in CriticalLabel <=> to \in CriticalLabel
    BY DEF Label, CriticalLabel, HandlerLabel, SubroutineLabel, YieldLabel
  <1>2. from \notin SubroutineLabel => OwnStep(from, to)
    BY DEF OwnStep, Exited, Waits, Reads, Deletes, SubroutineLabel, HandlerLabel
  <1>3. /\ Control' /\ Suspended'
        /\ pc'[cpu] = to /\ pc' \in [Thread -> Label] /\ stack' = stack
        /\ \A t \in Thread \ {cpu} : pc'[t] = pc[t] /\ stack'[t] = stack[t]
        /\ Bottom(stack'[cpu], pc'[cpu]) = IF from \in SubroutineLabel THEN Base(cpu) ELSE to
    BY <1>1, <1>2, GotoStep
  <1>4. LockDiscipline'
    BY <1>1, <1>3 DEF IInv, LockDiscipline, At, locking, context
  <1>5. stack' \in [Thread -> Seq(Label)]
    BY <1>3, Parts DEF TypeOK
  <1> QED BY <1>3, <1>4, <1>5

\* The call of thread_create.
LEMMA CreateCallStep ==
  ASSUME IInv, CreateCall
  PROVE  IInv'
  <1>1. /\ Control' /\ Suspended' /\ LockDiscipline'
        /\ pc' \in [Thread -> Label] /\ stack' \in [Thread -> Seq(Label)]
        /\ \A t \in Thread \ {cpu} : pc'[t] = pc[t] /\ stack'[t] = stack[t]
        /\ Bottom(stack'[cpu], pc'[cpu]) = "create_lock"
    BY SilentGoto DEF CreateCall, schedule, user, SubroutineLabel, HandlerLabel
  <1>2. TypeOK'
    BY <1>1, Parts, TypesKept DEF CreateCall, locking, TypeOK
  <1>3. HeapHeld'
    BY <1>1, HeapKept DEF CreateCall, fields, context
  <1> QED BY <1>1, <1>2, <1>3, Parts DEF Control, IInv

\* The call of thread_exit: not by the thread of main().
LEMMA ExitCallStep ==
  ASSUME IInv, NEW v \in Value, ExitCall(v)
  PROVE  IInv'
  <1>1. /\ Control' /\ Suspended' /\ LockDiscipline'
        /\ pc' \in [Thread -> Label] /\ stack' \in [Thread -> Seq(Label)]
        /\ \A t \in Thread \ {cpu} : pc'[t] = pc[t] /\ stack'[t] = stack[t]
        /\ Bottom(stack'[cpu], pc'[cpu]) = "exit_lock"
    BY SilentGoto DEF ExitCall, schedule, SubroutineLabel, HandlerLabel
  <1>2. TypeOK'
    <2>1. arg' \in [Thread -> Value \cup {NoValue}]
      BY Parts DEF TypeOK, ExitCall
    <2> QED BY <1>1, <2>1, Parts DEF ExitCall, TypeOK, fields, schedule, locking, context
  <1>3. HeapHeld'
    BY <1>1, HeapKept DEF ExitCall, fields, context
  <1> QED BY <1>1, <1>2, <1>3, Parts DEF Control, IInv

\* thread_join reads the value of a thread that is there.
LEMMA JoinReadStep ==
  ASSUME IInv, JoinRead
  PROVE  IInv'
  <1>1. /\ Control' /\ Suspended' /\ LockDiscipline'
        /\ pc' \in [Thread -> Label] /\ stack' \in [Thread -> Seq(Label)]
        /\ \A t \in Thread \ {cpu} : pc'[t] = pc[t] /\ stack'[t] = stack[t]
        /\ Bottom(stack'[cpu], pc'[cpu]) = "join_lock"
    BY SilentGoto DEF JoinRead, schedule, SubroutineLabel, HandlerLabel
  <1>2. TypeOK'
    <2>1. target[cpu] \in Thread
      BY Where, Parts DEF IInv, Joining, TypeOK, JoinRead, At, SubroutineLabel, HandlerLabel
    <2>2. received' \in [Thread -> Value \cup {NoValue}]
      BY <2>1, Parts DEF TypeOK, JoinRead
    <2> QED BY <1>1, <2>2, Parts DEF JoinRead, TypeOK, fields, schedule, locking, context
  <1>3. HeapHeld'
    BY <1>1, HeapKept DEF JoinRead, fields, context
  <1> QED BY <1>1, <1>2, <1>3, Parts DEF Control, IInv

\* The timer handler counts the tick under threads_lock.
LEMMA TickCountStep ==
  ASSUME IInv, TickCount
  PROVE  IInv'
  <1>1. /\ Control' /\ Suspended' /\ LockDiscipline'
        /\ pc' \in [Thread -> Label] /\ stack' \in [Thread -> Seq(Label)]
        /\ \A t \in Thread \ {cpu} : pc'[t] = pc[t] /\ stack'[t] = stack[t]
        /\ Bottom(stack'[cpu], pc'[cpu]) = Base(cpu)
    <2> DEFINE to == IF elapsed_time' >= Quantum THEN "tick_expired" ELSE "tick_unlock"
    <2>1. to \in {"tick_expired", "tick_unlock"} /\ Goto(to) /\ At("tick_count")
      BY DEF TickCount
    <2>2. UNCHANGED <<fields, current_thread, locking, context, target, handles>>
      BY DEF TickCount, user
    <2>3. "tick_count" \in SubroutineLabel
      BY DEF SubroutineLabel, HandlerLabel
    <2> HIDE DEF to
    <2> QED BY <2>1, <2>2, <2>3, SilentGoto
  <1>2. TypeOK'
    <2>1. elapsed_time' \in Nat
      BY Parts DEF TypeOK, TickCount
    <2> QED BY <1>1, <2>1, Parts DEF TickCount, TypeOK, fields, locking, context, user
  <1>3. HeapHeld'
    BY <1>1, HeapKept DEF TickCount, fields, context
  <1> QED BY <1>1, <1>2, <1>3, Parts DEF Control, IInv

\* thread_yield called with interrupts on, and the timer interrupt.
LEMMA SilentCall ==
  ASSUME IInv, NEW l \in {"tick_lock", "yield_lock"}, pc[cpu] \in OpenLabel, Call(l, pc[cpu]),
         UNCHANGED <<fields, schedule, context, heap, user>>
  PROVE  /\ Control' /\ Suspended' /\ HeapHeld'
         /\ pc'[cpu] = l
         /\ pc' \in [Thread -> Label] /\ stack' \in [Thread -> Seq(Label)]
  <1>1. /\ WellStacked(stack[cpu], pc[cpu]) /\ Base(cpu) = Bottom(stack[cpu], pc[cpu])
        /\ pc[cpu] # "yield_scan"
    BY Where DEF OpenLabel, CriticalLabel
  <1>2. OwnStep(Base(cpu), Base(cpu))
    BY DEF OwnStep
  <1>3. /\ Control' /\ Suspended'
        /\ pc'[cpu] = l /\ pc' \in [Thread -> Label] /\ stack' \in [Thread -> Seq(Label)]
        /\ \A t \in Thread \ {cpu} : pc'[t] = pc[t] /\ stack'[t] = stack[t]
        /\ Bottom(stack'[cpu], pc'[cpu]) = Base(cpu)
    BY <1>1, <1>2, CallStep DEF schedule, user
  <1>4. HeapHeld'
    BY <1>3, HeapKept DEF fields, context
  <1> QED BY <1>3, <1>4

\* The call of thread_yield by the thread itself.
LEMMA YieldCallStep ==
  ASSUME IInv, At("run"), Call("yield_lock", "run"),
         UNCHANGED <<fields, schedule, locking, context, heap, user>>
  PROVE  IInv'
  <1>1. pc[cpu] = "run" /\ "run" \in OpenLabel
    BY DEF At, OpenLabel, Label, CriticalLabel
  <1>2. /\ Control' /\ Suspended' /\ HeapHeld'
        /\ pc'[cpu] = "yield_lock"
        /\ pc' \in [Thread -> Label] /\ stack' \in [Thread -> Seq(Label)]
    BY <1>1, SilentCall
  <1>3. LockDiscipline'
    BY <1>1, <1>2 DEF IInv, LockDiscipline, At, locking, context, OpenLabel, CriticalLabel
  <1>4. TypeOK'
    BY <1>2, Parts, TypesKept DEF locking, TypeOK
  <1> QED BY <1>2, <1>3, <1>4, Parts DEF Control, IInv

\* thread_join yields as long as the thread is not released, and goes on to
\* read its value when it is.
LEMMA JoinWaitStep ==
  ASSUME IInv, JoinWait
  PROVE  IInv'
  <1>1. pc[cpu] = "join_wait" /\ "join_wait" \in OpenLabel
    BY DEF JoinWait, At, OpenLabel, Label, CriticalLabel
  <1>2. UNCHANGED <<fields, schedule, locking, context, heap, user>>
    BY DEF JoinWait
  <1>3. CASE state[target[cpu]] # "RELEASED"
    <2>1. /\ Control' /\ Suspended' /\ HeapHeld'
          /\ pc'[cpu] = "yield_lock"
          /\ pc' \in [Thread -> Label] /\ stack' \in [Thread -> Seq(Label)]
      BY <1>1, <1>3, SilentCall DEF JoinWait
    <2>2. LockDiscipline'
      BY <1>1, <1>2, <2>1 DEF IInv, LockDiscipline, At, locking, context, OpenLabel, CriticalLabel
    <2>3. TypeOK'
      BY <1>2, <2>1, Parts, TypesKept DEF locking, TypeOK
    <2> QED BY <2>1, <2>2, <2>3, Parts DEF Control, IInv
  <1>4. CASE state[target[cpu]] = "RELEASED"
    <2>1. /\ Control' /\ Suspended' /\ LockDiscipline'
          /\ pc' \in [Thread -> Label] /\ stack' \in [Thread -> Seq(Label)]
          /\ \A t \in Thread \ {cpu} : pc'[t] = pc[t] /\ stack'[t] = stack[t]
          /\ Bottom(stack'[cpu], pc'[cpu]) = "join_read"
      BY <1>2, <1>4, SilentGoto DEF JoinWait, schedule, user, SubroutineLabel, HandlerLabel
    <2>2. TypeOK'
      BY <1>2, <2>1, Parts, TypesKept DEF locking, TypeOK
    <2>3. HeapHeld'
      BY <1>2, <2>1, HeapKept DEF fields, context
    <2> QED BY <2>1, <2>2, <2>3, Parts DEF Control, IInv
  <1> QED BY <1>3, <1>4

\* A timer interrupt is taken with interrupts on, so outside critical
\* sections.
LEMMA TimerStep ==
  ASSUME IInv, Timer
  PROVE  IInv'
  <1>1. ~threads_lock /\ pc[cpu] \in OpenLabel /\ interrupts' = FALSE
    BY Where DEF IInv, LockDiscipline, Timer, At, OpenLabel
  <1>2. UNCHANGED <<fields, schedule, threads_lock, lock_nesting_depth, context, heap, user>>
    BY DEF Timer
  <1>3. /\ Control' /\ Suspended' /\ HeapHeld'
        /\ pc'[cpu] = "tick_lock"
        /\ pc' \in [Thread -> Label] /\ stack' \in [Thread -> Seq(Label)]
    BY <1>1, <1>2, SilentCall DEF Timer
  <1>4. LockDiscipline'
    BY <1>1, <1>2, <1>3 DEF IInv, LockDiscipline, At, context, CriticalLabel
  <1>5. TypeOK'
    <2>1. threads_lock' \in BOOLEAN /\ lock_nesting_depth' \in Int
      BY <1>2, Parts DEF TypeOK
    <2>2. interrupts' \in BOOLEAN
      BY <1>1
    <2> QED BY <1>2, <1>3, <2>1, <2>2, Parts, TypesKept
  <1> QED BY <1>3, <1>4, <1>5, Parts DEF Control, IInv

-----------------------------------------------------------------------------
(* The locks of the allocators *)

\* A thread takes a ticket or is served.
LEMMA HeapEnter ==
  ASSUME IInv, NEW from, NEW to, NEW l \in HeapLock, At(from), Goto(to),
         \/ /\ heap' = [heap EXCEPT ![l] = Append(@, cpu)]
            /\ <<from, to, l>> \in {<<"run", "slab_spin", "slab">>, <<"run", "buddy_spin", "buddy">>,
                                    <<"slab_held", "page_spin", "buddy">>,
                                    <<"join_free", "join_spin", "slab">>}
         \/ /\ heap' = heap /\ Served(l) = cpu
            /\ <<from, to, l>> \in {<<"slab_spin", "slab_held", "slab">>,
                                    <<"buddy_spin", "buddy_held", "buddy">>,
                                    <<"page_spin", "page_held", "buddy">>},
         UNCHANGED <<fields, schedule, locking, context, user>>
  PROVE  IInv'
  <1>1. /\ Control' /\ Suspended' /\ LockDiscipline'
        /\ pc' \in [Thread -> Label] /\ stack' \in [Thread -> Seq(Label)]
        /\ \A t \in Thread \ {cpu} : pc'[t] = pc[t] /\ stack'[t] = stack[t]
        /\ Bottom(stack'[cpu], pc'[cpu]) = to
    BY SilentGoto DEF schedule, user, SubroutineLabel, HandlerLabel
  <1>2. heap' \in [HeapLock -> Seq(Thread)]
    <2>1. heap \in [HeapLock -> Seq(Thread)] /\ cpu \in Thread
      BY Parts DEF TypeOK
    <2>2. Append(heap[l], cpu) \in Seq(Thread)
      BY <2>1
    <2> QED BY <2>1, <2>2
  <1>3. TypeOK'
    BY <1>1, <1>2, Parts DEF TypeOK, fields, schedule, locking, context, user
  <1>4. \A k \in HeapLock, t \in Thread : Served(k) = t => Served(k)' = t
    <2> TAKE k \in HeapLock, t \in Thread
    <2>1. CASE heap'[k] = heap[k]
      BY <2>1 DEF Served
    <2>2. CASE heap'[k] # heap[k]
      <3>1. heap[k] \in Seq(Thread) /\ heap'[k] = Append(heap[k], cpu)
        BY <2>2, Parts DEF TypeOK
      <3>2. ASSUME heap[k] # <<>>
            PROVE  Append(heap[k], cpu) # <<>> /\ Append(heap[k], cpu)[1] = heap[k][1]
        BY <3>1, <3>2, Where
      <3> QED BY <3>1, <3>2, MainAssumption DEF Served
    <2> QED BY <2>1, <2>2
  <1>5. from \in {"slab_held", "page_spin"} => Served("slab") = cpu
    BY Where DEF IInv, HeapHeld, At, SubroutineLabel, HandlerLabel
  <1>6. to \in {"slab_held", "page_spin", "page_held"} => Served("slab")' = cpu
    BY <1>4, <1>5, Where DEF HeapLock
  <1>7. to \in {"buddy_held", "page_held"} => Served("buddy")' = cpu
    BY <1>4, Where DEF HeapLock
  <1>8. to # "join_freed"
    OBVIOUS
  <1>9. HeapHeld'
    BY <1>1, <1>4, <1>6, <1>7, <1>8, OthersServed DEF fields, context
  <1> QED BY <1>1, <1>3, <1>9, Parts DEF Control, IInv

\* The thread that is served leaves.
LEMMA HeapLeave ==
  ASSUME IInv, NEW from, NEW to, NEW l \in HeapLock, At(from), Goto(to),
         heap' = [heap EXCEPT ![l] = Tail(@)],
         <<from, to, l>> \in {<<"slab_held", "run", "slab">>, <<"buddy_held", "run", "buddy">>,
                              <<"page_held", "slab_held", "buddy">>,
                              <<"join_freed", "run", "slab">>},
         UNCHANGED <<fields, schedule, locking, context, user>>
  PROVE  IInv'
  <1>1. /\ Control' /\ Suspended' /\ LockDiscipline'
        /\ pc' \in [Thread -> Label] /\ stack' \in [Thread -> Seq(Label)]
        /\ \A t \in Thread \ {cpu} : pc'[t] = pc[t] /\ stack'[t] = stack[t]
        /\ Bottom(stack'[cpu], pc'[cpu]) = to
    BY SilentGoto DEF schedule, user, SubroutineLabel, HandlerLabel
  <1>2. Served(l) = cpu /\ (to = "slab_held" => Served("slab") = cpu)
    BY Where DEF IInv, HeapHeld, At, SubroutineLabel, HandlerLabel
  <1>3. heap[l] # <<>>
    BY <1>2, Where, MainAssumption DEF Served
  <1>4. heap' \in [HeapLock -> Seq(Thread)]
    BY <1>3, Parts DEF TypeOK
  <1>5. TypeOK'
    BY <1>1, <1>4, Parts DEF TypeOK, fields, schedule, locking, context, user
  <1>6. \A k \in HeapLock, t \in Thread \ {cpu} : Served(k) = t => Served(k)' = t
    BY <1>2, Parts DEF Served, TypeOK
  <1>7. to = "slab_held" => Served("slab")' = cpu
    BY <1>2 DEF Served
  <1>8. HeapHeld'
    BY <1>1, <1>6, <1>7, OthersServed DEF fields, context
  <1> QED BY <1>1, <1>5, <1>8, Parts DEF Control, IInv

-----------------------------------------------------------------------------
(* The list *)

\* The list as a sequence, and its first node.
LEMMA Sequences ==
  ASSUME IInv
  PROVE  /\ ring \in Seq(Thread) /\ Len(ring) \in Nat \ {0} /\ DOMAIN ring = 1 .. Len(ring)
         /\ \A i \in DOMAIN ring : ring[i] \in Thread /\ Used(ring[i])
         /\ \A i, j \in DOMAIN ring : ring[i] = ring[j] => i = j
         /\ 1 \in DOMAIN ring /\ ring[1] = Main /\ state[Main] = "RUNNING" /\ Main \in Thread
         /\ InRing(cpu) /\ InRing(Main)
  <1>1. ring \in Seq(Thread) /\ ring # <<>>
    BY DEF IInv, TypeOK, RingOrder
  <1>2. Len(ring) \in Nat \ {0} /\ DOMAIN ring = 1 .. Len(ring) /\ 1 \in DOMAIN ring
    BY <1>1
  <1>3. \A i \in DOMAIN ring : ring[i] \in Thread
    BY <1>1
  <1> QED BY <1>1, <1>2, <1>3, MainAssumption DEF IInv, RingOrder, InRing

\* The node after that of t is the next one, or the first one after the last.
LEMMA NextNode ==
  ASSUME IInv, NEW t \in Thread, NEW j \in DOMAIN ring, ring[j] = t
  PROVE  /\ NextInRing(t) = IF j = Len(ring) THEN ring[1] ELSE ring[j + 1]
         /\ NextInRing(t) \in Thread
         /\ \E k \in DOMAIN ring : ring[k] = NextInRing(t) /\ (k = j + 1 \/ k = 1)
  <1>1. Position(t) = j
    BY Sequences DEF Position
  <1>2. NextInRing(t) = IF j = Len(ring) THEN ring[1] ELSE ring[j + 1]
    BY <1>1 DEF NextInRing
  <1>3. PICK k \in DOMAIN ring : ring[k] = NextInRing(t) /\ (k = j + 1 \/ k = 1)
    BY <1>2, Sequences
  <1> QED BY <1>2, <1>3, Sequences

\* list_del of t takes t off the list and keeps the order of the others.
LEMMA WithoutNode ==
  ASSUME IInv, NEW t \in Thread, InRing(t), t # Main
  PROVE  /\ RingWithout(t) \in Seq(Thread) /\ RingWithout(t) # <<>>
         /\ RingWithout(t)[1] = Main
         /\ \A i, j \in DOMAIN RingWithout(t) : RingWithout(t)[i] = RingWithout(t)[j] => i = j
         /\ \A s : (\E i \in DOMAIN RingWithout(t) : RingWithout(t)[i] = s) <=> InRing(s) /\ s # t
  <1> DEFINE p == Position(t)
             n == Len(ring)
             r == RingWithout(t)
  <1>1. p \in DOMAIN ring /\ ring[p] = t
    BY DEF InRing, Position
  <1>2. p \in 2 .. n /\ n \in Nat
    BY <1>1, Sequences
  <1>3. r = [i \in 1 .. n - 1 |-> IF i < p THEN ring[i] ELSE ring[i + 1]]
    BY DEF RingWithout
  <1> HIDE DEF p, r
  <1>4. \A i \in 1 .. n - 1 : r[i] = IF i < p THEN ring[i] ELSE ring[i + 1]
    BY <1>3
  <1>5. r \in Seq(Thread) /\ Len(r) = n - 1 /\ DOMAIN r = 1 .. n - 1
    <2>1. \A i \in 1 .. n - 1 : r[i] \in Thread
      BY <1>2, <1>4, Sequences
    <2> QED BY <1>2, <1>3, <2>1
  <1>6. r # <<>> /\ r[1] = Main
    BY <1>2, <1>4, <1>5, Sequences
  <1>7. ASSUME NEW i \in DOMAIN r, NEW j \in DOMAIN r, r[i] = r[j]
        PROVE  i = j
    <2> DEFINE m(k) == IF k < p THEN k ELSE k + 1
    <2>1. \A k \in DOMAIN r : m(k) \in DOMAIN ring /\ r[k] = ring[m(k)]
      BY <1>2, <1>4, <1>5, Sequences
    <2>2. m(i) = m(j)
      BY <1>7, <2>1, Sequences
    <2> QED BY <1>2, <1>5, <2>2
  <1>8. ASSUME NEW s
        PROVE  (\E i \in DOMAIN r : r[i] = s) <=> InRing(s) /\ s # t
    <2>1. ASSUME NEW i \in DOMAIN r, r[i] = s
          PROVE  InRing(s) /\ s # t
      <3>1. PICK k \in DOMAIN ring : k # p /\ r[i] = ring[k]
        <4>1. CASE i < p
          BY <4>1, <1>2, <1>4, <1>5, Sequences
        <4>2. CASE i >= p
          BY <4>2, <1>2, <1>4, <1>5, Sequences, SMTT(30)
        <4> QED BY <4>1, <4>2, <1>2, <1>5
      <3>2. ring[k] # ring[p]
        BY <3>1, <1>1, Sequences
      <3> QED BY <1>1, <2>1, <3>1, <3>2 DEF InRing
    <2>2. ASSUME InRing(s), s # t
          PROVE  \E i \in DOMAIN r : r[i] = s
      <3>1. PICK j \in DOMAIN ring : ring[j] = s
        BY <2>2 DEF InRing
      <3>2. j # p
        BY <1>1, <2>2, <3>1
      <3>3. CASE j < p
        BY <1>2, <1>4, <1>5, <3>1, <3>3, Sequences
      <3>4. CASE j > p
        <4>1. j - 1 \in DOMAIN r /\ r[j - 1] = ring[j]
          BY <1>2, <1>4, <1>5, <3>4, Sequences
        <4> QED BY <3>1, <4>1
      <3> QED BY <1>2, <3>2, <3>3, <3>4, Sequences
    <2> QED BY <2>1, <2>2
  <1> QED BY <1>5, <1>6, <1>7, <1>8 DEF r

-----------------------------------------------------------------------------
(* thread_yield *)

\* thread_yield starts its scan one node after the thread that yields.
LEMMA YieldPickStep ==
  ASSUME IInv, YieldPick
  PROVE  IInv'
  <1>1. /\ pc[cpu] = "yield_pick" /\ current_thread = cpu /\ cpu \in Thread
        /\ pc \in [Thread -> Label] /\ stack \in [Thread -> Seq(Label)]
    BY Parts DEF YieldPick, At, IInv, OnProcessor, TypeOK
  <1>2. PICK j \in DOMAIN ring : ring[j] = cpu
    BY Sequences DEF InRing
  <1>3. /\ NextInRing(cpu) \in Thread
        /\ \E k \in DOMAIN ring : ring[k] = NextInRing(cpu) /\ (k = j + 1 \/ k = 1)
    BY <1>1, <1>2, NextNode
  <1>4. UNCHANGED <<fields, elapsed_time, locking, context, heap, user>>
    BY DEF YieldPick
  <1>5. /\ old_thread' = cpu /\ current_thread' = NextInRing(cpu)
        /\ pc' \in [Thread -> Label] /\ pc'[cpu] = "yield_scan" /\ stack' = stack
        /\ \A t \in Thread \ {cpu} : pc'[t] = pc[t]
    BY <1>1 DEF YieldPick, Goto, Label
  <1>6. /\ WellStacked(stack[cpu], "yield_scan")
        /\ Bottom(stack[cpu], "yield_scan") = Base(cpu)
    BY <1>1, Where, Move, ZenonT(30) DEF SubroutineLabel, YieldLabel, Label
  <1>7. \A t \in Thread : Bottom(stack'[t], pc'[t]) = Bottom(stack[t], pc[t])
    BY <1>1, <1>5, <1>6 DEF Base
  <1>8. TypeOK'
    BY <1>1, <1>3, <1>4, <1>5, Parts DEF TypeOK, fields, locking, context, user
  <1>9. LockDiscipline'
    BY <1>1, <1>4, <1>5 DEF IInv, LockDiscipline, At, locking, context, CriticalLabel
  <1>10. Suspended'
    BY <1>4, <1>5 DEF IInv, Suspended, fields, context
  <1>11. StackShape'
    BY <1>1, <1>4, <1>5, <1>6 DEF IInv, StackShape, Used, fields
  <1>12. Finished' /\ MainStays'
    BY <1>4, <1>7, MainAssumption DEF IInv, Finished, MainStays, Used, Base, fields
  <1>13. OnProcessor'
    BY <1>4, <1>5 DEF IInv, OnProcessor, At, fields, context
  <1>14. ScanBounded'
    <2>1. DOMAIN ring = 1 .. Len(ring) /\ Len(ring) \in Nat
      BY Sequences
    <2> QED BY <1>2, <1>3, <1>4, <1>5, <2>1 DEF ScanBounded, fields, context
  <1>15. RingOrder' /\ Ownership'
    BY <1>4 DEF IInv, RingOrder, Ownership, Used, InRing, fields, context, user
  <1>16. Joining'
    BY <1>4, <1>7 DEF IInv, Joining, Used, InRing, Base, fields, user
  <1>17. Unlisted'
    BY <1>4, <1>7 DEF IInv, Unlisted, Deleting, Used, InRing, Base, fields, user
  <1>18. HeapHeld'
    BY <1>4, <1>7 DEF IInv, HeapHeld, Served, Used, Base, fields
  <1> QED BY <1>8, <1>9, <1>10, <1>11, <1>12, <1>13, <1>14, <1>15, <1>16, <1>17, <1>18 DEF IInv

\* The scan passes a thread that has ended, and releases its stack if no one
\* has.  It is not the thread on the processor: the scan meets Main first.
LEMMA ScanStep ==
  ASSUME IInv, At("yield_scan"), state[current_thread] \in {"FINISHED", "RELEASED"},
         state' = [state EXCEPT ![current_thread] = "RELEASED"],
         current_thread' = NextInRing(current_thread),
         UNCHANGED <<return_value, ring, old_thread, elapsed_time, locking, context,
                     pc, stack, heap, user>>
  PROVE  IInv'
  <1>1. /\ pc[cpu] = "yield_scan" /\ current_thread \in Thread /\ cpu \in Thread
        /\ state \in [Thread -> ThreadState]
    BY Parts DEF At, TypeOK
  <1>2. PICK i \in DOMAIN ring, j \in DOMAIN ring :
          /\ ring[i] = cpu /\ ring[j] = current_thread
          /\ j > i \/ j = 1
    BY DEF IInv, ScanBounded
  <1>3. j > i /\ current_thread # Main /\ current_thread # cpu
    BY <1>2, Sequences
  <1>4. PICK k \in DOMAIN ring :
          ring[k] = NextInRing(current_thread) /\ (k = j + 1 \/ k = 1)
    BY <1>1, <1>2, NextNode
  <1>5. NextInRing(current_thread) \in Thread /\ (k > i \/ k = 1)
    BY <1>1, <1>2, <1>3, <1>4, NextNode, Sequences
  <1>6. /\ \A t \in Thread : state'[t] # "UNUSED" <=> state[t] # "UNUSED"
        /\ \A t \in Thread : state'[t] \in {"FINISHED", "RELEASED"} <=>
                               state[t] \in {"FINISHED", "RELEASED"}
        /\ \A t \in Thread : state[t] = "RELEASED" => state'[t] = "RELEASED"
        /\ state'[cpu] = state[cpu] /\ state'[Main] = state[Main]
        /\ state' \in [Thread -> ThreadState]
    BY <1>1, <1>3, MainAssumption DEF ThreadState
  <1>7. TypeOK'
    BY <1>5, <1>6, Parts DEF TypeOK, locking, context, user
  <1>8. LockDiscipline' /\ Suspended'
    BY <1>6 DEF IInv, LockDiscipline, Suspended, At, locking, context
  <1>9. StackShape' /\ Finished' /\ MainStays'
    BY <1>6 DEF IInv, StackShape, Finished, MainStays, Used, Base
  <1>10. OnProcessor'
    BY <1>1, <1>6 DEF IInv, OnProcessor, At, context
  <1>11. ScanBounded'
    BY <1>2, <1>4, <1>5 DEF IInv, ScanBounded, At, context
  <1>12. RingOrder'
    <2>1. \A l \in DOMAIN ring : ring[l] \in Thread
      BY Sequences
    <2> QED BY <1>6, <2>1 DEF IInv, RingOrder, Used, context
  <1>13. Ownership'
    <2>1. target \in [Thread -> Thread \cup {NoThread}] /\ handles \in [Thread -> SUBSET Thread]
      BY Parts DEF TypeOK
    <2> QED BY <1>6, <2>1 DEF IInv, Ownership, Used, InRing, user
  <1>14. Joining'
    <2>1. target \in [Thread -> Thread \cup {NoThread}]
      BY Parts DEF TypeOK
    <2> QED BY <1>6, <2>1 DEF IInv, Joining, Used, InRing, Base, user
  <1>15. Unlisted'
    BY <1>6 DEF IInv, Unlisted, Deleting, Used, InRing, Base, user
  <1>16. HeapHeld'
    BY <1>6 DEF IInv, HeapHeld, Served, Used, Base
  <1> QED BY <1>7, <1>8, <1>9, <1>10, <1>11, <1>12, <1>13, <1>14, <1>15, <1>16 DEF IInv

\* The scan comes round to Main, which goes on running.
LEMMA YieldStayStep ==
  ASSUME IInv, YieldStay
  PROVE  IInv'
  <1>1. /\ pc[cpu] = "yield_scan" /\ current_thread = cpu /\ cpu \in Thread
        /\ state[cpu] = "RUNNING"
        /\ pc \in [Thread -> Label] /\ stack \in [Thread -> Seq(Label)]
    BY Parts DEF YieldStay, At, IInv, ScanBounded, TypeOK
  <1>2. UNCHANGED <<fields, current_thread, locking, context, heap, user>>
    BY DEF YieldStay
  <1>3. /\ old_thread' = NoThread /\ elapsed_time' = 0
        /\ pc' \in [Thread -> Label] /\ pc'[cpu] = "yield_unlock" /\ stack' = stack
        /\ \A t \in Thread \ {cpu} : pc'[t] = pc[t]
    BY <1>1 DEF YieldStay, Goto, Label
  <1>4. /\ WellStacked(stack[cpu], "yield_unlock")
        /\ Bottom(stack[cpu], "yield_unlock") = Base(cpu)
    BY <1>1, Where, Move, ZenonT(30) DEF SubroutineLabel, YieldLabel, Label
  <1>5. \A t \in Thread : Bottom(stack'[t], pc'[t]) = Bottom(stack[t], pc[t])
    BY <1>1, <1>3, <1>4 DEF Base
  <1>6. TypeOK'
    BY <1>1, <1>2, <1>3, Parts DEF TypeOK, fields, locking, context, user
  <1>7. LockDiscipline'
    BY <1>1, <1>2, <1>3 DEF IInv, LockDiscipline, At, locking, context, CriticalLabel
  <1>8. Suspended'
    BY <1>2, <1>3 DEF IInv, Suspended, fields, context
  <1>9. StackShape'
    BY <1>1, <1>2, <1>3, <1>4 DEF IInv, StackShape, Used, fields
  <1>10. Finished' /\ MainStays'
    BY <1>2, <1>5, MainAssumption DEF IInv, Finished, MainStays, Used, Base, fields
  <1>11. OnProcessor' /\ ScanBounded'
    BY <1>1, <1>2, <1>3 DEF IInv, OnProcessor, ScanBounded, At, fields, context
  <1>12. RingOrder' /\ Ownership'
    BY <1>2 DEF IInv, RingOrder, Ownership, Used, InRing, fields, context, user
  <1>13. Joining'
    BY <1>2, <1>5 DEF IInv, Joining, Used, InRing, Base, fields, user
  <1>14. Unlisted'
    BY <1>2, <1>5 DEF IInv, Unlisted, Deleting, Used, InRing, Base, fields, user
  <1>15. HeapHeld'
    BY <1>2, <1>5 DEF IInv, HeapHeld, Served, Used, Base, fields
  <1> QED BY <1>6, <1>7, <1>8, <1>9, <1>10, <1>11, <1>12, <1>13, <1>14, <1>15 DEF IInv

\* The switch from one critical section of threads_lock into another one: the
\* thread switched to waits to unlock, and popfq leaves interrupts off.
LEMMA YieldSwitchStep ==
  ASSUME IInv, YieldSwitch
  PROVE  IInv'
  <1> DEFINE next == current_thread
  <1>1. /\ pc[cpu] = "yield_scan" /\ old_thread = cpu /\ next # cpu
        /\ cpu \in Thread /\ next \in Thread /\ state[next] = "RUNNING"
        /\ pc \in [Thread -> Label] /\ stack \in [Thread -> Seq(Label)]
        /\ saved_if \in [Thread -> BOOLEAN]
    BY Parts DEF YieldSwitch, At, IInv, ScanBounded, TypeOK
  <1>2. pc[next] \in {"wrapper_unlock", "yield_unlock"} /\ ~saved_if[next]
    BY <1>1 DEF IInv, Suspended
  <1>3. threads_lock /\ lock_nesting_depth = 1 /\ ~interrupts
    BY <1>1 DEF IInv, LockDiscipline, CriticalLabel, At
  <1>4. /\ UNCHANGED <<fields, current_thread, threads_lock, lock_nesting_depth, heap, user>>
        /\ old_thread' = NoThread /\ elapsed_time' = 0 /\ cpu' = next
        /\ interrupts' = saved_if[next]
        /\ saved_if' = [saved_if EXCEPT ![cpu] = interrupts]
    BY DEF YieldSwitch
  <1>5. /\ pc' \in [Thread -> Label] /\ pc'[cpu] = "yield_unlock" /\ stack' = stack
        /\ \A t \in Thread \ {cpu} : pc'[t] = pc[t]
    BY <1>1 DEF YieldSwitch, Goto, Label
  <1>6. /\ WellStacked(stack[cpu], "yield_unlock")
        /\ Bottom(stack[cpu], "yield_unlock") = Base(cpu)
    BY <1>1, Where, Move, ZenonT(30) DEF SubroutineLabel, YieldLabel, Label
  <1>7. \A t \in Thread : Bottom(stack'[t], pc'[t]) = Bottom(stack[t], pc[t])
    BY <1>1, <1>5, <1>6 DEF Base
  <1>8. TypeOK'
    <2>1. interrupts' \in BOOLEAN /\ threads_lock' \in BOOLEAN
      BY <1>1, <1>4, Parts DEF TypeOK
    <2>2. saved_if' \in [Thread -> BOOLEAN]
      <3>1. interrupts \in BOOLEAN
        BY Parts DEF TypeOK
      <3> QED BY <1>1, <1>4, <3>1
    <2>3. lock_nesting_depth' \in Int
      BY <1>4, Parts DEF TypeOK
    <2> QED BY <1>1, <1>4, <1>5, <2>1, <2>2, <2>3, Parts DEF TypeOK, fields, user
  <1>9. LockDiscipline'
    <2>1. pc'[cpu'] \in CriticalLabel /\ pc'[cpu'] # "tick_lock"
      BY <1>1, <1>2, <1>4, <1>5 DEF CriticalLabel
    <2>2. threads_lock' /\ lock_nesting_depth' = 1 /\ ~interrupts'
      BY <1>2, <1>3, <1>4
    <2> QED BY <2>1, <2>2 DEF LockDiscipline, At
  <1>10. Suspended'
    <2> SUFFICES ASSUME NEW t \in Thread, t # next, state[t] # "UNUSED"
                 PROVE  pc'[t] \in {"wrapper_unlock", "yield_unlock"} /\ ~saved_if'[t]
      BY <1>4 DEF Suspended, fields
    <2>1. CASE t = cpu
      BY <1>1, <1>3, <1>4, <1>5, <2>1
    <2>2. CASE t # cpu
      BY <1>1, <1>4, <1>5, <2>2 DEF IInv, Suspended
    <2> QED BY <2>1, <2>2
  <1>11. StackShape'
    BY <1>1, <1>4, <1>5, <1>6 DEF IInv, StackShape, Used, fields
  <1>12. Finished' /\ MainStays'
    BY <1>4, <1>7, MainAssumption DEF IInv, Finished, MainStays, Used, Base, fields
  <1>13. OnProcessor' /\ ScanBounded'
    BY <1>1, <1>2, <1>4, <1>5 DEF OnProcessor, ScanBounded, At, fields
  <1>14. RingOrder' /\ Ownership'
    <2>1. \E i \in DOMAIN ring : ring[i] = next
      BY DEF YieldSwitch, IInv, ScanBounded
    <2> QED BY <1>4, <2>1 DEF IInv, RingOrder, Ownership, Used, InRing, fields, user
  <1>15. Joining'
    BY <1>4, <1>7 DEF IInv, Joining, Used, InRing, Base, fields, user
  <1>16. Unlisted'
    BY <1>4, <1>7 DEF IInv, Unlisted, Deleting, Used, InRing, Base, fields, user
  <1>17. HeapHeld'
    BY <1>4, <1>7 DEF IInv, HeapHeld, Served, Used, Base, fields
  <1> QED BY <1>8, <1>9, <1>10, <1>11, <1>12, <1>13, <1>14, <1>15, <1>16, <1>17 DEF IInv

-----------------------------------------------------------------------------
(* thread_create, thread_exit and thread_join *)

\* The new thread is where a thread switched to for the first time is.
LEMMA CreateBodyStep ==
  ASSUME IInv, NEW t \in Thread, CreateBody(t)
  PROVE  IInv'
  <1>1. /\ pc[cpu] = "create_body" /\ stack[cpu] = <<>> /\ Base(cpu) = "create_body"
        /\ cpu \in Thread /\ state[cpu] # "UNUSED" /\ t # cpu /\ t # Main
        /\ state[t] = "UNUSED"
    BY Where, Sequences DEF CreateBody, At, SubroutineLabel, HandlerLabel, Used
  <1>2. threads_lock /\ lock_nesting_depth = 1 /\ ~interrupts /\ current_thread = cpu
    BY <1>1 DEF IInv, LockDiscipline, OnProcessor, CriticalLabel, At
  <1>3. /\ state' = [state EXCEPT ![t] = "RUNNING"]
        /\ ring' = Append(ring, t)
        /\ pc' = [pc EXCEPT ![cpu] = "create_unlock", ![t] = "wrapper_unlock"]
        /\ stack' = [stack EXCEPT ![t] = <<"run">>]
        /\ saved_if' = [saved_if EXCEPT ![t] = interrupts]
        /\ handles' = [handles EXCEPT ![cpu] = @ \cup {t}, ![t] = {}]
        /\ UNCHANGED <<return_value, schedule, locking, cpu, heap, arg, target, received>>
        /\ heap["slab"] = <<>> /\ heap["buddy"] = <<>>
    BY DEF CreateBody
  <1>4. TypeOK
    BY Parts
  <1>5. /\ state' \in [Thread -> ThreadState] /\ state'[t] = "RUNNING"
        /\ \A s \in Thread \ {t} : state'[s] = state[s]
    BY <1>3, <1>4 DEF TypeOK, ThreadState
  <1>6. /\ pc' \in [Thread -> Label] /\ pc'[cpu] = "create_unlock" /\ pc'[t] = "wrapper_unlock"
        /\ \A s \in Thread \ {t, cpu} : pc'[s] = pc[s]
    BY <1>1, <1>3, <1>4 DEF TypeOK, Label
  <1>7. /\ stack' \in [Thread -> Seq(Label)] /\ stack'[t] = <<"run">>
        /\ \A s \in Thread \ {t} : stack'[s] = stack[s]
    <2>1. <<"run">> \in Seq(Label)
      BY DEF Label
    <2> QED BY <1>3, <1>4, <2>1 DEF TypeOK
  <1>8. /\ saved_if' \in [Thread -> BOOLEAN] /\ ~saved_if'[t]
        /\ \A s \in Thread \ {t} : saved_if'[s] = saved_if[s]
    <2>1. interrupts = FALSE
      BY <1>2, <1>4 DEF TypeOK
    <2> QED BY <1>3, <1>4, <2>1 DEF TypeOK
  <1>9. /\ handles' \in [Thread -> SUBSET Thread] /\ handles'[t] = {}
        /\ handles'[cpu] = handles[cpu] \cup {t}
        /\ \A s \in Thread \ {t, cpu} : handles'[s] = handles[s]
    BY <1>1, <1>3, <1>4 DEF TypeOK
  <1>10. /\ ring' \in Seq(Thread) /\ Len(ring') = Len(ring) + 1 /\ ring' # <<>>
         /\ DOMAIN ring' = 1 .. Len(ring) + 1 /\ ring'[Len(ring) + 1] = t
         /\ \A i \in DOMAIN ring : i \in DOMAIN ring' /\ ring'[i] = ring[i]
    BY <1>3, Sequences
  <1>11. \A s : (\E i \in DOMAIN ring' : ring'[i] = s) <=> InRing(s) \/ s = t
    BY <1>10, Sequences DEF InRing
  <1>12. ~InRing(t)
    BY <1>1, Sequences DEF InRing, Used
  <1>13. /\ Bottom(stack'[t], pc'[t]) = "run" /\ WellStacked(stack'[t], pc'[t])
         /\ Bottom(stack'[cpu], pc'[cpu]) = "create_unlock" /\ WellStacked(stack'[cpu], pc'[cpu])
         /\ \A s \in Thread \ {t, cpu} : Bottom(stack'[s], pc'[s]) = Bottom(stack[s], pc[s])
    <2>1. /\ Bottom(<<"run">>, "wrapper_unlock") = "run"
          /\ WellStacked(<<"run">>, "wrapper_unlock")
      BY DEF Bottom, WellStacked, SubroutineLabel, HandlerLabel, OpenLabel, Label, CriticalLabel
    <2>2. /\ Bottom(<<>>, "create_unlock") = "create_unlock"
          /\ WellStacked(<<>>, "create_unlock")
      BY DEF Bottom, WellStacked, SubroutineLabel, HandlerLabel
    <2> QED BY <1>1, <1>6, <1>7, <2>1, <2>2
  <1>14. TypeOK'
    BY <1>3, <1>4, <1>5, <1>6, <1>7, <1>8, <1>9, <1>10 DEF TypeOK, schedule, locking
  <1>15. LockDiscipline'
    BY <1>2, <1>3, <1>6 DEF LockDiscipline, CriticalLabel, locking, At
  <1>16. Suspended'
    BY <1>3, <1>5, <1>6, <1>8 DEF IInv, Suspended
  <1>17. StackShape'
    BY <1>5, <1>6, <1>7, <1>13 DEF IInv, StackShape, Used
  <1>18. Finished'
    BY <1>1, <1>5, <1>13 DEF IInv, Finished, Used, Base
  <1>19. OnProcessor' /\ ScanBounded'
    BY <1>1, <1>2, <1>3, <1>5, <1>6 DEF IInv, OnProcessor, ScanBounded, At, schedule
  <1>20. RingOrder'
    <2>1. ring'[1] = Main /\ state'[Main] = "RUNNING"
      BY <1>1, <1>5, <1>10, Sequences
    <2>2. \A i, j \in DOMAIN ring' : ring'[i] = ring'[j] => i = j
      <3>1. \A i \in DOMAIN ring : ring[i] # t
        BY <1>12 DEF InRing
      <3> QED BY <1>10, <3>1, Sequences
    <2>3. \A i \in DOMAIN ring' : state'[ring'[i]] # "UNUSED"
      BY <1>5, <1>10, Sequences DEF Used
    <2>4. \E i \in DOMAIN ring' : ring'[i] = cpu
      BY <1>11, Sequences
    <2> QED BY <1>3, <1>10, <2>1, <2>2, <2>3, <2>4 DEF RingOrder, Used
  <1>21. /\ \A s \in Thread : target[s] # NoThread => target[s] \in Thread \ {t}
         /\ \A s \in Thread : t \notin handles[s]
    BY <1>1, <1>4 DEF IInv, Ownership, Used, TypeOK
  <1>22. Ownership'
    <2>1. \A s \in Thread : target[s] # NoThread => state'[target[s]] # "UNUSED" /\ target[s] # Main
      BY <1>5, <1>21 DEF IInv, Ownership, Used
    <2>2. \A s \in Thread : \A u \in handles'[s] :
            /\ state'[u] # "UNUSED" /\ u # Main
            /\ \E i \in DOMAIN ring' : ring'[i] = u
      <3> TAKE s \in Thread
      <3> TAKE u \in handles'[s]
      <3>1. CASE u = t
        BY <1>1, <1>5, <1>11, <3>1
      <3>2. CASE u # t
        <4>1. u \in handles[s] /\ u \in Thread
          BY <1>4, <1>9, <3>2 DEF TypeOK
        <4>2. state[u] # "UNUSED" /\ u # Main /\ InRing(u)
          BY <4>1 DEF IInv, Ownership, Used
        <4> QED BY <1>5, <1>11, <3>2, <4>1, <4>2
      <3> QED BY <3>1, <3>2
    <2>3. \A r, s \in Thread : handles'[r] \cap handles'[s] # {} => r = s
      BY <1>1, <1>9, <1>21 DEF IInv, Ownership
    <2>4. \A r, s \in Thread : target[r] \notin handles'[s]
      BY <1>9, <1>21, MainAssumption DEF IInv, Ownership
    <2>5. \A r, s \in Thread : target[r] = target[s] /\ target[r] # NoThread => r = s
      BY DEF IInv, Ownership
    <2> QED BY <1>3, <2>1, <2>2, <2>3, <2>4, <2>5 DEF Ownership, Used, InRing
  <1>23. Joining'
    <2> SUFFICES ASSUME NEW s \in Thread, state'[s] # "UNUSED"
                 PROVE  LET d == Bottom(stack'[s], pc'[s])
                        IN  /\ d \in Waits => /\ target[s] # NoThread
                                              /\ \E i \in DOMAIN ring' : ring'[i] = target[s]
                            /\ d \in Reads => /\ target[s] # NoThread
                                              /\ state'[target[s]] = "RELEASED"
                            /\ d \in Deletes => ~ \E i \in DOMAIN ring' : ring'[i] = target[s]
      BY <1>3 DEF Joining, Used, Base, InRing, Waits, Reads, Deletes
    <2>1. CASE s \in {t, cpu}
      BY <1>13, <2>1 DEF Waits, Reads, Deletes
    <2>2. CASE s \notin {t, cpu}
      <3> DEFINE d == Bottom(stack[s], pc[s])
      <3>1. /\ d \in Waits => target[s] # NoThread /\ InRing(target[s])
            /\ d \in Reads => target[s] # NoThread /\ state[target[s]] = "RELEASED"
            /\ d \in Deletes => ~InRing(target[s])
        BY <1>5, <2>2 DEF IInv, Joining, Used, Base, Waits, Reads, Deletes
      <3>2. d \in Deletes => d \in Reads
        BY DEF Deletes, Reads
      <3>3. Bottom(stack'[s], pc'[s]) = d
        BY <1>13, <2>2
      <3> HIDE DEF d
      <3> QED BY <1>5, <1>11, <1>21, <3>1, <3>2, <3>3
    <2> QED BY <2>1, <2>2
  <1>24. Unlisted'
    <2> SUFFICES ASSUME NEW u \in Thread, state'[u] # "UNUSED",
                        ~ \E i \in DOMAIN ring' : ring'[i] = u
                 PROVE  \E s \in Thread : /\ state'[s] # "UNUSED" /\ target[s] = u
                                          /\ Bottom(stack'[s], pc'[s]) \in Deletes
      BY <1>3 DEF Unlisted, Deleting, Used, InRing, Base, Deletes
    <2>1. u # t /\ state[u] # "UNUSED" /\ ~InRing(u)
      BY <1>5, <1>11
    <2>2. PICK s \in Thread : /\ state[s] # "UNUSED" /\ target[s] = u
                              /\ Bottom(stack[s], pc[s]) \in Deletes
      BY <2>1 DEF IInv, Unlisted, Deleting, Used, Base, Deletes
    <2>3. s # t /\ s # cpu
      BY <1>1, <2>2 DEF Deletes, Base
    <2> QED BY <1>5, <1>13, <2>2, <2>3
  <1>25. MainStays'
    BY <1>1, <1>13, MainAssumption DEF IInv, MainStays, Base
  <1>26. HeapHeld'
    BY <1>1, <1>3, <1>5, <1>13 DEF IInv, HeapHeld, Served, Used, Base
  <1> QED BY <1>14, <1>15, <1>16, <1>17, <1>18, <1>19, <1>20, <1>22, <1>23, <1>24, <1>25,
             <1>26 DEF IInv

\* The thread on the processor goes from a place of its own to another one.
LEMMA OwnGoto ==
  ASSUME IInv, NEW from \in Label \ SubroutineLabel, At(from),
         NEW to \in Label \ (SubroutineLabel \cup {"exit_returned"}), Goto(to)
  PROVE  /\ cpu \in Thread /\ state[cpu] # "UNUSED" /\ Base(cpu) = from
         /\ pc' \in [Thread -> Label] /\ pc'[cpu] = to /\ stack' = stack
         /\ stack \in [Thread -> Seq(Label)]
         /\ \A t \in Thread \ {cpu} : pc'[t] = pc[t]
         /\ WellStacked(stack'[cpu], pc'[cpu]) /\ Bottom(stack'[cpu], pc'[cpu]) = to
         /\ \A t \in Thread \ {cpu} : Bottom(stack'[t], pc'[t]) = Bottom(stack[t], pc[t])
  <1>1. /\ cpu \in Thread /\ state[cpu] # "UNUSED" /\ Base(cpu) = from /\ stack[cpu] = <<>>
    BY Where DEF At, Used
  <1>2. pc \in [Thread -> Label] /\ stack \in [Thread -> Seq(Label)]
    BY Parts DEF TypeOK
  <1>3. /\ pc' \in [Thread -> Label] /\ pc'[cpu] = to /\ stack' = stack
        /\ \A t \in Thread \ {cpu} : pc'[t] = pc[t]
    BY <1>1, <1>2 DEF Goto
  <1>4. WellStacked(<<>>, to) /\ Bottom(<<>>, to) = to
    BY DEF WellStacked, Bottom
  <1> QED BY <1>1, <1>2, <1>3, <1>4

\* current_thread is the thread that exits, and no one is joining it yet past
\* the wait.
LEMMA ExitBodyStep ==
  ASSUME IInv, ExitBody
  PROVE  IInv'
  <1>1. /\ "exit_body" \in Label \ SubroutineLabel /\ At("exit_body")
        /\ "exit_unlock" \in Label \ (SubroutineLabel \cup {"exit_returned"})
        /\ Goto("exit_unlock")
    BY DEF ExitBody, Label, SubroutineLabel, HandlerLabel
  <1>2. /\ cpu \in Thread /\ state[cpu] # "UNUSED" /\ Base(cpu) = "exit_body"
        /\ pc' \in [Thread -> Label] /\ pc'[cpu] = "exit_unlock" /\ stack' = stack
        /\ stack \in [Thread -> Seq(Label)]
        /\ \A t \in Thread \ {cpu} : pc'[t] = pc[t]
        /\ WellStacked(stack'[cpu], pc'[cpu]) /\ Bottom(stack'[cpu], pc'[cpu]) = "exit_unlock"
        /\ \A t \in Thread \ {cpu} : Bottom(stack'[t], pc'[t]) = Bottom(stack[t], pc[t])
    BY <1>1, OwnGoto
  <1>3. current_thread = cpu /\ pc[cpu] = "exit_body"
    BY <1>1 DEF IInv, OnProcessor, At
  <1>4. state[cpu] = "RUNNING" /\ cpu # Main
    <2>1. state[cpu] \in {"RUNNING", "FINISHED"}
      BY DEF IInv, OnProcessor
    <2> QED BY <1>2, <2>1 DEF IInv, Finished, MainStays, Used
  <1>5. /\ state' = [state EXCEPT ![cpu] = "FINISHED"]
        /\ return_value' = [return_value EXCEPT ![cpu] = arg[cpu]]
        /\ UNCHANGED <<ring, schedule, locking, context, heap, user>>
    BY <1>3 DEF ExitBody
  <1>6. TypeOK
    BY Parts
  <1>7. /\ state' \in [Thread -> ThreadState] /\ state'[cpu] = "FINISHED"
        /\ \A s \in Thread \ {cpu} : state'[s] = state[s]
        /\ \A s \in Thread : state'[s] # "UNUSED" <=> state[s] # "UNUSED"
        /\ \A s \in Thread : state[s] = "RELEASED" => state'[s] = "RELEASED"
    BY <1>2, <1>4, <1>5, <1>6 DEF TypeOK, ThreadState
  <1>8. TypeOK'
    <2>1. return_value' \in [Thread -> Value \cup {NoValue}]
      BY <1>2, <1>5, <1>6 DEF TypeOK
    <2> QED BY <1>2, <1>5, <1>6, <1>7, <2>1 DEF TypeOK, schedule, locking, context, user
  <1>9. LockDiscipline'
    BY <1>2, <1>3, <1>5 DEF IInv, LockDiscipline, At, locking, context, CriticalLabel
  <1>10. Suspended'
    BY <1>2, <1>5, <1>7 DEF IInv, Suspended, context
  <1>11. StackShape' /\ MainStays'
    BY <1>2, <1>7, MainAssumption DEF IInv, StackShape, MainStays, Used, Base
  <1>12. Finished'
    BY <1>2, <1>7 DEF IInv, Finished, Used, Base
  <1>13. OnProcessor' /\ ScanBounded'
    BY <1>2, <1>3, <1>5, <1>7 DEF OnProcessor, ScanBounded, At, schedule, context
  <1>14. RingOrder'
    <2>1. \A l \in DOMAIN ring : ring[l] \in Thread
      BY Sequences
    <2> QED BY <1>4, <1>5, <1>7, <2>1, MainAssumption DEF IInv, RingOrder, Used, context
  <1>15. Ownership'
    BY <1>5, <1>6, <1>7 DEF IInv, Ownership, TypeOK, Used, InRing, user
  <1>16. Joining'
    <2> SUFFICES ASSUME NEW s \in Thread, state[s] # "UNUSED"
                 PROVE  LET d == Bottom(stack'[s], pc'[s])
                        IN  /\ d \in Waits => target[s] # NoThread /\ InRing(target[s])
                            /\ d \in Reads => target[s] # NoThread /\ state'[target[s]] = "RELEASED"
                            /\ d \in Deletes => ~InRing(target[s])
      BY <1>5, <1>7 DEF Joining, Used, Base, InRing, Waits, Reads, Deletes, user
    <2>1. CASE s = cpu
      BY <1>2, <2>1 DEF Waits, Reads, Deletes
    <2>2. CASE s # cpu
      <3>1. target[s] \in Thread \cup {NoThread}
        BY <1>6 DEF TypeOK
      <3> QED BY <1>2, <1>7, <2>2, <3>1 DEF IInv, Joining, Used, Base, Waits, Reads, Deletes
    <2> QED BY <2>1, <2>2
  <1>17. Unlisted'
    <2> SUFFICES ASSUME NEW t \in Thread, state[t] # "UNUSED", ~InRing(t)
                 PROVE  \E s \in Thread : /\ state[s] # "UNUSED" /\ target[s] = t
                                          /\ Bottom(stack'[s], pc'[s]) \in Deletes
      BY <1>5, <1>7 DEF Unlisted, Deleting, Used, Base, InRing, Deletes, user
    <2>1. PICK s \in Thread : /\ state[s] # "UNUSED" /\ target[s] = t
                              /\ Bottom(stack[s], pc[s]) \in Deletes
      BY DEF IInv, Unlisted, Deleting, Used, Base, Deletes
    <2>2. s # cpu
      BY <1>2, <2>1 DEF Deletes, Base
    <2> QED BY <1>2, <2>1, <2>2
  <1>18. HeapHeld'
    BY <1>2, <1>5, <1>7 DEF IInv, HeapHeld, Served, Used, Base
  <1> QED BY <1>8, <1>9, <1>10, <1>11, <1>12, <1>13, <1>14, <1>15, <1>16, <1>17, <1>18 DEF IInv

\* The caller gives up the right to join the thread, which only it had.
LEMMA JoinCallStep ==
  ASSUME IInv, NEW t \in Thread, JoinCall(t)
  PROVE  IInv'
  <1>1. /\ "run" \in Label \ SubroutineLabel /\ At("run")
        /\ "join_wait" \in Label \ (SubroutineLabel \cup {"exit_returned"})
        /\ Goto("join_wait")
    BY DEF JoinCall, Label, SubroutineLabel, HandlerLabel
  <1>2. /\ cpu \in Thread /\ state[cpu] # "UNUSED" /\ Base(cpu) = "run"
        /\ pc' \in [Thread -> Label] /\ pc'[cpu] = "join_wait" /\ stack' = stack
        /\ stack \in [Thread -> Seq(Label)]
        /\ \A s \in Thread \ {cpu} : pc'[s] = pc[s]
        /\ WellStacked(stack'[cpu], pc'[cpu]) /\ Bottom(stack'[cpu], pc'[cpu]) = "join_wait"
        /\ \A s \in Thread \ {cpu} : Bottom(stack'[s], pc'[s]) = Bottom(stack[s], pc[s])
    BY <1>1, OwnGoto
  <1>3. /\ t \in handles[cpu]
        /\ target' = [target EXCEPT ![cpu] = t]
        /\ handles' = [handles EXCEPT ![cpu] = @ \ {t}]
        /\ UNCHANGED <<fields, schedule, locking, context, heap, arg, received>>
    BY DEF JoinCall
  <1>4. TypeOK
    BY Parts
  <1>5. /\ target' \in [Thread -> Thread \cup {NoThread}] /\ target'[cpu] = t
        /\ \A s \in Thread \ {cpu} : target'[s] = target[s]
    BY <1>2, <1>3, <1>4 DEF TypeOK
  <1>6. /\ handles' \in [Thread -> SUBSET Thread] /\ handles'[cpu] = handles[cpu] \ {t}
        /\ \A s \in Thread \ {cpu} : handles'[s] = handles[s]
    BY <1>2, <1>3, <1>4 DEF TypeOK
  <1>7. TypeOK'
    BY <1>2, <1>3, <1>4, <1>5, <1>6 DEF TypeOK, fields, schedule, locking, context
  <1>8. LockDiscipline'
    BY <1>1, <1>2, <1>3 DEF IInv, LockDiscipline, At, locking, context, CriticalLabel
  <1>9. Suspended'
    BY <1>2, <1>3 DEF IInv, Suspended, fields, context
  <1>10. StackShape' /\ MainStays'
    BY <1>2, <1>3, MainAssumption DEF IInv, StackShape, MainStays, Used, Base, fields
  <1>11. Finished'
    BY <1>2, <1>3 DEF IInv, Finished, Used, Base, fields
  <1>12. OnProcessor' /\ ScanBounded'
    BY <1>1, <1>2, <1>3 DEF IInv, OnProcessor, ScanBounded, At, fields, schedule, context
  <1>13. RingOrder'
    BY <1>3 DEF IInv, RingOrder, Used, fields, context
  <1>14. state[t] # "UNUSED" /\ t # Main /\ InRing(t) /\ t # NoThread
    BY <1>2, <1>3, MainAssumption DEF IInv, Ownership, Used
  <1>15. Ownership'
    <2>1. \A s \in Thread : target'[s] # NoThread => state[target'[s]] # "UNUSED" /\ target'[s] # Main
      BY <1>5, <1>14 DEF IInv, Ownership, Used
    <2>2. \A s \in Thread : \A u \in handles'[s] : state[u] # "UNUSED" /\ u # Main /\ InRing(u)
      BY <1>6 DEF IInv, Ownership, Used
    <2>3. \A r, s \in Thread : target'[r] = target'[s] /\ target'[r] # NoThread => r = s
      BY <1>2, <1>3, <1>5 DEF IInv, Ownership
    <2>4. \A r, s \in Thread : handles'[r] \cap handles'[s] # {} => r = s
      BY <1>6 DEF IInv, Ownership
    <2>5. \A r, s \in Thread : target'[r] \notin handles'[s]
      BY <1>2, <1>3, <1>5, <1>6 DEF IInv, Ownership
    <2> QED BY <1>3, <2>1, <2>2, <2>3, <2>4, <2>5 DEF Ownership, Used, InRing, fields
  <1>16. Joining'
    <2> SUFFICES ASSUME NEW s \in Thread, state[s] # "UNUSED"
                 PROVE  LET d == Bottom(stack'[s], pc'[s])
                        IN  /\ d \in Waits => target'[s] # NoThread /\ InRing(target'[s])
                            /\ d \in Reads => target'[s] # NoThread /\ state[target'[s]] = "RELEASED"
                            /\ d \in Deletes => ~InRing(target'[s])
      BY <1>3 DEF Joining, Used, Base, InRing, Waits, Reads, Deletes, fields
    <2>1. CASE s = cpu
      BY <1>2, <1>5, <1>14, <2>1 DEF Waits, Reads, Deletes
    <2>2. CASE s # cpu
      BY <1>2, <1>5, <2>2 DEF IInv, Joining, Used, Base, Waits, Reads, Deletes
    <2> QED BY <2>1, <2>2
  <1>17. Unlisted'
    <2> SUFFICES ASSUME NEW u \in Thread, state[u] # "UNUSED", ~InRing(u)
                 PROVE  \E s \in Thread : /\ state[s] # "UNUSED" /\ target'[s] = u
                                          /\ Bottom(stack'[s], pc'[s]) \in Deletes
      BY <1>3 DEF Unlisted, Deleting, Used, Base, InRing, Deletes, fields
    <2>1. PICK s \in Thread : /\ state[s] # "UNUSED" /\ target[s] = u
                              /\ Bottom(stack[s], pc[s]) \in Deletes
      BY DEF IInv, Unlisted, Deleting, Used, Base, Deletes
    <2>2. s # cpu
      BY <1>2, <2>1 DEF Deletes, Base
    <2> QED BY <1>2, <1>5, <2>1, <2>2
  <1>18. HeapHeld'
    BY <1>2, <1>3 DEF IInv, HeapHeld, Served, Used, Base, fields
  <1> QED BY <1>7, <1>8, <1>9, <1>10, <1>11, <1>12, <1>13, <1>15, <1>16, <1>17, <1>18 DEF IInv

\* The thread is released, so it is not the one on the processor, and only
\* this caller may join it: no one else looks for it in the list.
LEMMA JoinDelStep ==
  ASSUME IInv, JoinDel
  PROVE  IInv'
  <1> DEFINE T == target[cpu]
  <1>1. /\ "join_del" \in Label \ SubroutineLabel /\ At("join_del")
        /\ "join_unlock" \in Label \ (SubroutineLabel \cup {"exit_returned"})
        /\ Goto("join_unlock")
    BY DEF JoinDel, Label, SubroutineLabel, HandlerLabel
  <1>2. /\ cpu \in Thread /\ state[cpu] # "UNUSED" /\ Base(cpu) = "join_del"
        /\ pc' \in [Thread -> Label] /\ pc'[cpu] = "join_unlock" /\ stack' = stack
        /\ stack \in [Thread -> Seq(Label)]
        /\ \A s \in Thread \ {cpu} : pc'[s] = pc[s]
        /\ WellStacked(stack'[cpu], pc'[cpu]) /\ Bottom(stack'[cpu], pc'[cpu]) = "join_unlock"
        /\ \A s \in Thread \ {cpu} : Bottom(stack'[s], pc'[s]) = Bottom(stack[s], pc[s])
    BY <1>1, OwnGoto
  <1>3. TypeOK
    BY Parts
  <1>4. T # NoThread /\ T \in Thread /\ state[T] = "RELEASED" /\ InRing(T) /\ T # Main /\ T # cpu
    BY <1>2, <1>3 DEF IInv, Joining, Ownership, OnProcessor, Used, TypeOK
  <1>5. /\ ring' = RingWithout(T)
        /\ UNCHANGED <<state, return_value, schedule, locking, context, heap, user>>
    BY DEF JoinDel
  <1>6. /\ ring' \in Seq(Thread) /\ ring' # <<>> /\ ring'[1] = Main
        /\ \A i, j \in DOMAIN ring' : ring'[i] = ring'[j] => i = j
        /\ \A s : (\E i \in DOMAIN ring' : ring'[i] = s) <=> InRing(s) /\ s # T
    <2> HIDE DEF T
    <2> QED BY <1>4, <1>5, WithoutNode
  <1>7. TypeOK'
    BY <1>2, <1>3, <1>5, <1>6 DEF TypeOK, schedule, locking, context, user
  <1>8. LockDiscipline'
    BY <1>1, <1>2, <1>5 DEF IInv, LockDiscipline, At, locking, context, CriticalLabel
  <1>9. Suspended'
    BY <1>2, <1>5 DEF IInv, Suspended, context
  <1>10. StackShape' /\ MainStays'
    BY <1>2, <1>5, MainAssumption DEF IInv, StackShape, MainStays, Used, Base
  <1>11. Finished'
    BY <1>2, <1>5 DEF IInv, Finished, Used, Base
  <1>12. OnProcessor' /\ ScanBounded'
    BY <1>1, <1>2, <1>5 DEF IInv, OnProcessor, ScanBounded, At, schedule, context
  <1>13. RingOrder'
    <2>1. \A i \in DOMAIN ring' : state[ring'[i]] # "UNUSED"
      <3> TAKE i \in DOMAIN ring'
      <3>1. InRing(ring'[i])
        BY <1>6
      <3> QED BY <3>1, Sequences DEF InRing, Used
    <2>2. \E i \in DOMAIN ring' : ring'[i] = cpu
      BY <1>4, <1>6, Sequences
    <2> QED BY <1>5, <1>6, <2>1, <2>2, Sequences DEF RingOrder, Used, context
  <1>14. Ownership'
    <2>1. \A s \in Thread : T \notin handles[s]
      BY <1>2 DEF IInv, Ownership
    <2>2. \A s \in Thread : \A t \in handles[s] :
            state[t] # "UNUSED" /\ t # Main /\ \E i \in DOMAIN ring' : ring'[i] = t
      BY <1>6, <2>1 DEF IInv, Ownership, Used
    <2> QED BY <1>5, <2>2 DEF IInv, Ownership, Used, InRing, user
  <1>15. Joining'
    <2> SUFFICES ASSUME NEW s \in Thread, state[s] # "UNUSED"
                 PROVE  LET d == Bottom(stack'[s], pc'[s])
                        IN  /\ d \in Waits => /\ target[s] # NoThread
                                              /\ \E i \in DOMAIN ring' : ring'[i] = target[s]
                            /\ d \in Reads => target[s] # NoThread /\ state[target[s]] = "RELEASED"
                            /\ d \in Deletes => ~ \E i \in DOMAIN ring' : ring'[i] = target[s]
      BY <1>5 DEF Joining, Used, Base, InRing, Waits, Reads, Deletes, user
    <2>1. CASE s = cpu
      BY <1>2, <1>4, <1>6, <2>1 DEF Waits
    <2>2. CASE s # cpu
      <3> DEFINE d == Bottom(stack[s], pc[s])
      <3>1. /\ d \in Waits => target[s] # NoThread /\ InRing(target[s])
            /\ d \in Reads => target[s] # NoThread /\ state[target[s]] = "RELEASED"
            /\ d \in Deletes => ~InRing(target[s])
        BY DEF IInv, Joining, Used, Base, Waits, Reads, Deletes
      <3>2. target[s] # T
        BY <1>2, <1>4, <2>2 DEF IInv, Ownership
      <3>3. Bottom(stack'[s], pc'[s]) = d
        BY <1>2, <2>2
      <3> HIDE DEF d, T
      <3> QED BY <1>6, <3>1, <3>2, <3>3
    <2> QED BY <2>1, <2>2
  <1>16. Unlisted'
    <2> SUFFICES ASSUME NEW t \in Thread, state[t] # "UNUSED",
                        ~ \E i \in DOMAIN ring' : ring'[i] = t
                 PROVE  \E s \in Thread : /\ state[s] # "UNUSED" /\ target[s] = t
                                          /\ Bottom(stack'[s], pc'[s]) \in Deletes
      BY <1>5 DEF Unlisted, Deleting, Used, Base, InRing, Deletes, user
    <2>1. CASE t = T
      BY <1>2, <2>1 DEF Deletes
    <2>2. CASE t # T
      <3>1. PICK s \in Thread : /\ state[s] # "UNUSED" /\ target[s] = t
                                /\ Bottom(stack[s], pc[s]) \in Deletes
        BY <1>6, <2>2 DEF IInv, Unlisted, Deleting, Used, Base, Deletes
      <3>2. s # cpu
        BY <2>2, <3>1
      <3> QED BY <1>2, <3>1, <3>2
    <2> QED BY <2>1, <2>2
  <1>17. HeapHeld'
    BY <1>2, <1>5 DEF IInv, HeapHeld, Served, Used, Base
  <1> QED BY <1>7, <1>8, <1>9, <1>10, <1>11, <1>12, <1>13, <1>14, <1>15, <1>16, <1>17 DEF IInv

\* The thread object is freed: it is off the list, and it has ended, so
\* nothing of it is in use.
LEMMA JoinFreeStep ==
  ASSUME IInv, JoinFree
  PROVE  IInv'
  <1> DEFINE T == target[cpu]
  <1>1. TypeOK
    BY Parts
  <1>2. /\ pc[cpu] = "join_spin" /\ stack[cpu] = <<>> /\ Base(cpu) = "join_spin"
        /\ cpu \in Thread /\ state[cpu] # "UNUSED" /\ Served("slab") = cpu
    BY Where DEF JoinFree, At, SubroutineLabel, HandlerLabel, Used
  <1>3. T # NoThread /\ T \in Thread /\ state[T] = "RELEASED" /\ ~InRing(T) /\ T # Main /\ T # cpu
    BY <1>1, <1>2 DEF IInv, Joining, Ownership, OnProcessor, Used, TypeOK
  <1>4. Bottom(stack[T], pc[T]) \in Exited
    BY <1>3 DEF IInv, Finished, Used, Base, Exited
  <1>5. /\ state' = [state EXCEPT ![T] = "UNUSED"]
        /\ return_value' = [return_value EXCEPT ![T] = NoValue]
        /\ arg' = [arg EXCEPT ![T] = NoValue]
        /\ pc' = [pc EXCEPT ![cpu] = "join_freed", ![T] = "run"]
        /\ stack' = [stack EXCEPT ![T] = <<>>]
        /\ target' = [target EXCEPT ![cpu] = NoThread]
        /\ UNCHANGED <<ring, schedule, locking, context, heap, received, handles>>
    BY DEF JoinFree
  <1> HIDE DEF T
  <1>6. /\ state' \in [Thread -> ThreadState] /\ state'[T] = "UNUSED"
        /\ \A s \in Thread \ {T} : state'[s] = state[s]
    BY <1>1, <1>3, <1>5 DEF TypeOK, ThreadState
  <1>7. /\ pc' \in [Thread -> Label] /\ pc'[cpu] = "join_freed"
        /\ \A s \in Thread \ {T, cpu} : pc'[s] = pc[s]
    BY <1>1, <1>2, <1>3, <1>5 DEF TypeOK, Label
  <1>8. /\ stack' \in [Thread -> Seq(Label)]
        /\ \A s \in Thread \ {T} : stack'[s] = stack[s]
    BY <1>1, <1>3, <1>5 DEF TypeOK
  <1>9. /\ target' \in [Thread -> Thread \cup {NoThread}] /\ target'[cpu] = NoThread
        /\ \A s \in Thread \ {cpu} : target'[s] = target[s]
    BY <1>1, <1>2, <1>5 DEF TypeOK
  <1>10. /\ Bottom(stack'[cpu], pc'[cpu]) = "join_freed" /\ WellStacked(stack'[cpu], pc'[cpu])
         /\ \A s \in Thread \ {T, cpu} : Bottom(stack'[s], pc'[s]) = Bottom(stack[s], pc[s])
    <2>1. Bottom(<<>>, "join_freed") = "join_freed" /\ WellStacked(<<>>, "join_freed")
      BY DEF Bottom, WellStacked, SubroutineLabel, HandlerLabel
    <2> QED BY <1>2, <1>3, <1>7, <1>8, <2>1
  <1>11. TypeOK'
    <2>1. arg' \in [Thread -> Value \cup {NoValue}] /\ return_value' \in [Thread -> Value \cup {NoValue}]
      BY <1>1, <1>3, <1>5 DEF TypeOK
    <2> QED BY <1>1, <1>5, <1>6, <1>7, <1>8, <1>9, <2>1 DEF TypeOK, schedule, locking, context
  <1>12. LockDiscipline'
    BY <1>2, <1>5, <1>7 DEF IInv, LockDiscipline, At, locking, context, CriticalLabel
  <1>13. Suspended'
    BY <1>5, <1>6, <1>7 DEF IInv, Suspended, context
  <1>14. StackShape'
    BY <1>6, <1>7, <1>8, <1>10 DEF IInv, StackShape, Used
  <1>15. MainStays'
    BY <1>3, <1>10, MainAssumption DEF IInv, MainStays, Base
  <1>16. Finished'
    BY <1>2, <1>6, <1>10 DEF IInv, Finished, Used, Base
  <1>17. OnProcessor' /\ ScanBounded'
    BY <1>2, <1>3, <1>5, <1>6, <1>7 DEF IInv, OnProcessor, ScanBounded, At, schedule, context
  <1>18. RingOrder'
    <2>1. \A i \in DOMAIN ring : ring[i] \in Thread \ {T} /\ state[ring[i]] # "UNUSED"
      BY <1>3, Sequences DEF InRing, Used
    <2> QED BY <1>3, <1>5, <1>6, <2>1, MainAssumption DEF IInv, RingOrder, Used, context
  <1>19. Ownership'
    <2>1. \A s \in Thread : T \notin handles[s]
      BY <1>2 DEF IInv, Ownership, T
    <2>2. \A s \in Thread \ {cpu} : target[s] # T
      BY <1>2, <1>3 DEF IInv, Ownership, T
    <2>3. \A s \in Thread : target'[s] # NoThread => state'[target'[s]] # "UNUSED" /\ target'[s] # Main
      <3> TAKE s \in Thread
      <3> HAVE target'[s] # NoThread
      <3>1. s # cpu /\ target'[s] = target[s] /\ target[s] \in Thread \ {T}
        BY <1>1, <1>9, <2>2 DEF TypeOK
      <3> QED BY <1>6, <3>1 DEF IInv, Ownership, Used
    <2>4. \A s \in Thread : \A t \in handles[s] : state'[t] # "UNUSED" /\ t # Main /\ InRing(t)
      <3> TAKE s \in Thread
      <3> TAKE t \in handles[s]
      <3>1. t \in Thread \ {T}
        BY <1>1, <2>1 DEF TypeOK
      <3> QED BY <1>6, <3>1 DEF IInv, Ownership, Used
    <2>5. \A r, s \in Thread : target'[r] = target'[s] /\ target'[r] # NoThread => r = s
      BY <1>9 DEF IInv, Ownership
    <2>6. \A r, s \in Thread : target'[r] \notin handles[s]
      BY <1>1, <1>9, MainAssumption DEF IInv, Ownership, TypeOK
    <2> QED BY <1>5, <2>3, <2>4, <2>5, <2>6 DEF IInv, Ownership, Used, InRing
  <1>20. Joining'
    <2> SUFFICES ASSUME NEW s \in Thread, state'[s] # "UNUSED"
                 PROVE  LET d == Bottom(stack'[s], pc'[s])
                        IN  /\ d \in Waits => target'[s] # NoThread /\ InRing(target'[s])
                            /\ d \in Reads => /\ target'[s] # NoThread
                                              /\ state'[target'[s]] = "RELEASED"
                            /\ d \in Deletes => ~InRing(target'[s])
      BY <1>5 DEF Joining, Used, Base, InRing, Waits, Reads, Deletes
    <2>1. CASE s = cpu
      BY <1>10, <2>1 DEF Waits, Reads, Deletes
    <2>2. CASE s # cpu
      <3> DEFINE d == Bottom(stack[s], pc[s])
      <3>1. s # T /\ state[s] # "UNUSED" /\ target'[s] = target[s]
        BY <1>6, <1>9, <2>2
      <3>2. /\ d \in Waits => target[s] # NoThread /\ InRing(target[s])
            /\ d \in Reads => target[s] # NoThread /\ state[target[s]] = "RELEASED"
            /\ d \in Deletes => ~InRing(target[s])
        BY <3>1 DEF IInv, Joining, Used, Base, Waits, Reads, Deletes
      <3>3. target[s] # NoThread => target[s] \in Thread \ {T}
        BY <1>1, <1>2, <1>3, <2>2 DEF IInv, Ownership, TypeOK, T
      <3>4. Bottom(stack'[s], pc'[s]) = d
        BY <1>10, <2>2, <3>1
      <3> HIDE DEF d
      <3> QED BY <1>6, <3>1, <3>2, <3>3, <3>4
    <2> QED BY <2>1, <2>2
  <1>21. Unlisted'
    <2> SUFFICES ASSUME NEW t \in Thread, state'[t] # "UNUSED", ~InRing(t)
                 PROVE  \E s \in Thread : /\ state'[s] # "UNUSED" /\ target'[s] = t
                                          /\ Bottom(stack'[s], pc'[s]) \in Deletes
      BY <1>5 DEF Unlisted, Deleting, Used, Base, InRing, Deletes
    <2>1. t # T /\ state[t] # "UNUSED"
      BY <1>6
    <2>2. PICK s \in Thread : /\ state[s] # "UNUSED" /\ target[s] = t
                              /\ Bottom(stack[s], pc[s]) \in Deletes
      BY <2>1 DEF IInv, Unlisted, Deleting, Used, Base, Deletes
    <2>3. s # cpu /\ s # T
      BY <1>4, <2>1, <2>2 DEF T, Exited, Deletes
    <2> QED BY <1>6, <1>9, <1>10, <2>2, <2>3
  <1>22. HeapHeld'
    BY <1>2, <1>5, <1>6, <1>10, ZenonT(30) DEF IInv, HeapHeld, Served, Used, Base
  <1> QED BY <1>11, <1>12, <1>13, <1>14, <1>15, <1>16, <1>17, <1>18, <1>19, <1>20, <1>21,
             <1>22 DEF IInv

-----------------------------------------------------------------------------
(* The invariant and what follows from it *)

\* init_threads establishes the invariant.
LEMMA InitStep == Init => IInv
  <1> SUFFICES ASSUME Init PROVE IInv
    OBVIOUS
  <1>1. Main \in Thread /\ NoThread \notin Thread
    BY MainAssumption
  <1>2. TypeOK
    <2>1. <<Main>> \in Seq(Thread)
      BY <1>1
    <2>2. state \in [Thread -> ThreadState] /\ pc \in [Thread -> Label]
      BY DEF Init, ThreadState, Label
    <2>3. threads_lock \in BOOLEAN /\ interrupts \in BOOLEAN
      BY DEF Init
    <2>4. stack \in [Thread -> Seq(Label)] /\ heap \in [HeapLock -> Seq(Thread)]
      BY DEF Init
    <2>5. saved_if \in [Thread -> BOOLEAN]
      BY DEF Init
    <2>6. lock_nesting_depth \in Int /\ elapsed_time \in Nat
      BY DEF Init
    <2> QED BY <1>1, <2>1, <2>2, <2>3, <2>4, <2>5, <2>6 DEF Init, TypeOK
  <1>3. LockDiscipline
    <2>1. pc[cpu] = "run" /\ "run" \notin CriticalLabel
      BY <1>1 DEF Init, CriticalLabel
    <2>2. ~threads_lock /\ lock_nesting_depth = 0 /\ interrupts
      BY DEF Init
    <2> QED BY <2>1, <2>2 DEF LockDiscipline, At
  <1>4. \A t \in Thread : Used(t) <=> t = Main
    BY DEF Init, Used
  <1>5. \A t \in Thread : stack[t] = <<>> /\ pc[t] = "run" /\ Base(t) = "run"
    BY DEF Init, Base, Bottom
  <1>6. Suspended
    BY <1>4 DEF Init, Suspended, Used
  <1>7. StackShape
    BY <1>5 DEF StackShape, WellStacked, Bottom, SubroutineLabel, HandlerLabel
  <1>8. Finished /\ OnProcessor /\ ScanBounded
    BY <1>1, <1>4, <1>5 DEF Init, Finished, OnProcessor, ScanBounded, At
  <1>9. ring = <<Main>> /\ DOMAIN ring = {1} /\ ring[1] = Main /\ ring # <<>>
    BY DEF Init
  <1>10. RingOrder
    BY <1>1, <1>4, <1>9 DEF RingOrder, Init
  <1>11. Ownership
    BY DEF Ownership, Init
  <1>12. Joining
    BY <1>5 DEF Joining
  <1>13. Unlisted
    BY <1>4, <1>9 DEF Unlisted, InRing
  <1>14. MainStays /\ HeapHeld
    BY <1>1, <1>5 DEF MainStays, HeapHeld
  <1> QED BY <1>2, <1>3, <1>6, <1>7, <1>8, <1>10, <1>11, <1>12, <1>13, <1>14 DEF IInv

\* Every step preserves the invariant.
LEMMA NextStep == IInv /\ [Next]_vars => IInv'
  <1> SUFFICES ASSUME IInv, [Next]_vars PROVE IInv'
    OBVIOUS
  <1>1. CASE Create
    <2>1. CASE CreateLock
      BY <2>1, LockStep DEF CreateLock
    <2>2. ASSUME NEW t \in Thread, CreateBody(t) PROVE IInv'
      BY <2>2, CreateBodyStep
    <2>3. CASE CreateUnlock
      BY <2>3, UnlockGoto DEF CreateUnlock
    <2>4. CASE WrapperUnlock
      BY <2>4, UnlockReturn DEF WrapperUnlock
    <2> QED BY <1>1, <2>1, <2>2, <2>3, <2>4 DEF Create
  <1>2. CASE Yield
    <2>1. CASE YieldLock
      BY <2>1, LockStep DEF YieldLock
    <2>2. CASE YieldPick
      BY <2>2, YieldPickStep
    <2>3. CASE YieldReap
      BY <2>3, ScanStep DEF YieldReap
    <2>4. CASE YieldSkip
      <3>1. state' = [state EXCEPT ![current_thread] = "RELEASED"]
        BY <2>4, Parts DEF YieldSkip, fields, TypeOK
      <3> QED BY <2>4, <3>1, ScanStep DEF YieldSkip, fields
    <2>5. CASE YieldStay
      BY <2>5, YieldStayStep
    <2>6. CASE YieldSwitch
      BY <2>6, YieldSwitchStep
    <2>7. CASE YieldUnlock
      BY <2>7, UnlockReturn DEF YieldUnlock
    <2> QED BY <1>2, <2>1, <2>2, <2>3, <2>4, <2>5, <2>6, <2>7 DEF Yield
  <1>3. CASE Exit
    <2>1. CASE ExitLock
      BY <2>1, LockStep DEF ExitLock
    <2>2. CASE ExitBody
      BY <2>2, ExitBodyStep
    <2>3. CASE ExitUnlock
      BY <2>3, ExitUnlockStep
    <2> QED BY <1>3, <2>1, <2>2, <2>3 DEF Exit
  <1>4. CASE Join
    <2>1. CASE JoinWait
      BY <2>1, JoinWaitStep
    <2>2. CASE JoinRead
      BY <2>2, JoinReadStep
    <2>3. CASE JoinLock
      BY <2>3, LockStep DEF JoinLock
    <2>4. CASE JoinDel
      BY <2>4, JoinDelStep
    <2>5. CASE JoinUnlock
      BY <2>5, UnlockGoto DEF JoinUnlock
    <2>6. CASE JoinTakeTicket
      BY <2>6, HeapEnter DEF JoinTakeTicket, HeapLock
    <2>7. CASE JoinFree
      BY <2>7, JoinFreeStep
    <2>8. CASE JoinReturn
      BY <2>8, HeapLeave DEF JoinReturn, HeapLock
    <2> QED BY <1>4, <2>1, <2>2, <2>3, <2>4, <2>5, <2>6, <2>7, <2>8 DEF Join
  <1>5. CASE Heap
    <2>1. ASSUME NEW l \in HeapLock, HeapAcquire(l) PROVE IInv'
      BY <2>1, HeapEnter DEF HeapAcquire, HeapLock, SpinLabel, HeldLabel
    <2>2. ASSUME NEW l \in HeapLock, HeapRelease(l) PROVE IInv'
      <3>1. <<HeldLabel[l], "run", l>> \in {<<"slab_held", "run", "slab">>, <<"buddy_held", "run", "buddy">>}
        BY DEF HeapLock, HeldLabel
      <3> QED BY <2>2, <3>1, HeapLeave DEF HeapRelease
    <2>3. CASE NewSlabAcquire
      BY <2>3, HeapEnter DEF NewSlabAcquire, HeapLock
    <2>4. CASE NewSlabRelease
      BY <2>4, HeapLeave DEF NewSlabRelease, HeapLock
    <2> QED BY <1>5, <2>1, <2>2, <2>3, <2>4 DEF Heap
  <1>6. CASE Tick
    <2>1. CASE TickLock
      BY <2>1, LockStep DEF TickLock
    <2>2. CASE TickCount
      BY <2>2, TickCountStep
    <2>3. CASE TickUnlock
      BY <2>3, UnlockGoto DEF TickUnlock
    <2>4. CASE TickExpired
      BY <2>4, TickExpiredStep
    <2>5. CASE TickIret
      BY <2>5, TickIretStep
    <2> QED BY <1>6, <2>1, <2>2, <2>3, <2>4, <2>5 DEF Tick
  <1>7. CASE UserStep
    <2>1. CASE CreateCall
      BY <2>1, CreateCallStep
    <2>2. CASE YieldCall
      BY <2>2, YieldCallStep DEF YieldCall
    <2>3. ASSUME NEW v \in Value, ExitCall(v) PROVE IInv'
      BY <2>3, ExitCallStep
    <2>4. ASSUME NEW t \in Thread, JoinCall(t) PROVE IInv'
      BY <2>4, JoinCallStep
    <2>5. ASSUME NEW l \in HeapLock, HeapCall(l) PROVE IInv'
      <3>1. <<"run", SpinLabel[l], l>> \in {<<"run", "slab_spin", "slab">>,
                                            <<"run", "buddy_spin", "buddy">>}
        BY DEF HeapLock, SpinLabel
      <3> QED BY <2>5, <3>1, HeapEnter DEF HeapCall
    <2>6. CASE NewSlab
      BY <2>6, HeapEnter DEF NewSlab, HeapLock
    <2> QED BY <1>7, <2>1, <2>2, <2>3, <2>4, <2>5, <2>6 DEF UserStep
  <1>8. CASE Timer
    BY <1>8, TimerStep
  <1>9. CASE UNCHANGED vars
    <2>1. UNCHANGED <<state, return_value, ring, current_thread, old_thread, elapsed_time,
                      threads_lock, lock_nesting_depth, interrupts, cpu, saved_if, pc, stack,
                      heap, arg, target, received, handles>>
      BY <1>9 DEF vars, fields, schedule, locking, context, user
    <2>2. TypeOK' /\ LockDiscipline' /\ Suspended'
      BY <2>1 DEF IInv, TypeOK, LockDiscipline, Suspended, At
    <2>3. StackShape' /\ Finished' /\ OnProcessor' /\ ScanBounded' /\ RingOrder'
      BY <2>1 DEF IInv, StackShape, Finished, OnProcessor, ScanBounded, RingOrder, Used, Base, At
    <2>4. Ownership' /\ Joining'
      BY <2>1 DEF IInv, Ownership, Joining, Used, Base, InRing
    <2>5. Unlisted' /\ MainStays' /\ HeapHeld'
      BY <2>1 DEF IInv, Unlisted, MainStays, HeapHeld, Deleting, Used, Base, InRing, Served
    <2> QED BY <2>2, <2>3, <2>4, <2>5 DEF IInv
  <1> QED BY <1>1, <1>2, <1>3, <1>4, <1>5, <1>6, <1>7, <1>8, <1>9 DEF Next, KernelStep

\* IInv holds always: threads.c keeps the strengthening of the properties
\* below whatever the threads, the timer and the allocators' callers do.
THEOREM Inductive == Spec => []IInv
  BY InitStep, NextStep, PTL DEF Spec

\* Every variable has its type, always: no index or field read is undefined.
THEOREM TypeCorrect == Spec => []TypeOK
  <1>1. IInv => TypeOK
    BY Parts
  <1> QED BY <1>1, Inductive, PTL

\* threads_lock is held exactly in the critical sections of threads.c and
\* function_wrapper, once, with interrupts off, though one thread locks it and
\* another one unlocks it.
THEOREM LocksRight == Spec => []LockDiscipline
  <1>1. IInv => LockDiscipline
    BY Parts
  <1> QED BY <1>1, Inductive, PTL

\* Whatever thread switch_threads goes to continues with an unlock, and with
\* interrupts off.
THEOREM SuspendedRight == Spec => []Suspended
  <1>1. IInv => Suspended
    BY Parts
  <1> QED BY <1>1, Inductive, PTL

\* No thread runs on a stack that thread_yield has freed, and no finished
\* thread returns from thread_exit.
THEOREM StacksRight == Spec => []StackAlive
  <1>1. IInv => StackAlive
    <2> SUFFICES ASSUME IInv PROVE StackAlive
      OBVIOUS
    <2>1. state[cpu] \in {"RUNNING", "FINISHED"}
      BY DEF IInv, OnProcessor
    <2>2. ASSUME pc[cpu] = "exit_returned"
          PROVE  FALSE
      <3>1. pc[cpu] \notin SubroutineLabel
        BY <2>2 DEF SubroutineLabel, HandlerLabel
      <3> QED BY <2>2, <3>1, Where DEF WellStacked
    <2> QED BY <2>1, <2>2 DEF StackAlive, At
  <1> QED BY <1>1, Inductive, PTL

\* The list holds each thread from its thread_create to the list_del of its
\* thread_join, once, and starts with the initial thread.
THEOREM RingRight == Spec => []RingMembers
  <1>1. IInv => RingMembers
    <2> SUFFICES ASSUME IInv PROVE RingMembers
      OBVIOUS
    <2> DEFINE gone == {target[s] : s \in {r \in Thread : Deleting(r)}}
    <2>1. ASSUME NEW t \in Thread
          PROVE  t \in gone <=> Used(t) /\ ~InRing(t)
      <3>1. ASSUME NEW s \in Thread, Deleting(s), target[s] = t
            PROVE  Used(t) /\ ~InRing(t)
        BY <3>1, MainAssumption DEF IInv, Deleting, Joining, Used
      <3>2. Used(t) /\ ~InRing(t) => \E s \in Thread : Deleting(s) /\ target[s] = t
        BY DEF IInv, Unlisted
      <3> QED BY <3>1, <3>2
    <2>2. {ring[i] : i \in DOMAIN ring} = {t \in Thread : InRing(t)}
      BY Sequences DEF InRing
    <2>3. \A t \in Thread : InRing(t) => Used(t)
      BY Sequences DEF InRing
    <2>4. {t \in Thread : InRing(t)} = {t \in Thread : state[t] # "UNUSED"} \ gone
      <3> HIDE DEF gone
      <3> QED BY <2>1, <2>3 DEF Used
    <2> QED BY <2>2, <2>4, Sequences DEF RingMembers
  <1> QED BY <1>1, Inductive, PTL

-----------------------------------------------------------------------------
(* What the refinement needs beyond IInv *)

ExitLabel == {"exit_lock", "exit_body"}
JoinLabel == {"join_wait", "join_read", "join_lock", "join_del",
              "join_unlock", "join_free", "join_spin"}
CollectLabel == {"join_lock", "join_del", "join_unlock", "join_free", "join_spin"}

\* thread_exit is called with a value, and stores it in the thread object.
Values ==
  /\ \A t \in Thread : Used(t) /\ Base(t) \in ExitLabel => arg[t] \in Value
  /\ \A t \in Thread : state[t] \in {"FINISHED", "RELEASED"} => return_value[t] = arg[t]

\* Only a thread inside thread_join has one it joins.
Targets ==
  \A s \in Thread : target[s] # NoThread => Used(s) /\ Base(s) \in JoinLabel

SInv == IInv /\ Values /\ Targets

-----------------------------------------------------------------------------
(* Where a thread is after a step: below all calls, and all interrupts *)

LEMMA BaseAfterGoto ==
  ASSUME IInv, NEW to, Goto(to)
  PROVE  /\ Base(cpu) \in {pc[cpu]} \/ pc[cpu] \in SubroutineLabel
         /\ \A s \in Thread : s # cpu => Bottom(stack'[s], pc'[s]) = Base(s)
         /\ Bottom(stack'[cpu], pc'[cpu]) = IF pc[cpu] \in SubroutineLabel THEN Base(cpu) ELSE to
  <1>1. /\ pc' = [pc EXCEPT ![cpu] = to] /\ stack' = stack
        /\ pc \in [Thread -> Label] /\ cpu \in Thread
    BY Parts DEF Goto, TypeOK
  <1>2. pc'[cpu] = to /\ \A s \in Thread : s # cpu => pc'[s] = pc[s]
    BY <1>1
  <1>3. pc[cpu] \in SubroutineLabel <=> stack[cpu] # <<>>
    BY Where DEF WellStacked
  <1> QED BY <1>1, <1>2, <1>3 DEF Base, Bottom

LEMMA BaseAfterCall ==
  ASSUME IInv, NEW l, NEW return \in Label, Call(l, return)
  PROVE  /\ \A s \in Thread : s # cpu => Bottom(stack'[s], pc'[s]) = Base(s)
         /\ Bottom(stack'[cpu], pc'[cpu]) = IF pc[cpu] \in SubroutineLabel THEN Base(cpu) ELSE return
  <1>1. /\ pc' = [pc EXCEPT ![cpu] = l] /\ stack' = [stack EXCEPT ![cpu] = <<return>> \o @]
        /\ pc \in [Thread -> Label] /\ stack \in [Thread -> Seq(Label)] /\ cpu \in Thread
    BY Parts DEF Call, TypeOK
  <1>2. /\ pc'[cpu] = l /\ stack'[cpu] = <<return>> \o stack[cpu]
        /\ \A s \in Thread : s # cpu => pc'[s] = pc[s] /\ stack'[s] = stack[s]
    BY <1>1
  <1>3. pc[cpu] \in SubroutineLabel <=> stack[cpu] # <<>>
    BY Where DEF WellStacked
  <1>4. Bottom(<<return>> \o stack[cpu], l) =
          IF stack[cpu] = <<>> THEN return ELSE Bottom(stack[cpu], pc[cpu])
    <2> DEFINE s == stack[cpu]
               r == <<return>> \o s
    <2>1. /\ s \in Seq(Label) /\ r \in Seq(Label) /\ Len(r) = Len(s) + 1 /\ r # <<>>
          /\ r[1] = return /\ \A i \in 2 .. Len(r) : r[i] = s[i - 1]
      BY <1>1
    <2> HIDE DEF s, r
    <2>2. CASE s = <<>>
      BY <2>1, <2>2 DEF Bottom
    <2>3. CASE s # <<>>
      <3>1. Len(s) \in Nat \ {0}
        BY <2>1, <2>3
      <3> QED BY <2>1, <2>3, <3>1 DEF Bottom
    <2> QED BY <2>2, <2>3 DEF s, r
  <1> QED BY <1>2, <1>3, <1>4 DEF Base

LEMMA BaseAfterReturn ==
  ASSUME IInv, Return, pc[cpu] \in SubroutineLabel
  PROVE  \A s \in Thread : Bottom(stack'[s], pc'[s]) = Base(s)
  <1>1. /\ pc' = [pc EXCEPT ![cpu] = Head(stack[cpu])] /\ stack' = [stack EXCEPT ![cpu] = Tail(@)]
        /\ pc \in [Thread -> Label] /\ stack \in [Thread -> Seq(Label)] /\ cpu \in Thread
    BY Parts DEF Return, TypeOK
  <1>2. /\ pc'[cpu] = Head(stack[cpu]) /\ stack'[cpu] = Tail(stack[cpu])
        /\ \A s \in Thread : s # cpu => pc'[s] = pc[s] /\ stack'[s] = stack[s]
    BY <1>1
  <1>3. stack[cpu] # <<>>
    BY Where DEF WellStacked
  <1>4. Bottom(Tail(stack[cpu]), Head(stack[cpu])) = Bottom(stack[cpu], pc[cpu])
    <2> DEFINE s == stack[cpu]
               r == Tail(s)
    <2>1. /\ s \in Seq(Label) /\ Len(s) \in Nat \ {0} /\ r \in Seq(Label) /\ Len(r) = Len(s) - 1
          /\ Head(s) = s[1] /\ \A i \in 1 .. Len(r) : r[i] = s[i + 1]
      BY <1>1, <1>3
    <2>2. s # <<>>
      BY <1>3
    <2> HIDE DEF s, r
    <2>3. r = <<>> <=> Len(s) = 1
      BY <2>1
    <2>4. Bottom(r, Head(s)) = Bottom(s, pc[cpu])
      <3>1. CASE Len(s) = 1
        BY <2>1, <2>2, <2>3, <3>1 DEF Bottom
      <3>2. CASE Len(s) # 1
        <4>1. Len(r) \in 1 .. Len(r) /\ r # <<>>
          BY <2>1, <2>3, <3>2
        <4> QED BY <2>1, <2>2, <4>1 DEF Bottom
      <3> QED BY <3>1, <3>2
    <2> QED BY <2>4 DEF s, r
  <1> QED BY <1>2, <1>4 DEF Base

-----------------------------------------------------------------------------
(* The mapping *)

Phase ==
  [t \in Thread |->
     CASE state[t] = "UNUSED" -> "none"
       [] state[t] = "RUNNING" -> "live"
       [] OTHER -> IF Collected(t) THEN "collected" ELSE "exited"]

Result ==
  [t \in Thread |-> IF state[t] \in {"FINISHED", "RELEASED"} THEN arg[t] ELSE NoValue]

Joiner ==
  [t \in Thread |-> IF \E s \in Thread : target[s] = t
                    THEN CHOOSE s \in Thread : target[s] = t ELSE NoThread]

\* The phase of a thread, case by case.
LEMMA PhaseCases ==
  ASSUME NEW t \in Thread
  PROVE  /\ state[t] = "UNUSED" => Phase[t] = "none"
         /\ state[t] = "RUNNING" => Phase[t] = "live"
         /\ state[t] \in {"FINISHED", "RELEASED"} =>
              Phase[t] = IF Collected(t) THEN "collected" ELSE "exited"
BY DEF Phase

\* The joiner of a thread, of which there is at most one.
LEMMA JoinerCases ==
  ASSUME IInv, NEW t \in Thread
  PROVE  /\ (\A s \in Thread : target[s] # t) => Joiner[t] = NoThread
         /\ \A s \in Thread : target[s] = t => Joiner[t] = s
  <1>1. \A r, s \in Thread : target[r] = t /\ target[s] = t => r = s
    BY MainAssumption DEF IInv, Ownership
  <1> QED BY <1>1 DEF Joiner

LEMMA CollectedCases ==
  ASSUME NEW t \in Thread
  PROVE  Collected(t) <=> \E s \in Thread : target[s] = t /\ Used(s) /\ Base(s) \in CollectLabel
BY DEF Collected, Used, CollectLabel

-----------------------------------------------------------------------------
(* Steps a caller does not see *)

\* Nobody begins or ends to wait for a value, or to hand one in.
Silent ==
  /\ UNCHANGED <<state, target, received, arg, return_value>>
  /\ \A s \in Thread : Used(s) =>
       /\ Bottom(stack'[s], pc'[s]) \in CollectLabel <=> Base(s) \in CollectLabel
       /\ Base(s) \in JoinLabel => Bottom(stack'[s], pc'[s]) \in JoinLabel
       /\ Bottom(stack'[s], pc'[s]) \in ExitLabel => Base(s) \in ExitLabel

LEMMA SilentStep ==
  ASSUME SInv, Silent
  PROVE  UNCHANGED <<Phase, Result, Joiner, received>> /\ Values' /\ Targets'
  <1>1. UNCHANGED <<state, target, received, arg, return_value>>
    BY DEF Silent
  <1>2. \A t \in Thread : Collected(t)' <=> Collected(t)
    BY <1>1 DEF Silent, Collected, Used, CollectLabel, Base
  <1>3. Phase' = Phase
    BY <1>1, <1>2 DEF Phase
  <1>4. Result' = Result /\ Joiner' = Joiner
    BY <1>1 DEF Result, Joiner
  <1>5. Values'
    BY <1>1 DEF SInv, Values, Silent, Used, Base
  <1>6. Targets'
    BY <1>1 DEF SInv, Targets, Silent, Used, Base
  <1> QED BY <1>1, <1>3, <1>4, <1>5, <1>6

\* A step to a place of the same kind
LEMMA SilentMove ==
  ASSUME IInv, NEW from, NEW to, pc[cpu] = from,
         UNCHANGED <<state, target, received, arg, return_value>>,
         \/ Goto(to)
         \/ to \in Label /\ \E l \in Label : Call(l, to),
         from \notin SubroutineLabel =>
           /\ to \in CollectLabel <=> from \in CollectLabel
           /\ from \in JoinLabel => to \in JoinLabel
           /\ to \in ExitLabel => from \in ExitLabel
  PROVE  Silent
  <1>1. /\ \A s \in Thread : s # cpu => Bottom(stack'[s], pc'[s]) = Base(s)
        /\ Bottom(stack'[cpu], pc'[cpu]) = IF pc[cpu] \in SubroutineLabel THEN Base(cpu) ELSE to
    BY BaseAfterGoto, BaseAfterCall
  <1>2. pc[cpu] \notin SubroutineLabel => Base(cpu) = from
    BY Where
  <1> QED BY <1>1, <1>2 DEF Silent

LEMMA SilentReturn ==
  ASSUME IInv, Return, pc[cpu] \in SubroutineLabel,
         UNCHANGED <<state, target, received, arg, return_value>>
  PROVE  Silent
BY BaseAfterReturn DEF Silent

LEMMA SilentStutter ==
  ASSUME UNCHANGED <<state, target, received, arg, return_value, pc, stack>>
  PROVE  Silent
BY DEF Silent, Base

\* The labels that are not on top of another place, as far as they are needed.
LEMMA OwnLabels ==
  SubroutineLabel \cap {"create_lock", "create_body", "create_unlock", "run",
                        "exit_lock", "exit_body", "exit_unlock",
                        "join_wait", "join_read", "join_lock", "join_del", "join_unlock",
                        "join_free", "join_spin", "join_freed",
                        "slab_spin", "slab_held", "buddy_spin", "buddy_held",
                        "page_spin", "page_held"} = {}
BY DEF SubroutineLabel, HandlerLabel

LEMMA CreateSilent ==
  ASSUME SInv, CreateLock \/ CreateUnlock \/ WrapperUnlock \/ CreateCall
  PROVE  Silent
  <1> USE DEF SInv, fields, user
  <1>1. CASE CreateLock
    BY <1>1, SilentMove, SilentStutter
    DEF CreateLock, LockWithInterrupts, At, CollectLabel, JoinLabel, ExitLabel
  <1>2. CASE CreateUnlock
    BY <1>2, SilentMove DEF CreateUnlock, UnlockWithInterrupts, At, CollectLabel, JoinLabel, ExitLabel
  <1>3. CASE WrapperUnlock
    BY <1>3, SilentReturn DEF WrapperUnlock, UnlockWithInterrupts, At, SubroutineLabel
  <1>4. CASE CreateCall
    BY <1>4, SilentMove DEF CreateCall, At, CollectLabel, JoinLabel, ExitLabel
  <1> QED BY <1>1, <1>2, <1>3, <1>4

LEMMA YieldSilent ==
  ASSUME SInv, \/ YieldLock \/ YieldPick \/ YieldSkip \/ YieldStay \/ YieldSwitch \/ YieldUnlock
               \/ YieldCall
  PROVE  Silent
  <1> USE DEF SInv, fields, user
  <1>1. CASE YieldLock
    BY <1>1, SilentMove, SilentStutter DEF YieldLock, LockWithInterrupts, At, SubroutineLabel
  <1>2. CASE YieldPick
    BY <1>2, SilentMove DEF YieldPick, At, SubroutineLabel
  <1>3. CASE YieldSkip
    BY <1>3, SilentStutter DEF YieldSkip
  <1>4. CASE YieldStay
    BY <1>4, SilentMove DEF YieldStay, At, SubroutineLabel
  <1>5. CASE YieldSwitch
    BY <1>5, SilentMove DEF YieldSwitch, At, SubroutineLabel
  <1>6. CASE YieldUnlock
    BY <1>6, SilentReturn DEF YieldUnlock, UnlockWithInterrupts, At, SubroutineLabel
  <1>7. CASE YieldCall
    BY <1>7, SilentMove
    DEF YieldCall, At, Label, HandlerLabel, CollectLabel, JoinLabel, ExitLabel
  <1> QED BY <1>1, <1>2, <1>3, <1>4, <1>5, <1>6, <1>7

LEMMA ExitSilent ==
  ASSUME SInv, ExitLock \/ ExitUnlock
  PROVE  Silent
  <1> USE DEF SInv, fields, user
  <1>1. CASE ExitLock
    BY <1>1, SilentMove, SilentStutter
    DEF ExitLock, LockWithInterrupts, At, CollectLabel, JoinLabel, ExitLabel
  <1>2. CASE ExitUnlock
    BY <1>2, SilentMove
    DEF ExitUnlock, UnlockWithInterrupts, At, Label, HandlerLabel, CollectLabel, JoinLabel, ExitLabel
  <1> QED BY <1>1, <1>2

LEMMA JoinSilent ==
  ASSUME SInv, JoinWait \/ JoinLock \/ JoinDel \/ JoinUnlock \/ JoinTakeTicket \/ JoinReturn
  PROVE  Silent
  <1> USE DEF SInv, fields, user
  <1>1. CASE JoinWait
    BY <1>1, SilentMove
    DEF JoinWait, At, Label, HandlerLabel, CollectLabel, JoinLabel, ExitLabel
  <1>2. CASE JoinLock
    BY <1>2, SilentMove, SilentStutter
    DEF JoinLock, LockWithInterrupts, At, CollectLabel, JoinLabel, ExitLabel
  <1>3. CASE JoinDel
    BY <1>3, SilentMove DEF JoinDel, At, CollectLabel, JoinLabel, ExitLabel
  <1>4. CASE JoinUnlock
    BY <1>4, SilentMove DEF JoinUnlock, UnlockWithInterrupts, At, CollectLabel, JoinLabel, ExitLabel
  <1>5. CASE JoinTakeTicket
    BY <1>5, SilentMove DEF JoinTakeTicket, At, CollectLabel, JoinLabel, ExitLabel
  <1>6. CASE JoinReturn
    BY <1>6, SilentMove DEF JoinReturn, At, CollectLabel, JoinLabel, ExitLabel
  <1> QED BY <1>1, <1>2, <1>3, <1>4, <1>5, <1>6

LEMMA HeapSilent ==
  ASSUME SInv, NEW l \in HeapLock, HeapCall(l) \/ HeapAcquire(l) \/ HeapRelease(l)
  PROVE  Silent
  <1> USE DEF SInv, fields, user
  <1>1. /\ SpinLabel[l] \in {"slab_spin", "buddy_spin"}
        /\ HeldLabel[l] \in {"slab_held", "buddy_held"}
    BY DEF HeapLock, SpinLabel, HeldLabel
  <1>2. CASE HeapCall(l)
    BY <1>1, <1>2, SilentMove DEF HeapCall, At, CollectLabel, JoinLabel, ExitLabel
  <1>3. CASE HeapAcquire(l)
    BY <1>1, <1>3, SilentMove DEF HeapAcquire, At, CollectLabel, JoinLabel, ExitLabel
  <1>4. CASE HeapRelease(l)
    BY <1>1, <1>4, SilentMove DEF HeapRelease, At, CollectLabel, JoinLabel, ExitLabel
  <1> QED BY <1>2, <1>3, <1>4

LEMMA NewSlabSilent ==
  ASSUME SInv, NewSlab \/ NewSlabAcquire \/ NewSlabRelease
  PROVE  Silent
BY SilentMove DEF SInv, fields, user, NewSlab, NewSlabAcquire, NewSlabRelease, At,
  CollectLabel, JoinLabel, ExitLabel

LEMMA TickSilent ==
  ASSUME SInv, Tick \/ Timer
  PROVE  Silent
  <1> USE DEF SInv, fields, user
  <1>1. CASE TickLock
    BY <1>1, SilentMove, SilentStutter
    DEF TickLock, LockWithInterrupts, At, SubroutineLabel, HandlerLabel
  <1>2. CASE TickCount
    BY <1>2, SilentMove DEF TickCount, At, SubroutineLabel, HandlerLabel
  <1>3. CASE TickUnlock
    BY <1>3, SilentMove DEF TickUnlock, UnlockWithInterrupts, At, SubroutineLabel, HandlerLabel
  <1>4. CASE TickExpired
    BY <1>4, SilentMove
    DEF TickExpired, UnlockWithInterrupts, At, SubroutineLabel, HandlerLabel, Label
  <1>5. CASE TickIret
    BY <1>5, SilentReturn DEF TickIret, At, SubroutineLabel, HandlerLabel
  <1>6. CASE Timer
    BY <1>6, SilentMove, Where DEF Timer, Label, HandlerLabel
  <1> QED BY <1>1, <1>2, <1>3, <1>4, <1>5, <1>6 DEF Tick

-----------------------------------------------------------------------------
(* The scan gives the stack of a finished thread back: no caller sees it. *)

LEMMA ReapStep ==
  ASSUME SInv, YieldReap
  PROVE  UNCHANGED <<Phase, Result, Joiner, received>> /\ Values' /\ Targets'
  <1>1. /\ current_thread \in Thread /\ state \in [Thread -> ThreadState]
        /\ state[current_thread] = "FINISHED"
        /\ state' = [state EXCEPT ![current_thread] = "RELEASED"]
        /\ UNCHANGED <<return_value, pc, stack, target, received, arg>>
    BY DEF SInv, IInv, TypeOK, YieldReap, user
  <1>2. \A t \in Thread :
          /\ Used(t)' <=> Used(t)
          /\ Base(t)' = Base(t)
          /\ state'[t] \in {"FINISHED", "RELEASED"} <=> state[t] \in {"FINISHED", "RELEASED"}
          /\ state'[t] = "RUNNING" <=> state[t] = "RUNNING"
    BY <1>1 DEF Used, Base
  <1>3. \A t \in Thread : Collected(t)' <=> Collected(t)
    BY <1>1, <1>2 DEF Collected, Used
  <1>4. Phase' = Phase
    BY <1>2, <1>3 DEF Phase, Used
  <1>5. Result' = Result /\ Joiner' = Joiner
    BY <1>1, <1>2 DEF Result, Joiner
  <1>6. Values' /\ Targets'
    BY <1>1, <1>2 DEF SInv, Values, Targets
  <1> QED BY <1>1, <1>4, <1>5, <1>6

\* thread_exit begins with its value.
LEMMA ExitCallSilent ==
  ASSUME SInv, NEW v \in Value, ExitCall(v)
  PROVE  UNCHANGED <<Phase, Result, Joiner, received>> /\ Values' /\ Targets'
  <1> USE DEF fields
  <1>1. /\ pc[cpu] = "run" /\ Base(cpu) = "run" /\ cpu \in Thread /\ Used(cpu)
        /\ Goto("exit_lock")
        /\ arg \in [Thread -> Value \cup {NoValue}] /\ arg' = [arg EXCEPT ![cpu] = v]
        /\ UNCHANGED <<state, return_value, target, received>>
    BY Where, OwnLabels DEF SInv, IInv, TypeOK, ExitCall, At
  <1>2. /\ \A s \in Thread : s # cpu => Bottom(stack'[s], pc'[s]) = Base(s)
        /\ Bottom(stack'[cpu], pc'[cpu]) = "exit_lock"
    BY <1>1, BaseAfterGoto, OwnLabels DEF SInv
  <1>3. \A t \in Thread : Collected(t)' <=> Collected(t)
    BY <1>1, <1>2 DEF Collected, Base
  <1>4. state[cpu] \notin {"FINISHED", "RELEASED"} /\ target[cpu] = NoThread
    BY <1>1 DEF SInv, IInv, Finished, Targets, JoinLabel
  <1>5. UNCHANGED <<Phase, Result, Joiner>>
    BY <1>1, <1>3, <1>4 DEF Phase, Result, Joiner
  <1>6. Values'
    BY <1>1, <1>2, <1>4 DEF SInv, Values, Used, Base
  <1>7. Targets'
    BY <1>1, <1>2, <1>4 DEF SInv, Targets, Used, Base
  <1> QED BY <1>1, <1>5, <1>6, <1>7

-----------------------------------------------------------------------------
(* The five steps callers see *)

\* The steps of ThreadService, in the names of this module.
LEMMA ServiceSteps ==
  ASSUME NEW s, NEW t, NEW v
  PROVE  /\ /\ Phase[t] = "none"
            /\ Phase' = [Phase EXCEPT ![t] = "live"]
            /\ UNCHANGED <<Result, Joiner, received>>
            => Service!Create(t)
         /\ /\ Phase[t] = "live" /\ t # Main
            /\ Phase' = [Phase EXCEPT ![t] = "exited"]
            /\ Result' = [Result EXCEPT ![t] = v]
            /\ UNCHANGED <<Joiner, received>>
            => Service!Exit(t, v)
         /\ /\ Phase[s] = "live" /\ Phase[t] \in {"live", "exited"}
            /\ Joiner[t] = NoThread
            /\ Joiner' = [Joiner EXCEPT ![t] = s]
            /\ UNCHANGED <<Phase, Result, received>>
            => Service!Join(s, t)
         /\ /\ Phase[t] = "exited" /\ Joiner[t] # NoThread
            /\ Phase' = [Phase EXCEPT ![t] = "collected"]
            /\ received' = [received EXCEPT ![Joiner[t]] = Result[t]]
            /\ UNCHANGED <<Result, Joiner>>
            => Service!Collect(t)
         /\ /\ Phase[t] = "collected"
            /\ Phase' = [Phase EXCEPT ![t] = "none"]
            /\ Result' = [Result EXCEPT ![t] = NoValue]
            /\ Joiner' = [Joiner EXCEPT ![t] = NoThread]
            /\ UNCHANGED received
            => Service!Dispose(t)
BY DEF Service!Create, Service!Exit, Service!Join, Service!Collect, Service!Dispose,
       Phase, Result, Joiner

\* A function of the threads that changes at one of them
LEMMA PhaseChange ==
  ASSUME NEW t \in Thread,
         \A u \in Thread \ {t} : state'[u] = state[u] /\ (Collected(u)' <=> Collected(u))
  PROVE  /\ state'[t] = "UNUSED" => Phase' = [Phase EXCEPT ![t] = "none"]
         /\ state'[t] = "RUNNING" => Phase' = [Phase EXCEPT ![t] = "live"]
         /\ state'[t] \in {"FINISHED", "RELEASED"} =>
              Phase' = [Phase EXCEPT ![t] = IF Collected(t)' THEN "collected" ELSE "exited"]
BY DEF Phase

LEMMA CreateStep ==
  ASSUME SInv, NEW t \in Thread, CreateBody(t)
  PROVE  Service!Create(t) /\ Values' /\ Targets'
  <1>1. /\ pc[cpu] = "create_body" /\ Base(cpu) = "create_body" /\ stack[cpu] = <<>>
        /\ cpu \in Thread /\ Used(cpu) /\ t # cpu
        /\ state[t] = "UNUSED" /\ state' = [state EXCEPT ![t] = "RUNNING"]
        /\ pc' = [pc EXCEPT ![cpu] = "create_unlock", ![t] = "wrapper_unlock"]
        /\ stack' = [stack EXCEPT ![t] = <<"run">>]
        /\ UNCHANGED <<return_value, target, received, arg, cpu>>
        /\ state \in [Thread -> ThreadState] /\ pc \in [Thread -> Label]
        /\ stack \in [Thread -> Seq(Label)]
    BY Where, OwnLabels DEF SInv, IInv, TypeOK, CreateBody, At, Used
  <1>2. /\ Base(cpu)' = "create_unlock" /\ Base(t)' = "run"
        /\ \A s \in Thread \ {cpu, t} : Base(s)' = Base(s)
    <2>1. /\ pc'[cpu] = "create_unlock" /\ stack'[cpu] = <<>> /\ stack'[t] = <<"run">>
          /\ \A s \in Thread \ {cpu, t} : pc'[s] = pc[s] /\ stack'[s] = stack[s]
      BY <1>1
    <2>2. <<"run">> # <<>> /\ Len(<<"run">>) = 1 /\ <<"run">>[1] = "run"
      OBVIOUS
    <2>3. UNCHANGED cpu
      BY DEF CreateBody
    <2> QED BY <2>1, <2>2, <2>3 DEF Base, Bottom
  <1>3. target[t] = NoThread /\ target[cpu] = NoThread
    BY <1>1 DEF SInv, Targets, Used, JoinLabel
  <1>4. \A u \in Thread : Collected(u)' <=> Collected(u)
    BY <1>1, <1>2, <1>3, MainAssumption DEF Collected
  <1>5. Phase[t] = "none" /\ Phase' = [Phase EXCEPT ![t] = "live"]
    BY <1>1, <1>4, PhaseChange, PhaseCases
  <1>6. Result' = Result /\ Joiner' = Joiner
    BY <1>1 DEF Result, Joiner
  <1>7. Service!Create(t)
    BY <1>1, <1>5, <1>6, ServiceSteps
  <1>8. Values'
    <2>1. ASSUME NEW u \in Thread, Used(u)', Base(u)' \in ExitLabel PROVE arg'[u] \in Value
      <3>1. u # cpu /\ u # t
        BY <1>1, <1>2, <2>1 DEF ExitLabel
      <3>2. Used(u) /\ Base(u) \in ExitLabel
        BY <1>1, <1>2, <2>1, <3>1 DEF Used
      <3> QED BY <1>1, <3>2 DEF SInv, Values
    <2>2. ASSUME NEW u \in Thread, state'[u] \in {"FINISHED", "RELEASED"}
          PROVE  return_value'[u] = arg'[u]
      BY <1>1, <2>2 DEF SInv, Values
    <2> QED BY <2>1, <2>2 DEF Values
  <1>9. Targets'
    BY <1>1, <1>2, <1>3 DEF SInv, Targets, Used
  <1> QED BY <1>7, <1>8, <1>9
LEMMA ExitStep ==
  ASSUME SInv, ExitBody
  PROVE  /\ \E t \in Thread, v \in Value : Service!Exit(t, v)
         /\ Values' /\ Targets'
  <1>1. /\ pc[cpu] = "exit_body" /\ Base(cpu) = "exit_body" /\ cpu \in Thread /\ Used(cpu)
        /\ current_thread = cpu /\ cpu' = cpu /\ Goto("exit_unlock")
        /\ state' = [state EXCEPT ![cpu] = "FINISHED"]
        /\ return_value' = [return_value EXCEPT ![cpu] = arg[cpu]]
        /\ UNCHANGED <<target, received, arg>>
        /\ state \in [Thread -> ThreadState]
        /\ return_value \in [Thread -> Value \cup {NoValue}]
    BY Where, OwnLabels DEF SInv, IInv, TypeOK, ExitBody, At, OnProcessor, context, user
  <1> PICK c \in Thread, v \in Value : c = cpu /\ v = arg[cpu]
    BY <1>1 DEF SInv, Values, ExitLabel
  <1>2. /\ \A s \in Thread \ {c} : Base(s)' = Base(s)
        /\ Base(c)' = "exit_unlock"
    BY <1>1, BaseAfterGoto, OwnLabels DEF SInv, Base
  <1>3. state[c] = "RUNNING" /\ c # Main /\ target[c] = NoThread
    BY <1>1 DEF SInv, IInv, Finished, OnProcessor, MainStays, Targets, JoinLabel
  <1>4. state'[c] = "FINISHED" /\ \A u \in Thread \ {c} : state'[u] = state[u]
    BY <1>1
  <1>5. \A u \in Thread : Collected(u)' <=> Collected(u)
    BY <1>1, <1>2, <1>3, <1>4, MainAssumption DEF Collected
  <1>6. ~Collected(c)
    <2>1. ASSUME Collected(c) PROVE FALSE
      <3>1. PICK s \in Thread : target[s] = c /\ Used(s) /\ Base(s) \in CollectLabel
        BY <2>1, CollectedCases
      <3> QED BY <1>3, <3>1 DEF SInv, IInv, Joining, CollectLabel
    <2> QED BY <2>1
  <1>7. /\ Phase[c] = "live" /\ Phase' = [Phase EXCEPT ![c] = "exited"]
        /\ Result' = [Result EXCEPT ![c] = v] /\ Joiner' = Joiner
    <2>1. Phase[c] = "live" /\ Phase' = [Phase EXCEPT ![c] = "exited"]
      BY <1>3, <1>4, <1>5, <1>6, PhaseCases, PhaseChange
    <2>2. Result' = [Result EXCEPT ![c] = v] /\ Joiner' = Joiner
      BY <1>1, <1>4 DEF Result, Joiner
    <2> QED BY <2>1, <2>2
  <1>8. Service!Exit(c, v)
    BY <1>1, <1>3, <1>7, ServiceSteps
  <1>9. Values'
    <2>1. ASSUME NEW u \in Thread, Used(u)', Base(u)' \in ExitLabel PROVE arg'[u] \in Value
      BY <1>1, <1>2, <1>4, <2>1 DEF SInv, Values, Used, ExitLabel
    <2>2. ASSUME NEW u \in Thread, state'[u] \in {"FINISHED", "RELEASED"}
          PROVE  return_value'[u] = arg'[u]
      BY <1>1, <1>4, <2>2 DEF SInv, Values
    <2> QED BY <2>1, <2>2 DEF Values
  <1>10. Targets'
    BY <1>1, <1>2, <1>3, <1>4 DEF SInv, Targets, Used
  <1> QED BY <1>8, <1>9, <1>10

\* The joiner of a thread, for any function tg from threads to threads.
JoinerOf(tg, t) ==
  IF \E s \in Thread : tg[s] = t THEN CHOOSE s \in Thread : tg[s] = t ELSE NoThread

LEMMA JoinerUnique ==
  ASSUME NEW tg, NEW t
  PROVE  /\ (\A s \in Thread : tg[s] # t) => JoinerOf(tg, t) = NoThread
         /\ \A s \in Thread : tg[s] = t /\ (\A r \in Thread : tg[r] = t => r = s)
                              => JoinerOf(tg, t) = s
BY DEF JoinerOf

LEMMA JoinStep ==
  ASSUME SInv, NEW t \in Thread, JoinCall(t)
  PROVE  /\ \E s \in Thread : Service!Join(s, t)
         /\ Values' /\ Targets'
  <1> USE DEF fields
  <1>1. /\ pc[cpu] = "run" /\ Base(cpu) = "run" /\ cpu \in Thread /\ Used(cpu)
        /\ t \in handles[cpu] /\ Goto("join_wait") /\ cpu' = cpu
        /\ target \in [Thread -> Thread \cup {NoThread}] /\ target' = [target EXCEPT ![cpu] = t]
        /\ UNCHANGED <<state, return_value, received, arg>>
        /\ state \in [Thread -> ThreadState]
    BY Where, OwnLabels DEF SInv, IInv, TypeOK, JoinCall, At, context
  <1> PICK c \in Thread : c = cpu
    BY <1>1
  <1>2. /\ \A s \in Thread \ {c} : Base(s)' = Base(s)
        /\ Base(c)' = "join_wait"
    BY <1>1, BaseAfterGoto, OwnLabels DEF SInv, Base
  <1>3. /\ target[c] = NoThread
        /\ state[c] = "RUNNING"
    BY <1>1 DEF SInv, Targets, JoinLabel, IInv, Finished, OnProcessor
  <1>4. /\ Used(t) /\ \A s \in Thread : target[s] # t
    BY <1>1, <1>3 DEF SInv, IInv, Ownership
  <1>5. \A u \in Thread : Collected(u)' <=> Collected(u)
    BY <1>1, <1>2, <1>3, MainAssumption DEF Collected
  <1>6. Phase' = Phase /\ Result' = Result
    BY <1>1, <1>5 DEF Phase, Result
  <1>7. Phase[c] = "live" /\ Phase[t] \in {"live", "exited"}
    <2>1. ~Collected(t)
      BY <1>4 DEF Collected
    <2>2. state[t] \in {"RUNNING", "FINISHED", "RELEASED"}
      BY <1>1, <1>4 DEF ThreadState, Used
    <2> QED BY <1>3, <2>1, <2>2, PhaseCases
  <1>8. Joiner[t] = NoThread /\ Joiner' = [Joiner EXCEPT ![t] = c]
    <2>1. Joiner = [u \in Thread |-> JoinerOf(target, u)] /\ Joiner' = [u \in Thread |-> JoinerOf(target', u)]
      BY DEF Joiner, JoinerOf
    <2>2. JoinerOf(target, t) = NoThread /\ JoinerOf(target', t) = c
      <3>1. target'[c] = t /\ \A r \in Thread : target'[r] = t => r = c
        BY <1>1, <1>4
      <3> QED BY <1>4, <3>1, JoinerUnique
    <2>3. ASSUME NEW u \in Thread \ {t} PROVE JoinerOf(target', u) = JoinerOf(target, u)
      <3>1. \A s \in Thread : target'[s] = u <=> target[s] = u
        BY <1>1, <1>3, MainAssumption
      <3>2. \A r, s \in Thread : target[r] = u /\ target[s] = u => r = s
        BY MainAssumption DEF SInv, IInv, Ownership
      <3> QED BY <3>1, <3>2, JoinerUnique
    <2> QED BY <2>1, <2>2, <2>3
  <1>9. Service!Join(c, t)
    BY <1>1, <1>6, <1>7, <1>8, ServiceSteps
  <1>10. Values'
    BY <1>1, <1>2 DEF SInv, Values, Used, ExitLabel
  <1>11. Targets'
    BY <1>1, <1>2, <1>3 DEF SInv, Targets, Used, JoinLabel
  <1> QED BY <1>9, <1>10, <1>11
LEMMA ReadStep ==
  ASSUME SInv, JoinRead
  PROVE  /\ \E t \in Thread : Service!Collect(t)
         /\ Values' /\ Targets'
  <1> USE DEF fields
  <1>1. /\ pc[cpu] = "join_read" /\ Base(cpu) = "join_read" /\ cpu \in Thread /\ Used(cpu)
        /\ Goto("join_lock") /\ cpu' = cpu
        /\ target \in [Thread -> Thread \cup {NoThread}]
        /\ received' = [received EXCEPT ![cpu] = return_value[target[cpu]]]
        /\ UNCHANGED <<state, return_value, target, arg>>
    BY Where, OwnLabels DEF SInv, IInv, TypeOK, JoinRead, At, context
  <1>2. target[cpu] \in Thread /\ state[target[cpu]] = "RELEASED"
    BY <1>1 DEF SInv, IInv, Joining
  <1> PICK c \in Thread, t \in Thread : c = cpu /\ t = target[cpu]
    BY <1>1, <1>2
  <1>3. /\ \A s \in Thread \ {c} : Base(s)' = Base(s)
        /\ Base(c)' = "join_lock"
    BY <1>1, BaseAfterGoto, OwnLabels DEF SInv, Base
  <1>4. \A s \in Thread : target[s] = t => s = c
    BY MainAssumption DEF SInv, IInv, Ownership
  <1>5. ~Collected(t) /\ Collected(t)'
    BY <1>1, <1>3, <1>4 DEF Collected, Used
  <1>6. \A u \in Thread \ {t} : Collected(u)' <=> Collected(u)
    BY <1>1, <1>3 DEF Collected
  <1>7. Phase[t] = "exited" /\ Phase' = [Phase EXCEPT ![t] = "collected"]
    BY <1>1, <1>2, <1>5, <1>6, PhaseCases, PhaseChange
  <1>8. Joiner[t] = c /\ Result[t] = return_value[t]
    BY <1>2, JoinerCases DEF SInv, Result, Values
  <1>9. Result' = Result /\ Joiner' = Joiner
    BY <1>1 DEF Result, Joiner
  <1>10. Service!Collect(t)
    BY <1>1, <1>7, <1>8, <1>9, ServiceSteps, MainAssumption
  <1>11. Values'
    BY <1>1, <1>3 DEF SInv, Values, Used, ExitLabel
  <1>12. Targets'
    BY <1>1, <1>3 DEF SInv, Targets, Used, JoinLabel
  <1> QED BY <1>10, <1>11, <1>12

LEMMA FreeStep ==
  ASSUME SInv, JoinFree
  PROVE  /\ \E t \in Thread : Service!Dispose(t)
         /\ Values' /\ Targets'
  <1>1. /\ pc[cpu] = "join_spin" /\ Base(cpu) = "join_spin" /\ cpu \in Thread /\ Used(cpu)
        /\ stack[cpu] = <<>> /\ cpu' = cpu
        /\ state' = [state EXCEPT ![target[cpu]] = "UNUSED"]
        /\ return_value' = [return_value EXCEPT ![target[cpu]] = NoValue]
        /\ arg' = [arg EXCEPT ![target[cpu]] = NoValue]
        /\ pc' = [pc EXCEPT ![cpu] = "join_freed", ![target[cpu]] = "run"]
        /\ stack' = [stack EXCEPT ![target[cpu]] = <<>>]
        /\ target' = [target EXCEPT ![cpu] = NoThread]
        /\ received' = received
        /\ state \in [Thread -> ThreadState] /\ pc \in [Thread -> Label]
        /\ return_value \in [Thread -> Value \cup {NoValue}]
        /\ arg \in [Thread -> Value \cup {NoValue}]
        /\ stack \in [Thread -> Seq(Label)]
        /\ target \in [Thread -> Thread \cup {NoThread}]
    BY Where, OwnLabels DEF SInv, IInv, TypeOK, JoinFree, At, context
  <1>2. target[cpu] \in Thread /\ state[target[cpu]] = "RELEASED"
    BY <1>1 DEF SInv, IInv, Joining
  <1> PICK c \in Thread, t \in Thread : c = cpu /\ t = target[cpu]
    BY <1>1, <1>2
  <1>3. state[c] \notin {"FINISHED", "RELEASED"} /\ Base(t) \in {"exit_unlock", "exit_returned"}
    BY <1>1, <1>2 DEF SInv, IInv, Finished, Used
  <1>4. c # t /\ target[t] = NoThread
    BY <1>2, <1>3 DEF SInv, Targets, JoinLabel
  <1>5. /\ \A s \in Thread \ {c, t} : Base(s)' = Base(s)
        /\ Base(c)' = "join_freed"
    <2>1. /\ pc'[c] = "join_freed" /\ stack'[c] = <<>>
          /\ \A s \in Thread \ {c, t} : pc'[s] = pc[s] /\ stack'[s] = stack[s]
      BY <1>1, <1>4
    <2> QED BY <2>1 DEF Base, Bottom
  <1>6. /\ state'[t] = "UNUSED" /\ \A u \in Thread \ {t} : state'[u] = state[u]
        /\ target'[c] = NoThread /\ \A s \in Thread \ {c} : target'[s] = target[s]
    BY <1>1, <1>2
  <1>7. \A s \in Thread : target[s] = t => s = c
    BY MainAssumption DEF SInv, IInv, Ownership
  <1>8. Collected(t)
    BY <1>1 DEF Collected, Used
  <1>9. ASSUME NEW u \in Thread \ {t} PROVE Collected(u)' <=> Collected(u)
    BY <1>4, <1>5, <1>6, MainAssumption DEF Collected
  <1>10. Phase[t] = "collected" /\ Phase' = [Phase EXCEPT ![t] = "none"]
    BY <1>2, <1>6, <1>8, <1>9, PhaseCases, PhaseChange
  <1>11. Result' = [Result EXCEPT ![t] = NoValue]
    BY <1>1, <1>6 DEF Result
  <1>12. Joiner' = [Joiner EXCEPT ![t] = NoThread]
    <2>1. Joiner = [u \in Thread |-> JoinerOf(target, u)] /\ Joiner' = [u \in Thread |-> JoinerOf(target', u)]
      BY DEF Joiner, JoinerOf
    <2>2. JoinerOf(target', t) = NoThread
      <3>1. \A s \in Thread : target'[s] # t
        BY <1>6, <1>7, MainAssumption
      <3> QED BY <3>1, JoinerUnique
    <2>3. ASSUME NEW u \in Thread \ {t} PROVE JoinerOf(target', u) = JoinerOf(target, u)
      <3>1. \A s \in Thread : target'[s] = u <=> target[s] = u
        BY <1>6, MainAssumption
      <3>2. \A r, s \in Thread : target[r] = u /\ target[s] = u => r = s
        BY MainAssumption DEF SInv, IInv, Ownership
      <3> QED BY <3>1, <3>2, JoinerUnique
    <2> QED BY <2>1, <2>2, <2>3
  <1>13. Service!Dispose(t)
    BY <1>1, <1>10, <1>11, <1>12, ServiceSteps
  <1>14. Values'
    <2>1. ASSUME NEW u \in Thread, Used(u)', Base(u)' \in ExitLabel PROVE arg'[u] \in Value
      <3>1. u # t /\ u # c
        BY <1>5, <1>6, <2>1 DEF Used, ExitLabel
      <3> QED BY <1>1, <1>5, <1>6, <2>1, <3>1 DEF SInv, Values, Used
    <2>2. ASSUME NEW u \in Thread, state'[u] \in {"FINISHED", "RELEASED"}
          PROVE  return_value'[u] = arg'[u]
      BY <1>1, <1>6, <2>2 DEF SInv, Values
    <2> QED BY <2>1, <2>2 DEF Values
  <1>15. Targets'
    <2> SUFFICES ASSUME NEW s \in Thread, target'[s] # NoThread
                 PROVE  Used(s)' /\ Base(s)' \in JoinLabel
      BY DEF Targets
    <2>1. s # c /\ s # t
      BY <1>4, <1>6
    <2> QED BY <1>5, <1>6, <2>1 DEF SInv, Targets, Used
  <1> QED BY <1>13, <1>14, <1>15

-----------------------------------------------------------------------------
(* The refinement *)

LEMMA ServiceInit == Init => Service!Init /\ Values /\ Targets
  <1> SUFFICES ASSUME Init PROVE Service!Init /\ Values /\ Targets
    OBVIOUS
  <1>1. /\ state = [t \in Thread |-> IF t = Main THEN "RUNNING" ELSE "UNUSED"]
        /\ pc = [t \in Thread |-> "run"] /\ stack = [t \in Thread |-> <<>>]
        /\ target = [t \in Thread |-> NoThread] /\ received = [t \in Thread |-> NoValue]
    BY DEF Init
  <1>2. \A t \in Thread : state[t] = (IF t = Main THEN "RUNNING" ELSE "UNUSED")
    BY <1>1
  <1>3. /\ Phase = [t \in Thread |-> IF t = Main THEN "live" ELSE "none"]
        /\ Result = [t \in Thread |-> NoValue]
    BY <1>2 DEF Phase, Result
  <1>4. Joiner = [t \in Thread |-> NoThread]
    BY <1>1, MainAssumption DEF Joiner
  <1>5. Service!Init
    BY <1>1, <1>3, <1>4 DEF Service!Init, Phase, Result, Joiner
  <1>6. Values
    BY <1>1, <1>2 DEF Values, Base, Bottom, ExitLabel
  <1>7. Targets
    BY <1>1 DEF Targets
  <1> QED BY <1>5, <1>6, <1>7

LEMMA ServiceNext ==
  ASSUME SInv, [Next]_vars
  PROVE  [Service!Next]_(Service!vars) /\ Values' /\ Targets'
  <1> DEFINE Seen == [Service!Next]_(Service!vars) /\ Values' /\ Targets'
  <1>1. UNCHANGED <<Phase, Result, Joiner, received>> => UNCHANGED Service!vars
    BY DEF Service!vars, Phase, Result, Joiner
  <1>2. ASSUME Silent PROVE Seen
    BY <1>1, <1>2, SilentStep
  <1>3. CASE Create
    <2>1. ASSUME NEW t \in Thread, CreateBody(t) PROVE Seen
      BY <2>1, CreateStep DEF Service!Next
    <2> QED BY <1>2, <1>3, <2>1, CreateSilent DEF Create
  <1>4. CASE Yield
    <2>1. CASE YieldReap
      BY <1>1, <2>1, ReapStep
    <2> QED BY <1>2, <1>4, <2>1, YieldSilent DEF Yield
  <1>5. CASE Exit
    <2>1. CASE ExitBody
      BY <2>1, ExitStep DEF Service!Next
    <2> QED BY <1>2, <1>5, <2>1, ExitSilent DEF Exit
  <1>6. CASE Join
    <2>1. CASE JoinRead
      BY <2>1, ReadStep DEF Service!Next
    <2>2. CASE JoinFree
      BY <2>2, FreeStep DEF Service!Next
    <2> QED BY <1>2, <1>6, <2>1, <2>2, JoinSilent DEF Join
  <1>7. CASE Heap
    BY <1>2, <1>7, HeapSilent, NewSlabSilent DEF Heap
  <1>8. CASE Tick \/ Timer
    BY <1>2, <1>8, TickSilent
  <1>9. CASE UserStep
    <2>1. ASSUME NEW v \in Value, ExitCall(v) PROVE Seen
      BY <1>1, <2>1, ExitCallSilent
    <2>2. ASSUME NEW t \in Thread, JoinCall(t) PROVE Seen
      BY <2>2, JoinStep DEF Service!Next
    <2> QED BY <1>2, <1>9, <2>1, <2>2, CreateSilent, YieldSilent, HeapSilent, NewSlabSilent
         DEF UserStep
  <1>10. CASE UNCHANGED vars
    BY <1>2, <1>10, SilentStutter DEF vars, fields, user
  <1> QED BY <1>3, <1>4, <1>5, <1>6, <1>7, <1>8, <1>9, <1>10 DEF Next, KernelStep

\* thread_create, thread_exit and thread_join keep the promises of
\* ThreadService, whatever the threads, the timer and the allocators' users
\* do: a joiner gets the value its thread ended with, after it has ended, and
\* the thread object is reused only after that.
THEOREM KeepsService == Spec => ImplementsService
  <1>1. Init => SInv /\ Service!Init
    BY InitStep, ServiceInit DEF SInv
  <1>2. SInv /\ [Next]_vars => SInv' /\ [Service!Next]_(Service!vars)
    BY NextStep, ServiceNext DEF SInv
  <1> QED BY <1>1, <1>2, PTL DEF Spec, ImplementsService, Service!Safety
=============================================================================
