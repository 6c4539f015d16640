----------------------------- MODULE Interrupts -----------------------------
(***************************************************************************)
(* Interrupts, from init_interrupt_controller and init_idt on, which main  *)
(* calls first, to the handlers of wrapper.S at work: what the two         *)
(* interrupt controllers make of the words written to them, which handler  *)
(* an interrupt gets, and what it finds and leaves on the stack of the     *)
(* thread it interrupts.  Threads are switched inside the timer's handler; *)
(* how one is chosen is in Threads.                                        *)
(*                                                                         *)
(* out8, Pending, Raise, Accept and Spurious are what the two 8259A         *)
(* controllers do, pushed and iretq what the processor does.               *)
(***************************************************************************)
EXTENDS Paging

CONSTANTS
  Thread,
  First,       \* the thread that runs main
  Fault,       \* exceptions that may occur
  Raised,      \* pairs of a controller and a line that devices raise
  MaxNest      \* bound: interrupts on one thread's stack

VARIABLES
  pic,        \* pic[c]: words of the initialization that are still to come,
              \* start, and the lines masked, requested and in service
  idt,        \* the handler of each vector
  enabled,    \* the flag IF
  current,    \* the thread that runs
  at,         \* at[t]: "code", a handler, or a place in it
  stack       \* stack[t]: what interrupts have pushed

interrupts == <<pic, idt, enabled, current, at, stack>>

ASSUME ThreadAssumption == First \in Thread

\* The exceptions are the processor's, without the two that push an error code
\* only where a kernel has switched on what raises them.
ASSUME FaultAssumption == Fault \subseteq 0 .. 31 \ {21, 29}

ASSUME RaisedAssumption == Raised \subseteq {"master", "slave"} \X (0 .. 7)

MASTER_START_NUMBER == 32
SLAVE_START_NUMBER == 40
SLAVE_LINE_NUMBER == 2

-----------------------------------------------------------------------------
(* The controllers *)

bit(n) == <<1, 2, 4, 8, 16, 32, 64, 128, 256>>[n + 1]
Bits(byte) == {n \in 0 .. 7 : (byte \div bit(n)) % 2 = 1}

FIRST_WORD == bit(0) + bit(4)
CONTROLLER_MODE == 1
FULL_MASK == bit(8) - 1
EOI == bit(5)

Controller == [words |-> 0, start |-> 0, mask |-> {}, requested |-> {}, service |-> {}]

\* What a controller makes of a byte written to its command or data register.
Received(chip, register, byte) ==
  CASE register = "command" /\ 4 \in Bits(byte) -> [Controller EXCEPT !.words = 3]
    [] register = "command" /\ byte = EOI ->
         [chip EXCEPT !.service = @ \ {l \in @ : \A k \in @ : l <= k}]
    [] register = "data" /\ chip.words = 3 -> [chip EXCEPT !.start = byte, !.words = 2]
    [] register = "data" /\ chip.words \in {1, 2} -> [chip EXCEPT !.words = @ - 1]
    [] register = "data" /\ chip.words = 0 -> [chip EXCEPT !.mask = Bits(byte)]
    [] OTHER -> chip

out8(chips, c, register, byte) == [chips EXCEPT ![c] = Received(@, register, byte)]

init_interrupt_controller ==
  LET master(chips, register, byte) == out8(chips, "master", register, byte)
      slave(chips, register, byte) == out8(chips, "slave", register, byte)
      m1 == master([c \in {"master", "slave"} |-> Controller], "command", FIRST_WORD)
      m2 == master(m1, "data", MASTER_START_NUMBER)
      m3 == master(m2, "data", bit(SLAVE_LINE_NUMBER))
      m4 == master(m3, "data", CONTROLLER_MODE)
      s1 == slave(m4, "command", FIRST_WORD)
      s2 == slave(s1, "data", SLAVE_START_NUMBER)
      s3 == slave(s2, "data", SLAVE_LINE_NUMBER)
      s4 == slave(s3, "data", CONTROLLER_MODE)
  IN slave(master(s4, "data", FULL_MASK - bit(0)), "data", FULL_MASK)

\* Mutation: the test of is_master is the wrong way round.
send_eoi_slave(chips, is_master) ==
  IF is_master THEN out8(chips, "slave", "command", EOI) ELSE out8(chips, "master", "command", EOI)

send_eoi(chips, is_master) ==
  out8(IF is_master THEN chips ELSE out8(chips, "slave", "command", EOI), "master", "command", EOI)

\* The lines a controller asks for an interrupt for: none while one of the
\* same or a higher priority is in service.  The slave is a line of the master.
Pending(c) ==
  LET slave == pic["slave"].requested \ pic["slave"].mask
      lines == pic[c].requested \cup
                 (IF c = "master" /\ slave # {} THEN {SLAVE_LINE_NUMBER} ELSE {})
  IN {l \in lines \ pic[c].mask : \A s \in pic[c].service : l < s}

-----------------------------------------------------------------------------
(* The handlers *)

error_interrupt_numbers == {8, 10, 11, 12, 13, 14, 17, 30}

init_idt ==
  [v \in 0 .. 255 |->
     IF v \in error_interrupt_numbers THEN "pop_handler_w" ELSE "empty_handler_w"]

InterruptsInit ==
  /\ PagingInit
  /\ pic = init_interrupt_controller
  /\ idt = init_idt
  /\ enabled = FALSE
  /\ current = First
  /\ at = [t \in Thread |-> "code"]
  /\ stack = [t \in Thread |-> <<>>]

init_pit ==
  /\ phase = "init_pit" /\ phase' = "sti"
  /\ idt' = [idt EXCEPT ![MASTER_START_NUMBER] = "pit_handler_w"]
  /\ UNCHANGED <<firmware, kernel, modules, initramfs_module, map, buddy, given, tables, paging>>
  /\ UNCHANGED <<pic, enabled, current, at, stack>>

sti ==
  /\ phase = "sti" /\ phase' = "running"
  /\ enabled' = TRUE
  /\ UNCHANGED <<firmware, kernel, modules, initramfs_module, map, buddy, given, tables, paging>>
  /\ UNCHANGED <<pic, idt, current, at, stack>>

Frame == [at |-> at[current], enabled |-> enabled]
ErrorCode == [at |-> "astray", enabled |-> FALSE]

\* What the processor pushes for vector v: iretq takes a frame, and does not
\* find one if there is an error code on top of it.
pushed(v) == IF v \in {8} \cup 10 .. 14 \cup {17, 21, 29, 30} THEN <<Frame, ErrorCode>> ELSE <<Frame>>

\* Handlers turn interrupts off; the places where they are on, or where an
\* exception may occur:
Interruptible == {"code", "returning"}

Interrupt(v) ==
  /\ phase = "running" /\ at[current] \in Interruptible
  /\ Len(SelectSeq(stack[current], LAMBDA w : w # ErrorCode)) < MaxNest
  /\ stack' = [stack EXCEPT ![current] = @ \o pushed(v)]
  /\ at' = [at EXCEPT ![current] = idt[v]]
  /\ enabled' = FALSE
  /\ UNCHANGED <<vars, paging, idt, current>>

Raise ==
  /\ phase = "running"
  /\ \E r \in Raised : pic' = [pic EXCEPT ![r[1]].requested = @ \cup {r[2]}]
  /\ UNCHANGED <<vars, paging, idt, enabled, current, at, stack>>

\* The master's line of the highest priority
Accept ==
  /\ enabled
  /\ \E l \in Pending("master") :
       /\ \A k \in Pending("master") : l <= k
       /\ pic' = [pic EXCEPT !["master"].requested = @ \ {l}, !["master"].service = @ \cup {l}]
       /\ Interrupt(pic["master"].start + l)

\* A request that is gone when the processor asks for its vector
Spurious ==
  /\ enabled
  /\ Interrupt(pic["master"].start + 7)
  /\ UNCHANGED pic

Exception ==
  /\ \E v \in Fault : Interrupt(v)
  /\ UNCHANGED pic

\* What iretq does with the words that are left
iretq(words) ==
  /\ stack' = [stack EXCEPT ![current] = Front(words)]
  /\ at' = [at EXCEPT ![current] = Last(words).at]
  /\ enabled' = Last(words).enabled

empty_handler_w ==
  /\ at[current] = "empty_handler_w"
  /\ iretq(stack[current])
  /\ UNCHANGED <<vars, paging, pic, idt, current>>

pop_handler_w ==
  /\ at[current] = "pop_handler_w"
  /\ iretq(Front(stack[current]))
  /\ UNCHANGED <<vars, paging, pic, idt, current>>

\* Up to the call of thread_schedule
pit_handler ==
  /\ at[current] = "pit_handler_w"
  /\ pic' = send_eoi(pic, TRUE)
  /\ at' = [at EXCEPT ![current] = "thread_schedule"]
  /\ UNCHANGED <<vars, paging, idt, enabled, current, stack>>

\* thread_schedule may go on in another thread, which has been switched away
\* from in its handler or in thread_yield; either way it unlocks
\* threads_lock, which turns interrupts on.
thread_schedule ==
  /\ at[current] = "thread_schedule"
  /\ \E t \in Thread : (t = current \/ at[t] \in Interruptible) /\ current' = t
  /\ at' = [at EXCEPT ![current] = "returning"]
  /\ enabled' = TRUE
  /\ UNCHANGED <<vars, paging, pic, idt, stack>>

\* thread_yield called by the thread itself
thread_yield ==
  /\ phase = "running" /\ at[current] = "code"
  /\ \E t \in Thread : at[t] \in Interruptible /\ current' = t
  /\ enabled' = TRUE
  /\ UNCHANGED <<vars, paging, pic, idt, at, stack>>

\* The rest of pit_handler_w
Return ==
  /\ at[current] = "returning"
  /\ iretq(stack[current])
  /\ UNCHANGED <<vars, paging, pic, idt, current>>

Handler == empty_handler_w \/ pop_handler_w \/ pit_handler \/ thread_schedule \/ Return

main == init_pit \/ sti \/ Raise \/ Accept \/ Spurious \/ Exception \/ Handler \/ thread_yield

InterruptsNext == (PagingNext /\ UNCHANGED interrupts) \/ main

InterruptsSpec == InterruptsInit /\ [][InterruptsNext]_<<vars, paging, interrupts>>

-----------------------------------------------------------------------------
(* Properties *)

\* Whatever else interrupts a thread, its handler finds the way back, and
\* whenever interrupts are on, in the code of a thread or in a handler that
\* has switched to another thread, the next tick gets through to the timer's
\* handler.
TicksComeThrough ==
  /\ \A t \in Thread : at[t] # "astray"
  /\ enabled =>
       /\ pic["master"].words = 0 /\ 0 \notin pic["master"].mask
       /\ \A l \in pic["master"].service : l > 0
       /\ idt[pic["master"].start] = "pit_handler_w"
=============================================================================
