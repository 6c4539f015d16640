----------------------------- MODULE BootProofs -----------------------------
(***************************************************************************)
(* Proofs about what main() does before the first thread is created and    *)
(* about the interrupts that come through after it: Interrupts, Boot and   *)
(* Paging.                                                                 *)
(***************************************************************************)
EXTENDS Interrupts, Induction, SequenceTheorems, FiniteSetTheorems

-----------------------------------------------------------------------------
(* The controllers: what is left of the words written to them *)

Lines == 0 .. 7
Chips == {"master", "slave"}

Chip == [words : {0}, start : Nat, mask : SUBSET Lines, requested : SUBSET Lines,
         service : SUBSET Lines]

Fresh(words, start, mask) ==
  [words |-> words, start |-> start, mask |-> mask, requested |-> {}, service |-> {}]
Both(m, s) == [c \in Chips |-> IF c = "master" THEN m ELSE s]

\* The constants, as numbers.
LEMMA Words ==
  /\ FIRST_WORD = 17 /\ 4 \in Bits(17)
  /\ bit(SLAVE_LINE_NUMBER) = 4 /\ FULL_MASK = 255 /\ bit(0) = 1 /\ FULL_MASK - bit(0) = 254
  /\ EOI = 32 /\ 4 \notin Bits(32)
  /\ 0 \notin Bits(254)
  /\ \A byte \in 0 .. 255 : Bits(byte) \in SUBSET Lines
  <1>1. bit(0) = 1 /\ bit(4) = 16 /\ bit(2) = 4 /\ bit(8) = 256 /\ bit(5) = 32
    BY DEF bit
  <1>2. FIRST_WORD = 17 /\ bit(SLAVE_LINE_NUMBER) = 4 /\ FULL_MASK = 255 /\ EOI = 32
    BY <1>1 DEF FIRST_WORD, SLAVE_LINE_NUMBER, FULL_MASK, EOI
  <1>3. (17 \div 16) % 2 = 1 /\ (32 \div 16) % 2 = 0 /\ (254 \div 1) % 2 = 0
    OBVIOUS
  <1>4. 4 \in Bits(17) /\ 4 \notin Bits(32) /\ 0 \notin Bits(254)
    BY <1>1, <1>3 DEF Bits
  <1>5. \A byte \in 0 .. 255 : Bits(byte) \in SUBSET Lines
    BY DEF Bits, Lines
  <1> QED BY <1>1, <1>2, <1>4, <1>5

\* The first word, the three words that follow it, and a mask.
LEMMA WordByWord ==
  ASSUME NEW w, NEW s, NEW m, NEW byte
  PROVE  /\ Received(Fresh(w, s, m), "command", 17) = Fresh(3, 0, {})
         /\ Received(Fresh(3, s, m), "data", byte) = Fresh(2, byte, m)
         /\ Received(Fresh(2, s, m), "data", byte) = Fresh(1, s, m)
         /\ Received(Fresh(1, s, m), "data", byte) = Fresh(0, s, m)
         /\ Received(Fresh(0, s, m), "data", byte) = Fresh(0, s, Bits(byte))
  <1>1. Received(Fresh(w, s, m), "command", 17) = Fresh(3, 0, {})
    <2>1. Received(Fresh(w, s, m), "command", 17) = [Controller EXCEPT !.words = 3]
      BY Words, Zenon DEF Received
    <2> QED BY <2>1 DEF Controller, Fresh
  <1>2. ASSUME NEW k PROVE Fresh(k, s, m).words = k
    BY DEF Fresh
  <1>3. "data" # "command"
    OBVIOUS
  <1>4. Received(Fresh(3, s, m), "data", byte) = Fresh(2, byte, m)
    <2>1. Received(Fresh(3, s, m), "data", byte)
            = [Fresh(3, s, m) EXCEPT !.start = byte, !.words = 2]
      <3>1. /\ Fresh(3, s, m).words = 3 /\ Fresh(3, s, m).words \notin {1, 2}
            /\ Fresh(3, s, m).words # 0
        BY <1>2
      <3> QED BY <3>1, <1>3, Zenon DEF Received
    <2> QED BY <2>1 DEF Fresh
  <1>5. Received(Fresh(2, s, m), "data", byte) = Fresh(1, s, m)
    <2>1. Received(Fresh(2, s, m), "data", byte) = [Fresh(2, s, m) EXCEPT !.words = @ - 1]
      <3>1. /\ Fresh(2, s, m).words # 3 /\ Fresh(2, s, m).words \in {1, 2}
            /\ Fresh(2, s, m).words # 0
        BY <1>2
      <3> QED BY <3>1, <1>3, Zenon DEF Received
    <2> QED BY <2>1 DEF Fresh
  <1>6. Received(Fresh(1, s, m), "data", byte) = Fresh(0, s, m)
    <2>1. Received(Fresh(1, s, m), "data", byte) = [Fresh(1, s, m) EXCEPT !.words = @ - 1]
      <3>1. /\ Fresh(1, s, m).words # 3 /\ Fresh(1, s, m).words \in {1, 2}
            /\ Fresh(1, s, m).words # 0
        BY <1>2
      <3> QED BY <3>1, <1>3, Zenon DEF Received
    <2> QED BY <2>1 DEF Fresh
  <1>7. Received(Fresh(0, s, m), "data", byte) = Fresh(0, s, Bits(byte))
    <2>1. Received(Fresh(0, s, m), "data", byte) = [Fresh(0, s, m) EXCEPT !.mask = Bits(byte)]
      <3>1. Fresh(0, s, m).words # 3 /\ Fresh(0, s, m).words \notin {1, 2}
            /\ Fresh(0, s, m).words = 0
        BY <1>2
      <3> QED BY <3>1, <1>3, Zenon DEF Received
    <2> QED BY <2>1 DEF Fresh
  <1> QED BY <1>1, <1>4, <1>5, <1>6, <1>7

LEMMA WrittenTo ==
  ASSUME NEW m, NEW s, NEW register, NEW byte
  PROVE  /\ out8(Both(m, s), "master", register, byte) = Both(Received(m, register, byte), s)
         /\ out8(Both(m, s), "slave", register, byte) = Both(m, Received(s, register, byte))
  BY DEF out8, Both, Chips

\* After the initialization the timer's line is open and its vector is 32.
LEMMA ControllersReady ==
  init_interrupt_controller = Both(Fresh(0, 32, Bits(254)), Fresh(0, 40, Bits(255)))
  <1>1. [c \in {"master", "slave"} |-> Controller] = Both(Fresh(0, 0, {}), Fresh(0, 0, {}))
    BY DEF Controller, Fresh, Both, Chips
  <1>2. MASTER_START_NUMBER = 32 /\ SLAVE_START_NUMBER = 40
    BY DEF MASTER_START_NUMBER, SLAVE_START_NUMBER
  <1>3. /\ FIRST_WORD = 17 /\ bit(SLAVE_LINE_NUMBER) = 4 /\ FULL_MASK = 255
        /\ FULL_MASK - bit(0) = 254
    BY Words
  <1>4. ASSUME NEW s
        PROVE  /\ out8(Both(Fresh(0, 0, {}), s), "master", "command", 17) = Both(Fresh(3, 0, {}), s)
               /\ out8(Both(Fresh(3, 0, {}), s), "master", "data", 32) = Both(Fresh(2, 32, {}), s)
               /\ out8(Both(Fresh(2, 32, {}), s), "master", "data", 4) = Both(Fresh(1, 32, {}), s)
               /\ out8(Both(Fresh(1, 32, {}), s), "master", "data", 1) = Both(Fresh(0, 32, {}), s)
               /\ out8(Both(Fresh(0, 32, {}), s), "master", "data", 254)
                    = Both(Fresh(0, 32, Bits(254)), s)
    BY WordByWord, WrittenTo
  <1>5. ASSUME NEW m
        PROVE  /\ out8(Both(m, Fresh(0, 0, {})), "slave", "command", 17) = Both(m, Fresh(3, 0, {}))
               /\ out8(Both(m, Fresh(3, 0, {})), "slave", "data", 40) = Both(m, Fresh(2, 40, {}))
               /\ out8(Both(m, Fresh(2, 40, {})), "slave", "data", 2) = Both(m, Fresh(1, 40, {}))
               /\ out8(Both(m, Fresh(1, 40, {})), "slave", "data", 1) = Both(m, Fresh(0, 40, {}))
               /\ out8(Both(m, Fresh(0, 40, {})), "slave", "data", 255)
                    = Both(m, Fresh(0, 40, Bits(255)))
    BY WordByWord, WrittenTo, SMTT(30)
  <1>6. CONTROLLER_MODE = 1 /\ SLAVE_LINE_NUMBER = 2
    BY DEF CONTROLLER_MODE, SLAVE_LINE_NUMBER
  <1> DEFINE z == Fresh(0, 0, {})
             c1 == out8(Both(z, z), "master", "command", 17)
             c2 == out8(c1, "master", "data", 32)
             c3 == out8(c2, "master", "data", 4)
             c4 == out8(c3, "master", "data", 1)
             c5 == out8(c4, "slave", "command", 17)
             c6 == out8(c5, "slave", "data", 40)
             c7 == out8(c6, "slave", "data", 2)
             c8 == out8(c7, "slave", "data", 1)
             c9 == out8(c8, "master", "data", 254)
             c10 == out8(c9, "slave", "data", 255)
  <1>7. init_interrupt_controller = c10
    BY <1>1, <1>2, <1>3, <1>6 DEF init_interrupt_controller
  <1>8. c4 = Both(Fresh(0, 32, {}), z)
    <2> HIDE DEF c1, c2, c3, c4
    <2>1. c1 = Both(Fresh(3, 0, {}), z)
      BY <1>4 DEF c1
    <2>2. c2 = Both(Fresh(2, 32, {}), z)
      BY <1>4, <2>1 DEF c2
    <2>3. c3 = Both(Fresh(1, 32, {}), z)
      BY <1>4, <2>2 DEF c3
    <2> QED BY <1>4, <2>3 DEF c4
  <1>9. c8 = Both(Fresh(0, 32, {}), Fresh(0, 40, {}))
    <2> HIDE DEF c4, c5, c6, c7, c8
    <2>1. c5 = Both(Fresh(0, 32, {}), Fresh(3, 0, {}))
      BY <1>5, <1>8 DEF c5
    <2>2. c6 = Both(Fresh(0, 32, {}), Fresh(2, 40, {}))
      BY <1>5, <2>1 DEF c6
    <2>3. c7 = Both(Fresh(0, 32, {}), Fresh(1, 40, {}))
      BY <1>5, <2>2 DEF c7
    <2> QED BY <1>5, <2>3 DEF c8
  <1>10. c10 = Both(Fresh(0, 32, Bits(254)), Fresh(0, 40, Bits(255)))
    <2> HIDE DEF c8
    <2> QED BY <1>4, <1>5, <1>9
  <1> HIDE DEF c10
  <1> QED BY <1>7, <1>10

\* An end of interrupt for the timer leaves nothing of it in service.
LEMMA EndOfInterrupt ==
  ASSUME NEW chips \in [Chips -> Chip]
  PROVE  /\ send_eoi(chips, TRUE) \in [Chips -> Chip]
         /\ send_eoi(chips, TRUE)["master"].start = chips["master"].start
         /\ send_eoi(chips, TRUE)["master"].mask = chips["master"].mask
         /\ 0 \notin send_eoi(chips, TRUE)["master"].service
  <1> DEFINE old == chips["master"]
             left == old.service \ {l \in old.service : \A k \in old.service : l <= k}
  <1>1. EOI = 32 /\ 4 \notin Bits(32)
    BY Words
  <1>2. send_eoi(chips, TRUE) = [chips EXCEPT !["master"] = [old EXCEPT !.service = left]]
    <2>1. send_eoi(chips, TRUE) = [chips EXCEPT !["master"] = Received(old, "command", EOI)]
      BY DEF send_eoi, out8, Chips
    <2>2. Received(old, "command", EOI) = [old EXCEPT !.service = left]
      BY <1>1, Zenon DEF Received
    <2> QED BY <2>1, <2>2
  <1>3. left \in SUBSET Lines /\ 0 \notin left
    BY DEF Chip, Chips, Lines
  <1> HIDE DEF left
  <1> DEFINE new == [old EXCEPT !.service = left]
  <1>4. old \in Chip
    BY DEF Chips
  <1> HIDE DEF old
  <1>5. new \in Chip /\ new.start = old.start /\ new.mask = old.mask /\ new.service = left
    BY <1>3, <1>4 DEF Chip
  <1> HIDE DEF new
  <1>6. send_eoi(chips, TRUE) = [chips EXCEPT !["master"] = new]
    BY <1>2 DEF new
  <1> QED BY <1>3, <1>5, <1>6 DEF Chips, old
-----------------------------------------------------------------------------
(* Handlers on the stacks of the threads they interrupt *)

Handlers == {"empty_handler_w", "pop_handler_w", "pit_handler_w", "thread_schedule"}

\* An element of a stack; an error code is no place to return to.
Pushed == [at : Interruptible \cup {"astray"}, enabled : BOOLEAN]

\* How many frames are on the stack of a thread at place p: an error code can
\* only be on top of them, and only its own handler finds one.
Depth(p, words) == IF p = "pop_handler_w" THEN Len(words) - 1 ELSE Len(words)

\* The frames lead back to one another and at last to the thread's code.
Returns(p, words) ==
  /\ words \in Seq(Pushed)
  /\ p = "code" => words = <<>>
  /\ p # "code" => Depth(p, words) > 0
  /\ \A i \in 1 .. Depth(p, words) : words[i].at = IF i = 1 THEN "code" ELSE "returning"

\* The timer is in service only until its handler has said so; only the
\* thread that runs can be in a handler that others must not interrupt.
TicksInv ==
  /\ pic \in [Chips -> Chip] /\ pic["master"].start = 32 /\ 0 \notin pic["master"].mask
  /\ idt = [init_idt EXCEPT ![32] =
              IF phase \in {"sti", "running"} THEN "pit_handler_w" ELSE "empty_handler_w"]
  /\ enabled \in BOOLEAN /\ current \in Thread
  /\ at \in [Thread -> Handlers \cup Interruptible]
  /\ stack \in [Thread -> Seq(Pushed)]
  /\ phase # "running" => ~enabled /\ \A t \in Thread : at[t] = "code"
  /\ enabled => at[current] \in Interruptible
  /\ \A t \in Thread : t # current => at[t] \in Interruptible
  /\ 0 \in pic["master"].service => at[current] = "pit_handler_w"
  /\ \A t \in Thread : Returns(at[t], stack[t])

\* The invariant at work: interrupts are on only where no timer is in service.
LEMMA TicksInvImplies == TicksInv => TicksComeThrough
  <1> SUFFICES ASSUME TicksInv PROVE TicksComeThrough
    OBVIOUS
  <1>1. \A t \in Thread : at[t] # "astray"
    BY DEF TicksInv, Handlers, Interruptible
  <1>2. ASSUME enabled
        PROVE  /\ pic["master"].words = 0 /\ 0 \notin pic["master"].mask
               /\ \A l \in pic["master"].service : l > 0
               /\ idt[pic["master"].start] = "pit_handler_w"
    <2>1. phase = "running" /\ at[current] \in Interruptible
      BY <1>2 DEF TicksInv
    <2>2. pic["master"] \in Chip /\ pic["master"].start = 32 /\ 0 \notin pic["master"].mask
      BY DEF TicksInv, Chips
    <2>3. 0 \notin pic["master"].service
      BY <2>1 DEF TicksInv, Interruptible
    <2>4. pic["master"].words = 0 /\ \A l \in pic["master"].service : l > 0
      BY <2>2, <2>3 DEF Chip, Lines
    <2>5. idt[32] = "pit_handler_w"
      BY <2>1 DEF TicksInv, init_idt
    <2> QED BY <2>2, <2>4, <2>5
  <1> QED BY <1>1, <1>2 DEF TicksComeThrough

\* What an interrupt pushes leads back to the place interrupted.
LEMMA Pushing ==
  ASSUME TicksInv, NEW v, idt[v] \in Handlers, at[current] \in Interruptible,
         idt[v] = "pop_handler_w" <=> v \in {8} \cup 10 .. 14 \cup {17, 21, 29, 30}
  PROVE  Returns(idt[v], stack[current] \o pushed(v))
  <1> DEFINE words == stack[current]
             p == at[current]
  <1>1. Frame \in Pushed /\ ErrorCode \in Pushed /\ Frame.at = p
    BY DEF TicksInv, Frame, ErrorCode, Pushed
  <1>2. words \in Seq(Pushed) /\ Returns(p, words)
    BY DEF TicksInv
  <1>3. Depth(p, words) = Len(words) /\ Len(words) \in Nat
    BY <1>2, LenProperties DEF Depth, Interruptible
  <1>4. p = IF Len(words) = 0 THEN "code" ELSE "returning"
    BY <1>2, <1>3, EmptySeq DEF Returns, Interruptible
  <1>5. idt[v] # "code"
    BY DEF Handlers
  <1>6. CASE idt[v] = "pop_handler_w"
    <2>1. pushed(v) = <<Frame, ErrorCode>>
      BY <1>6 DEF pushed
    <2> DEFINE r == words \o <<Frame, ErrorCode>>
    <2>2. r \in Seq(Pushed) /\ Len(r) = Len(words) + 2
          /\ (\A i \in 1 .. Len(words) : r[i] = words[i]) /\ r[Len(words) + 1] = Frame
      BY <1>1, <1>2, <1>3, ConcatProperties
    <2>3. Depth(idt[v], r) = Len(words) + 1
      BY <1>6, <1>3, <2>2 DEF Depth
    <2> HIDE DEF r
    <2>4. \A i \in 1 .. Len(words) + 1 : r[i].at = IF i = 1 THEN "code" ELSE "returning"
      <3> SUFFICES ASSUME NEW i \in 1 .. Len(words) + 1
                   PROVE  r[i].at = IF i = 1 THEN "code" ELSE "returning"
        OBVIOUS
      <3>1. CASE i = Len(words) + 1
        BY <3>1, <2>2, <1>1, <1>4, <1>3
      <3>2. CASE i \in 1 .. Len(words)
        BY <3>2, <2>2, <1>2, <1>3 DEF Returns
      <3> QED BY <3>1, <3>2, <1>3
    <2>5. Returns(idt[v], r)
      BY <1>3, <1>5, <2>2, <2>3, <2>4 DEF Returns
    <2> QED BY <2>5, <2>1 DEF r
  <1>7. CASE idt[v] # "pop_handler_w"
    <2>1. pushed(v) = <<Frame>>
      BY <1>7 DEF pushed
    <2> DEFINE r == words \o <<Frame>>
    <2>2. r \in Seq(Pushed) /\ Len(r) = Len(words) + 1
          /\ (\A i \in 1 .. Len(words) : r[i] = words[i]) /\ r[Len(words) + 1] = Frame
      BY <1>1, <1>2, <1>3, ConcatProperties
    <2>3. Depth(idt[v], r) = Len(words) + 1
      BY <1>7, <1>3, <2>2 DEF Depth
    <2> HIDE DEF r
    <2>4. \A i \in 1 .. Len(words) + 1 : r[i].at = IF i = 1 THEN "code" ELSE "returning"
      <3> SUFFICES ASSUME NEW i \in 1 .. Len(words) + 1
                   PROVE  r[i].at = IF i = 1 THEN "code" ELSE "returning"
        OBVIOUS
      <3>1. CASE i = Len(words) + 1
        BY <3>1, <2>2, <1>1, <1>4, <1>3
      <3>2. CASE i \in 1 .. Len(words)
        BY <3>2, <2>2, <1>2, <1>3 DEF Returns
      <3> QED BY <3>1, <3>2, <1>3
    <2>5. Returns(idt[v], r)
      BY <1>3, <1>5, <2>2, <2>3, <2>4 DEF Returns
    <2> QED BY <2>5, <2>1 DEF r
  <1> QED BY <1>6, <1>7

\* Without its uppermost frame a stack leads back from that frame's place.
LEMMA Popping ==
  ASSUME NEW p \in Handlers \cup {"returning"}, NEW words, Returns(p, words), p # "pop_handler_w"
  PROVE  /\ Len(words) > 0 /\ Last(words) \in Pushed /\ Last(words).at \in Interruptible
         /\ Returns(Last(words).at, Front(words))
  <1> DEFINE n == Len(words)
  <1>1. words \in Seq(Pushed) /\ Len(words) \in Nat
    BY LenProperties DEF Returns
  <1>2. n > 0 /\ \A i \in 1 .. n : words[i].at = IF i = 1 THEN "code" ELSE "returning"
    BY DEF Returns, Depth, Handlers
  <1>3. Last(words) = words[n] /\ words[n] \in Pushed
    BY <1>1, <1>2, ElementOfSeq DEF Last
  <1>4. Last(words).at = IF n = 1 THEN "code" ELSE "returning"
    <2>1. n \in 1 .. n
      BY <1>1, <1>2
    <2>2. words[n].at = IF n = 1 THEN "code" ELSE "returning"
      BY <1>2, <2>1
    <2> QED BY <2>2, <1>3
  <1> DEFINE f == SubSeq(words, 1, n - 1)
  <1>5. \A i \in 1 .. n - 1 : words[i] \in Pushed
    BY <1>1, ElementOfSeq
  <1>6. f \in Seq(Pushed) /\ Len(f) = n - 1 /\ \A i \in 1 .. n - 1 : f[i] = words[i]
    <2>1. 1 \in Int /\ n - 1 \in Int
      BY <1>1
    <2>2. /\ f \in Seq(Pushed) /\ Len(f) = IF 1 <= n - 1 THEN (n - 1) - 1 + 1 ELSE 0
          /\ \A i \in 1 .. (n - 1) - 1 + 1 : f[i] = words[1 + i - 1]
      BY <2>1, <1>5, SubSeqProperties
    <2> HIDE DEF f
    <2>3. PICK k \in Nat : k = n
      BY <1>1
    <2>4. k > 0
      BY <2>3, <1>2
    <2>5. /\ Len(f) = IF 1 <= k - 1 THEN (k - 1) - 1 + 1 ELSE 0
          /\ \A i \in 1 .. (k - 1) - 1 + 1 : f[i] = words[1 + i - 1]
      BY <2>2, <2>3
    <2>6. Len(f) = k - 1
      BY <2>4, <2>5
    <2>7. ASSUME NEW i \in 1 .. k - 1 PROVE f[i] = words[i]
      <3>1. i \in 1 .. (k - 1) - 1 + 1 /\ 1 + i - 1 = i
        BY <2>4
      <3> QED BY <3>1, <2>5
    <2> QED BY <2>2, <2>3, <2>6, <2>7
  <1>7. Front(words) = f
    BY DEF Front
  <1> HIDE DEF f
  <1>8. n = 1 => f = <<>>
    BY <1>6, EmptySeq
  <1>9. Returns(Last(words).at, f)
    BY <1>1, <1>2, <1>4, <1>6, <1>8 DEF Returns, Depth
  <1> QED BY <1>1, <1>2, <1>3, <1>4, <1>7, <1>9 DEF Interruptible
\* Without the error code on top a stack leads back like any handler's.
LEMMA Pops ==
  ASSUME NEW words, Returns("pop_handler_w", words)
  PROVE  Returns("empty_handler_w", Front(words))
  <1>1. words \in Seq(Pushed) /\ Len(words) \in Nat
    BY LenProperties DEF Returns
  <1>2. PICK k \in Nat : k + 1 = Len(words)
    <2>1. Len(words) - 1 > 0
      BY DEF Returns, Depth
    <2> QED BY <1>1, <2>1
  <1>3. k > 0 /\ \A i \in 1 .. k : words[i].at = IF i = 1 THEN "code" ELSE "returning"
    <2>1. Depth("pop_handler_w", words) = k
      BY <1>2 DEF Depth
    <2> QED BY <2>1 DEF Returns
  <1> DEFINE f == SubSeq(words, 1, k)
  <1>4. \A i \in 1 .. k : words[i] \in Pushed
    <2>1. \A i \in 1 .. Len(words) : words[i] \in Pushed
      BY <1>1, ElementOfSeq
    <2> QED BY <2>1, <1>2
  <1>5. f \in Seq(Pushed) /\ Len(f) = k /\ \A i \in 1 .. k : f[i] = words[i]
    <2>1. /\ f \in Seq(Pushed) /\ Len(f) = IF 1 <= k THEN k - 1 + 1 ELSE 0
          /\ \A i \in 1 .. k - 1 + 1 : f[i] = words[1 + i - 1]
      BY <1>4, SubSeqProperties
    <2> HIDE DEF f
    <2>2. Len(f) = k
      BY <2>1, <1>3
    <2>3. ASSUME NEW i \in 1 .. k PROVE f[i] = words[i]
      <3>1. i \in 1 .. k - 1 + 1 /\ 1 + i - 1 = i
        OBVIOUS
      <3> QED BY <3>1, <2>1
    <2> QED BY <2>1, <2>2, <2>3
  <1>6. Front(words) = f
    BY <1>2 DEF Front
  <1> HIDE DEF f
  <1>7. Depth("empty_handler_w", f) = k
    BY <1>5 DEF Depth
  <1> QED BY <1>3, <1>5, <1>6, <1>7 DEF Returns

Vectors == (0 .. 31 \ {21, 29}) \cup 32 .. 39

\* Who pops the error code of an exception, and who the timer's tick.
LEMMA HandlerOf ==
  ASSUME TicksInv, phase = "running", NEW v \in Vectors
  PROVE  /\ idt[v] \in Handlers
         /\ idt[v] = "pop_handler_w" <=> v \in {8} \cup 10 .. 14 \cup {17, 21, 29, 30}
         /\ v = 32 => idt[v] = "pit_handler_w"
  <1>1. v \in 0 .. 255 /\ v \in Int
    BY DEF Vectors
  <1>2. idt = [init_idt EXCEPT ![32] = "pit_handler_w"]
    BY DEF TicksInv
  <1>3. CASE v = 32
    <2>1. idt[32] = "pit_handler_w"
      BY <1>2 DEF init_idt
    <2>2. v \notin {8} \cup 10 .. 14 \cup {17, 21, 29, 30}
      BY <1>3
    <2> QED BY <1>3, <2>1, <2>2 DEF Handlers
  <1>4. CASE v # 32
    <2>1. idt[v] = IF v \in error_interrupt_numbers THEN "pop_handler_w" ELSE "empty_handler_w"
      BY <1>1, <1>2, <1>4 DEF init_idt
    <2>2. v \in error_interrupt_numbers <=> v \in {8} \cup 10 .. 14 \cup {17, 21, 29, 30}
      BY DEF Vectors, error_interrupt_numbers
    <2> QED BY <1>4, <2>1, <2>2 DEF Handlers
  <1> QED BY <1>3, <1>4

\* Whatever interrupts a thread, the invariant is kept if the timer is put in
\* service for its own vector only.
LEMMA InterruptKeeps ==
  ASSUME TicksInv, NEW v \in Vectors, Interrupt(v),
         pic' \in [Chips -> Chip], pic'["master"].start = 32, 0 \notin pic'["master"].mask,
         0 \in pic'["master"].service => v = 32 \/ 0 \in pic["master"].service
  PROVE  TicksInv'
  <1>1. phase = "running" /\ phase' = phase /\ at[current] \in Interruptible
    BY DEF Interrupt, vars
  <1>2. /\ stack' = [stack EXCEPT ![current] = @ \o pushed(v)]
        /\ at' = [at EXCEPT ![current] = idt[v]]
        /\ enabled' = FALSE /\ idt' = idt /\ current' = current
    BY DEF Interrupt
  <1>3. /\ idt[v] \in Handlers
        /\ v = 32 => idt[v] = "pit_handler_w"
        /\ idt[v] = "pop_handler_w" <=> v \in {8} \cup 10 .. 14 \cup {17, 21, 29, 30}
    BY <1>1, HandlerOf
  <1> DEFINE s == stack[current] \o pushed(v)
  <1>4. Returns(idt[v], s)
    BY <1>1, <1>3, Pushing
  <1>5. s \in Seq(Pushed)
    BY <1>4 DEF Returns
  <1> HIDE DEF s
  <1>6. stack' = [stack EXCEPT ![current] = s]
    BY <1>2 DEF s
  <1>7. at' \in [Thread -> Handlers \cup Interruptible] /\ stack' \in [Thread -> Seq(Pushed)]
    BY <1>2, <1>3, <1>5, <1>6, ZenonT(30) DEF TicksInv
  <1>8. \A t \in Thread : Returns(at'[t], stack'[t])
    BY <1>2, <1>4, <1>6, ZenonT(30) DEF TicksInv
  <1>9. \A t \in Thread : t # current' => at'[t] \in Interruptible
    BY <1>2 DEF TicksInv
  <1>10. 0 \in pic'["master"].service => at'[current'] = "pit_handler_w"
    BY <1>1, <1>2, <1>3 DEF TicksInv, Interruptible
  <1>11. idt' = [init_idt EXCEPT ![32] =
                   IF phase' \in {"sti", "running"} THEN "pit_handler_w" ELSE "empty_handler_w"]
    BY <1>1, <1>2 DEF TicksInv
  <1>12. enabled' \in BOOLEAN /\ current' \in Thread /\ ~enabled' /\ phase' = "running"
    BY <1>1, <1>2 DEF TicksInv
  <1> QED BY <1>7, <1>8, <1>9, <1>10, <1>11, <1>12 DEF TicksInv

\* What a handler leaves behind when it returns keeps the invariant.
LEMMA ReturnKeeps ==
  ASSUME TicksInv, NEW p \in Handlers \cup {"returning"}, NEW words,
         Returns(p, words), p # "pop_handler_w",
         0 \notin pic["master"].service, phase = "running",
         iretq(words), UNCHANGED <<vars, paging, pic, idt, current>>
  PROVE  TicksInv'
  <1>1. /\ Len(words) > 0 /\ Last(words) \in Pushed /\ Last(words).at \in Interruptible
        /\ Returns(Last(words).at, Front(words))
    BY Popping
  <1> DEFINE f == Last(words)
             s == Front(words)
  <1>2. stack' = [stack EXCEPT ![current] = s] /\ at' = [at EXCEPT ![current] = f.at]
        /\ enabled' = f.enabled
    BY DEF iretq
  <1>3. f.enabled \in BOOLEAN /\ f.at \in Interruptible /\ s \in Seq(Pushed) /\ Returns(f.at, s)
    BY <1>1 DEF Pushed, Returns
  <1> HIDE DEF f, s
  <1>4. phase' = "running" /\ pic' = pic /\ idt' = idt /\ current' = current /\ current \in Thread
    BY DEF vars, TicksInv
  <1>5. at' \in [Thread -> Handlers \cup Interruptible] /\ stack' \in [Thread -> Seq(Pushed)]
    BY <1>2, <1>3, <1>4 DEF TicksInv
  <1>6. \A t \in Thread : Returns(at'[t], stack'[t])
    BY <1>2, <1>3, <1>4 DEF TicksInv
  <1>7. at'[current'] \in Interruptible /\ \A t \in Thread : t # current' => at'[t] \in Interruptible
    BY <1>2, <1>3, <1>4 DEF TicksInv
  <1>8. idt' = [init_idt EXCEPT ![32] =
                   IF phase' \in {"sti", "running"} THEN "pit_handler_w" ELSE "empty_handler_w"]
    BY <1>4 DEF TicksInv
  <1>9. pic' \in [Chips -> Chip] /\ pic'["master"].start = 32 /\ 0 \notin pic'["master"].mask
        /\ 0 \notin pic'["master"].service
    BY <1>4 DEF TicksInv
  <1> QED BY <1>2, <1>3, <1>4, <1>5, <1>6, <1>7, <1>8, <1>9 DEF TicksInv
LEMMA TicksStart == InterruptsInit => TicksInv
  <1> SUFFICES ASSUME InterruptsInit PROVE TicksInv
    OBVIOUS
  <1>1. phase = "get_memory_map"
    BY DEF InterruptsInit, PagingInit, Init
  <1>2. pic = Both(Fresh(0, 32, Bits(254)), Fresh(0, 40, Bits(255))) /\ 0 \notin Bits(254)
        /\ Bits(254) \in SUBSET Lines /\ Bits(255) \in SUBSET Lines
    BY ControllersReady, Words DEF InterruptsInit
  <1>3. pic \in [Chips -> Chip] /\ pic["master"].start = 32 /\ 0 \notin pic["master"].mask
        /\ 0 \notin pic["master"].service
    BY <1>2 DEF Both, Fresh, Chip, Chips
  <1>4. idt = [init_idt EXCEPT ![32] = "empty_handler_w"]
    <2>1. init_idt[32] = "empty_handler_w"
      BY DEF init_idt, error_interrupt_numbers
    <2> QED BY <2>1 DEF InterruptsInit, init_idt
  <1>5. /\ at = [t \in Thread |-> "code"] /\ stack = [t \in Thread |-> <<>>]
        /\ enabled = FALSE /\ current = First
    BY DEF InterruptsInit
  <1>6. Returns("code", <<>>) /\ <<>> \in Seq(Pushed)
    BY EmptySeq DEF Returns, Depth
  <1>7. \A t \in Thread : Returns(at[t], stack[t])
    BY <1>5, <1>6
  <1>8. current \in Thread
    BY <1>5, ThreadAssumption
  <1> QED BY <1>1, <1>3, <1>4, <1>5, <1>6, <1>7, <1>8 DEF TicksInv, Interruptible

\* The steps of the start-up before init_pit.
Early == {"get_memory_map", "init_initramfs", "init_buddy", "init_paging",
          "init_after_canonical_hole_mapping", "init_kernel_mapping"}

LEMMA MakePagingOnly ==
  ASSUME NEW base, NEW size, MakePaging(base, size)
  PROVE  /\ UNCHANGED <<firmware, kernel, modules, initramfs_module, map, buddy, given, tables>>
         /\ phase' = phase \/ phase' = "fault"
  <1>1. \/ UNCHANGED vars
        \/ /\ phase' = "fault"
           /\ UNCHANGED <<firmware, kernel, modules, initramfs_module, map, buddy, given, tables>>
    BY Zenon DEF MakePaging
  <1> QED BY <1>1 DEF vars

LEMMA EarlySteps ==
  ASSUME PagingNext
  PROVE  phase \in Early /\ phase' \in Early \cup {"init_pit", "fault"}
  <1>1. CASE Starting
    BY <1>1 DEF Starting, get_memory_map, init_initramfs, init_buddy, Early
  <1>2. CASE SetAside
    BY <1>2 DEF SetAside, init_paging, Early
  <1>3. CASE init_after_canonical_hole_mapping
    BY <1>3, MakePagingOnly DEF init_after_canonical_hole_mapping, Mapping, vars, Early
  <1>4. CASE init_kernel_mapping
    BY <1>4, MakePagingOnly DEF init_kernel_mapping, Mapping, vars, Early
  <1> QED BY <1>1, <1>2, <1>3, <1>4 DEF PagingNext

LEMMA TicksStep ==
  ASSUME TicksInv, [InterruptsNext]_<<vars, paging, interrupts>>
  PROVE  TicksInv'
  <1>1. CASE PagingNext /\ UNCHANGED interrupts
    <2>1. phase \notin {"sti", "running"} /\ phase' \notin {"sti", "running"}
      BY <1>1, EarlySteps DEF Early
    <2>2. UNCHANGED <<pic, idt, enabled, current, at, stack>>
      BY <1>1 DEF interrupts
    <2> QED BY <2>1, <2>2 DEF TicksInv
  <1>2. CASE init_pit
    <2>1. idt' = [init_idt EXCEPT ![32] = "pit_handler_w"]
      <3>1. phase = "init_pit" /\ idt' = [idt EXCEPT ![32] = "pit_handler_w"]
        BY <1>2 DEF init_pit, MASTER_START_NUMBER
      <3>2. idt = [init_idt EXCEPT ![32] = "empty_handler_w"]
        BY <3>1 DEF TicksInv
      <3>3. PICK J : J = init_idt
        OBVIOUS
      <3>4. J = [v \in 0 .. 255 |-> J[v]]
        BY <3>3 DEF init_idt
      <3> QED BY <3>1, <3>2, <3>3, <3>4
    <2>2. phase = "init_pit" /\ phase' = "sti" /\ UNCHANGED <<pic, enabled, current, at, stack>>
      BY <1>2 DEF init_pit
    <2> QED BY <2>1, <2>2 DEF TicksInv
  <1>3. CASE sti
    <2>1. phase = "sti" /\ phase' = "running" /\ enabled' = TRUE
          /\ UNCHANGED <<pic, idt, current, at, stack>>
      BY <1>3 DEF sti
    <2>2. at'[current'] \in Interruptible
      BY <2>1 DEF TicksInv, Interruptible
    <2> QED BY <2>1, <2>2 DEF TicksInv
  <1>4. CASE Raise
    <2>1. PICK r \in Raised : pic' = [pic EXCEPT ![r[1]].requested = @ \cup {r[2]}]
      BY <1>4 DEF Raise
    <2>2. r[1] \in Chips /\ r[2] \in Lines
      BY RaisedAssumption DEF Chips, Lines
    <2>3. /\ pic' \in [Chips -> Chip] /\ pic'["master"].start = 32 /\ 0 \notin pic'["master"].mask
          /\ pic'["master"].service = pic["master"].service
      <3> DEFINE new == [pic[r[1]] EXCEPT !.requested = @ \cup {r[2]}]
      <3>1. pic \in [Chips -> Chip] /\ pic["master"].start = 32 /\ 0 \notin pic["master"].mask
        BY DEF TicksInv
      <3>2. new \in Chip /\ new.start = pic[r[1]].start /\ new.mask = pic[r[1]].mask
            /\ new.service = pic[r[1]].service
        BY <2>2, <3>1 DEF Chip
      <3>3. pic' = [pic EXCEPT ![r[1]] = new]
        BY <2>1
      <3> HIDE DEF new
      <3> QED BY <2>2, <3>1, <3>2, <3>3 DEF Chips
    <2>4. UNCHANGED <<phase, idt, enabled, current, at, stack>>
      BY <1>4 DEF Raise, vars
    <2> QED BY <2>3, <2>4 DEF TicksInv
  <1>5. CASE Accept
    <2>1. PICK l \in Pending("master") :
            /\ pic' = [pic EXCEPT !["master"].requested = @ \ {l}, !["master"].service = @ \cup {l}]
            /\ Interrupt(pic["master"].start + l)
      BY <1>5 DEF Accept
    <2>2. l \in Lines
      <3>1. pic["master"].requested \in SUBSET Lines
        BY DEF TicksInv, Chip, Chips
      <3>2. l \in pic["master"].requested \/ l = SLAVE_LINE_NUMBER
        BY DEF Pending
      <3> QED BY <3>1, <3>2 DEF Lines, SLAVE_LINE_NUMBER
    <2>3. pic["master"].start + l = 32 + l /\ 32 + l \in Vectors /\ (l = 0 <=> 32 + l = 32)
      BY <2>2 DEF TicksInv, Lines, Vectors
    <2>4. /\ pic' \in [Chips -> Chip] /\ pic'["master"].start = 32 /\ 0 \notin pic'["master"].mask
          /\ pic'["master"].service = pic["master"].service \cup {l}
      <3> DEFINE new == [pic["master"] EXCEPT !.requested = @ \ {l}, !.service = @ \cup {l}]
      <3>1. pic \in [Chips -> Chip] /\ pic["master"].start = 32 /\ 0 \notin pic["master"].mask
            /\ "master" \in Chips
        BY DEF TicksInv, Chips
      <3>2. new \in Chip /\ new.start = pic["master"].start /\ new.mask = pic["master"].mask
            /\ new.service = pic["master"].service \cup {l}
        <4>1. pic["master"] \in Chip
          BY <3>1
        <4>2. ASSUME NEW c \in Chip
              PROVE  LET d == [c EXCEPT !.requested = @ \ {l}, !.service = @ \cup {l}]
                     IN d \in Chip /\ d.start = c.start /\ d.mask = c.mask
                        /\ d.service = c.service \cup {l}
          BY <2>2 DEF Chip
        <4> QED BY <4>1, <4>2, Zenon
      <3>3. pic' = [pic EXCEPT !["master"] = new]
        BY <2>1, <3>1
      <3> HIDE DEF new
      <3> QED BY <3>1, <3>2, <3>3
    <2>5. Interrupt(32 + l)
      BY <2>1, <2>3
    <2> QED BY <2>3, <2>4, <2>5, InterruptKeeps
  <1>6. CASE Spurious
    <2>1. Interrupt(39) /\ pic' = pic
      BY <1>6 DEF Spurious, TicksInv
    <2>2. 39 \in Vectors
      BY DEF Vectors
    <2> QED BY <2>1, <2>2, InterruptKeeps DEF TicksInv
  <1>7. CASE Exception
    <2>1. PICK v \in Fault : Interrupt(v)
      BY <1>7 DEF Exception
    <2>2. v \in Vectors /\ pic' = pic
      BY <1>7, FaultAssumption DEF Vectors, Exception
    <2> QED BY <2>1, <2>2, InterruptKeeps DEF TicksInv
  <1>8. CASE Handler
    <2>1. phase = "running" /\ at[current] \in Handlers \cup {"returning"}
          /\ Returns(at[current], stack[current])
      BY <1>8 DEF Handler, empty_handler_w, pop_handler_w, pit_handler, thread_schedule, Return,
                  TicksInv, Handlers
    <2>2. CASE empty_handler_w
      <3>1. 0 \notin pic["master"].service /\ at[current] # "pop_handler_w"
        BY <2>2 DEF empty_handler_w, TicksInv
      <3> QED BY <2>1, <2>2, <3>1, ReturnKeeps DEF empty_handler_w
    <2>3. CASE pop_handler_w
      <3>1. 0 \notin pic["master"].service /\ at[current] = "pop_handler_w"
        BY <2>3 DEF pop_handler_w, TicksInv
      <3>2. Returns("empty_handler_w", Front(stack[current]))
        BY <2>1, <3>1, Pops
      <3> QED BY <2>1, <2>3, <3>1, <3>2, ReturnKeeps DEF pop_handler_w, Handlers
    <2>4. CASE pit_handler
      <3>1. pic' = send_eoi(pic, TRUE) /\ at' = [at EXCEPT ![current] = "thread_schedule"]
            /\ UNCHANGED <<phase, idt, enabled, current, stack>> /\ at[current] = "pit_handler_w"
        BY <2>4 DEF pit_handler, vars
      <3>2. pic' \in [Chips -> Chip] /\ pic'["master"].start = 32 /\ 0 \notin pic'["master"].mask
            /\ 0 \notin pic'["master"].service
        BY <3>1, EndOfInterrupt DEF TicksInv
      <3>3. Returns("thread_schedule", stack[current])
        BY <2>1, <3>1 DEF Returns, Depth
      <3>4. at' \in [Thread -> Handlers \cup Interruptible]
            /\ (\A t \in Thread : Returns(at'[t], stack'[t]))
            /\ \A t \in Thread : t # current => at'[t] \in Interruptible
        BY <3>1, <3>3 DEF TicksInv, Handlers
      <3>5. ~enabled
        BY <3>1 DEF TicksInv, Interruptible
      <3> QED BY <2>1, <3>1, <3>2, <3>4, <3>5 DEF TicksInv
    <2>5. CASE thread_schedule
      <3>1. PICK t \in Thread : (t = current \/ at[t] \in Interruptible) /\ current' = t
        BY <2>5 DEF thread_schedule
      <3>2. at' = [at EXCEPT ![current] = "returning"] /\ enabled' = TRUE
            /\ UNCHANGED <<phase, pic, idt, stack>> /\ at[current] = "thread_schedule"
        BY <2>5 DEF thread_schedule, vars
      <3>3. Returns("returning", stack[current])
        BY <2>1, <3>2 DEF Returns, Depth
      <3>4. at' \in [Thread -> Handlers \cup Interruptible]
            /\ (\A u \in Thread : Returns(at'[u], stack'[u]))
            /\ (\A u \in Thread : at'[u] \in Interruptible)
        BY <3>2, <3>3 DEF TicksInv, Interruptible
      <3>5. 0 \notin pic["master"].service
        BY <3>2 DEF TicksInv
      <3> QED BY <2>1, <3>1, <3>2, <3>4, <3>5 DEF TicksInv
    <2>6. CASE Return
      <3>1. 0 \notin pic["master"].service /\ at[current] = "returning"
        BY <2>6 DEF Return, TicksInv
      <3> QED BY <2>1, <2>6, <3>1, ReturnKeeps DEF Return
    <2> QED BY <1>8, <2>2, <2>3, <2>4, <2>5, <2>6 DEF Handler
  <1>9. CASE thread_yield
    <2>1. PICK t \in Thread : at[t] \in Interruptible /\ current' = t
      BY <1>9 DEF thread_yield
    <2>2. enabled' = TRUE /\ UNCHANGED <<phase, pic, idt, at, stack>> /\ at[current] = "code"
          /\ phase = "running"
      BY <1>9 DEF thread_yield, vars
    <2>3. 0 \notin pic["master"].service
      BY <2>2 DEF TicksInv
    <2>4. \A u \in Thread : at[u] \in Interruptible
      BY <2>2 DEF TicksInv, Interruptible
    <2> QED BY <2>1, <2>2, <2>3, <2>4 DEF TicksInv
  <1>10. CASE UNCHANGED <<vars, paging, interrupts>>
    BY <1>10 DEF vars, interrupts, TicksInv
  <1> QED BY <1>1, <1>2, <1>3, <1>4, <1>5, <1>6, <1>7, <1>8, <1>9, <1>10
          DEF InterruptsNext, main

\* No interrupt leads a thread astray, and the timer's ticks come through:
\* for any threads, devices that raise interrupts and nesting of them.
THEOREM TicksAlwaysComeThrough == InterruptsSpec => []TicksComeThrough
  <1>1. InterruptsInit => TicksInv
    BY TicksStart
  <1>2. TicksInv /\ [InterruptsNext]_<<vars, paging, interrupts>> => TicksInv'
    BY TicksStep
  <1> QED BY <1>1, <1>2, TicksInvImplies, PTL DEF InterruptsSpec
-----------------------------------------------------------------------------
(* The memory map: sequences of regions put together from pieces *)

\* Sequences put together one after the other.
LEMMA Flattened ==
  ASSUME NEW S, NEW K \in Nat, NEW ss \in [1 .. K -> Seq(S)]
  PROVE  \E w \in [0 .. K -> Seq(S)] :
           /\ w[0] = <<>> /\ \A n \in 1 .. K : w[n] = w[n - 1] \o ss[n]
           /\ FlattenSeq(ss) = w[K]
  <1> DEFINE T == Seq(S)
             F == [p \in (1 .. K) \X T |-> p[2] \o ss[p[1]]]
  <1>1. <<>> \in T /\ F \in [(1 .. K) \X T -> T]
    <2>1. \A p \in (1 .. K) \X T : p[2] \o ss[p[1]] \in T
      BY ConcatProperties
    <2> QED BY <2>1, EmptySeq
  <1> HIDE DEF F, T
  <1>2. PICK w \in [0 .. K -> T] : w[0] = <<>> /\ \A n \in 1 .. K : w[n] = F[<<n, w[n - 1]>>]
    <2>1. Recursive(T)
      BY Recursion
    <2> QED BY <1>1, <2>1, ZenonT(30) DEF Recursive
  <1>3. \A n \in 1 .. K : w[n] = w[n - 1] \o ss[n]
    <2> TAKE n \in 1 .. K
    <2>1. n - 1 \in 0 .. K
      OBVIOUS
    <2>2. <<n, w[n - 1]>> \in (1 .. K) \X T
      BY <2>1
    <2>3. F[<<n, w[n - 1]>>] = w[n - 1] \o ss[n]
      BY <2>2 DEF F
    <2> QED BY <1>2, <2>3
  <1>4. Len(ss) = K /\ ss \in Seq(Seq(S))
    <2>1. ss \in Seq(Seq(S))
      BY SeqDef
    <2>2. Len(ss) \in Nat /\ DOMAIN ss = 1 .. Len(ss) /\ DOMAIN ss = 1 .. K
      BY <2>1, LenProperties
    <2> QED BY <2>1, <2>2
  <1>5. FlattenSeq(ss) = w[K]
    <2>1. CASE K = 0
      <3>1. ss = <<>>
        BY <2>1, <1>4, EmptySeq
      <3>2. FlattenSeq(ss) = ss
        BY <2>1, <1>4 DEF FlattenSeq
      <3> QED BY <2>1, <3>1, <3>2, <1>2
    <2>2. CASE K # 0
      <3> DEFINE body(u) == [i \in 1 .. Len(ss) |-> IF i = 1 THEN ss[i] ELSE u[i - 1] \o ss[i]]
      <3>1. \E u : u = body(u) /\ u[K] = w[K]
        <4> DEFINE u == [i \in 1 .. K |-> w[i]]
        <4>1. \A i \in 1 .. K : w[i] = IF i = 1 THEN ss[i] ELSE u[i - 1] \o ss[i]
          <5> TAKE i \in 1 .. K
          <5>1. CASE i = 1
            <6>1. w[1] = w[0] \o ss[1] /\ ss[1] \in Seq(S)
              BY <1>3, <5>1
            <6> QED BY <6>1, <5>1, <1>2, ConcatEmptySeq
          <5>2. CASE i # 1
            <6>1. i - 1 \in 1 .. K
              BY <5>2
            <6>2. u[i - 1] = w[i - 1]
              BY <6>1
            <6> QED BY <5>2, <6>2, <1>3
          <5> QED BY <5>1, <5>2
        <4>2. u = body(u)
          BY <4>1, <1>4
        <4>3. u[K] = w[K]
          BY <2>2
        <4> HIDE DEF u
        <4> QED BY <4>2, <4>3
      <3>2. ASSUME NEW u, NEW v, u = body(u), v = body(v) PROVE u[K] = v[K]
        <4> DEFINE A == {n \in Nat : n + 1 <= K => u[n + 1] = v[n + 1]}
        <4>1. \A i \in 1 .. K : u[i] = IF i = 1 THEN ss[i] ELSE u[i - 1] \o ss[i]
          BY <3>2, <1>4
        <4>2. \A i \in 1 .. K : v[i] = IF i = 1 THEN ss[i] ELSE v[i - 1] \o ss[i]
          BY <3>2, <1>4
        <4>3. 0 \in A
          BY <4>1, <4>2
        <4>4. ASSUME NEW n \in A PROVE n + 1 \in A
          <5>1. n \in Nat /\ (n + 1 <= K => u[n + 1] = v[n + 1])
            OBVIOUS
          <5>2. ASSUME (n + 1) + 1 <= K PROVE u[(n + 1) + 1] = v[(n + 1) + 1]
            <6>1. PICK i \in Nat : i = (n + 1) + 1 /\ i - 1 = n + 1
              BY <5>1
            <6>2. i \in 1 .. K /\ i # 1 /\ n + 1 <= K
              BY <6>1, <5>1, <5>2
            <6>3. u[i - 1] = v[i - 1]
              BY <5>1, <6>1, <6>2
            <6>4. u[i] = u[i - 1] \o ss[i] /\ v[i] = v[i - 1] \o ss[i]
              BY <4>1, <4>2, <6>2
            <6> QED BY <6>1, <6>3, <6>4
          <5> QED BY <5>1, <5>2
        <4>5. A = Nat
          <5> HIDE DEF A
          <5>1. A \in SUBSET Nat
            BY DEF A
          <5> QED BY <4>3, <4>4, <5>1, SetInduction
        <4>6. PICK n \in Nat : n + 1 = K
          BY <2>2
        <4>7. n \in A
          <5> HIDE DEF A
          <5> QED BY <4>5
        <4>8. n + 1 <= K
          BY <4>6
        <4>9. u[n + 1] = v[n + 1]
          BY <4>7, <4>8
        <4> QED BY <4>6, <4>9
      <3>3. FlattenSeq(ss) = (CHOOSE u : u = body(u))[K]
        BY <2>2, <1>4, Zenon DEF FlattenSeq
      <3> HIDE DEF body
      <3>4. PICK u : u = body(u) /\ u[K] = w[K]
        BY <3>1
      <3> DEFINE c == CHOOSE x : x = body(x)
      <3>5. c = body(c)
        BY <3>4
      <3> HIDE DEF c
      <3>6. c[K] = w[K]
        BY <3>2, <3>4, <3>5
      <3> QED BY <3>3, <3>6 DEF c
    <2> QED BY <2>1, <2>2
  <1> QED BY <1>2, <1>3, <1>5 DEF T
\* The available bytes of a region, and the bytes of a map.
Avail(d) == IF d.type = "available" THEN Bytes(d) ELSE {}
Covered(p) == UNION {Bytes(p[i]) : i \in DOMAIN p}

LEMMA AvailableAre ==
  ASSUME NEW p PROVE AvailableIn(p) = UNION {Avail(p[i]) : i \in DOMAIN p}
  BY DEF AvailableIn, Avail

\* A part of a map that is put behind another one.
LEMMA PutBehind ==
  ASSUME NEW p \in Seq(Regions), NEW q \in Seq(Regions), Apart(p), Apart(q),
         Covered(p) \cap Covered(q) = {}
  PROVE  /\ p \o q \in Seq(Regions) /\ Len(p \o q) = Len(p) + Len(q)
         /\ Apart(p \o q)
         /\ Covered(p \o q) = Covered(p) \cup Covered(q)
         /\ AvailableIn(p \o q) = AvailableIn(p) \cup AvailableIn(q)
  <1> DEFINE r == p \o q
  <1>1. PICK k \in Nat : k = Len(p) /\ DOMAIN p = 1 .. k
    BY LenProperties
  <1>2. PICK l \in Nat : l = Len(q) /\ DOMAIN q = 1 .. l
    BY LenProperties
  <1>3. /\ r \in Seq(Regions) /\ Len(r) = k + l
        /\ \A i \in 1 .. k + l : r[i] = IF i <= k THEN p[i] ELSE q[i - k]
    BY <1>1, <1>2, ConcatProperties
  <1>4. DOMAIN r = 1 .. k + l
    BY <1>3, LenProperties
  <1> HIDE DEF r
  <1>5. \A i \in DOMAIN r : (\E j \in DOMAIN p : i = j /\ r[i] = p[j])
                              \/ (\E j \in DOMAIN q : i = k + j /\ r[i] = q[j])
    <2> TAKE i \in DOMAIN r
    <2>1. CASE i <= k
      <3>1. i \in DOMAIN p /\ r[i] = p[i]
        BY <2>1, <1>1, <1>3, <1>4
      <3> QED BY <3>1
    <2>2. CASE ~ (i <= k)
      <3>1. PICK j \in Int : j = i - k
        BY <1>4
      <3>2. j \in DOMAIN q /\ i = k + j /\ r[i] = q[j]
        BY <2>2, <3>1, <1>2, <1>3, <1>4
      <3> QED BY <3>2
    <2> QED BY <2>1, <2>2
  <1>6. \A j \in DOMAIN p : j \in DOMAIN r /\ r[j] = p[j]
    BY <1>1, <1>3, <1>4
  <1>7. \A j \in DOMAIN q : \E i \in DOMAIN r : r[i] = q[j]
    <2> TAKE j \in DOMAIN q
    <2>1. PICK i \in Int : i = k + j /\ j = i - k
      BY <1>2
    <2>2. i \in DOMAIN r /\ ~ (i <= k)
      BY <2>1, <1>2, <1>4
    <2>3. r[i] = q[j]
      BY <2>1, <2>2, <1>3, <1>4
    <2> QED BY <2>2, <2>3
  <1>8. Covered(r) = Covered(p) \cup Covered(q)
    BY <1>5, <1>6, <1>7 DEF Covered
  <1>9. AvailableIn(r) = AvailableIn(p) \cup AvailableIn(q)
    BY <1>5, <1>6, <1>7, AvailableAre
  <1>10. Apart(r)
    <2> SUFFICES ASSUME NEW i \in DOMAIN r, NEW j \in DOMAIN r, i # j
                 PROVE  Bytes(r[i]) \cap Bytes(r[j]) = {}
      BY DEF Apart
    <2>1. CASE \E a \in DOMAIN p : \E b \in DOMAIN p : i = a /\ r[i] = p[a] /\ j = b /\ r[j] = p[b]
      BY <2>1 DEF Apart
    <2>2. CASE \E a \in DOMAIN q : \E b \in DOMAIN q :
                 i = k + a /\ r[i] = q[a] /\ j = k + b /\ r[j] = q[b]
      BY <2>2 DEF Apart
    <2>3. CASE \E a \in DOMAIN p : \E b \in DOMAIN q : r[i] = p[a] /\ r[j] = q[b]
      BY <2>3 DEF Covered
    <2>4. CASE \E a \in DOMAIN q : \E b \in DOMAIN p : r[i] = q[a] /\ r[j] = p[b]
      BY <2>4 DEF Covered
    <2> QED BY <1>5, <2>1, <2>2, <2>3, <2>4
  <1> QED BY <1>1, <1>2, <1>3, <1>8, <1>9, <1>10 DEF r

\* What a region of a map is replaced by: regions apart in its bytes.
Within(p, d) == p \in Seq(Regions) /\ Apart(p) /\ Covered(p) \subseteq Bytes(d)

\* Pieces for the K regions of m.  At most one region, x, is cut in two.
PiecesOf(ss, m, K, x) ==
  /\ ss \in [1 .. K -> Seq(Regions)]
  /\ \A i, j \in 1 .. K : i # j => Bytes(m[i]) \cap Bytes(m[j]) = {}
  /\ \A i \in 1 .. K : Within(ss[i], m[i])
  /\ \A i \in 1 .. K : Len(ss[i]) <= IF i = x THEN 2 ELSE 1

\* A map made of pieces of the regions of another one.
LEMMA Pieces ==
  ASSUME NEW K \in Nat, NEW m, NEW ss, NEW x \in Nat, PiecesOf(ss, m, K, x)
  PROVE  /\ FlattenSeq(ss) \in Seq(Regions) /\ Apart(FlattenSeq(ss))
         /\ AvailableIn(FlattenSeq(ss)) = UNION {AvailableIn(ss[i]) : i \in 1 .. K}
         /\ Len(FlattenSeq(ss)) <= K + 1
         /\ x > K => Len(FlattenSeq(ss)) <= K
  <1>0. /\ ss \in [1 .. K -> Seq(Regions)]
        /\ \A i, j \in 1 .. K : i # j => Bytes(m[i]) \cap Bytes(m[j]) = {}
        /\ \A i \in 1 .. K : Within(ss[i], m[i])
        /\ \A i \in 1 .. K : Len(ss[i]) <= IF i = x THEN 2 ELSE 1
    BY DEF PiecesOf
  <1>1. PICK w \in [0 .. K -> Seq(Regions)] :
          /\ w[0] = <<>> /\ \A n \in 1 .. K : w[n] = w[n - 1] \o ss[n]
          /\ FlattenSeq(ss) = w[K]
    BY <1>0, Flattened, ZenonT(30)
  <1> DEFINE Good(n) ==
        /\ w[n] \in Seq(Regions) /\ Apart(w[n])
        /\ Covered(w[n]) \subseteq UNION {Bytes(m[i]) : i \in 1 .. n}
        /\ AvailableIn(w[n]) = UNION {AvailableIn(ss[i]) : i \in 1 .. n}
        /\ Len(w[n]) <= n + IF n >= x THEN 1 ELSE 0
             S == {n \in Nat : n <= K => Good(n)}
  <1>2. 0 \in S
    <2>1. w[0] = <<>> /\ Len(w[0]) = 0 /\ w[0] \in Seq(Regions) /\ DOMAIN w[0] = {}
      BY <1>1, EmptySeq, LenProperties
    <2>2. Apart(w[0]) /\ Covered(w[0]) = {} /\ AvailableIn(w[0]) = {}
      BY <2>1 DEF Apart, Covered, AvailableIn
    <2> QED BY <2>1, <2>2
  <1>3. ASSUME NEW n \in S PROVE n + 1 \in S
    <2>1. n \in Nat /\ (n <= K => Good(n))
      OBVIOUS
    <2>2. ASSUME n + 1 <= K PROVE Good(n + 1)
      <3>0. n \in Nat
        BY <2>1
      <3>1. PICK k \in Nat : k = n + 1 /\ k - 1 = n /\ k \in 1 .. K /\ n <= K
        <4> HIDE DEF S, Good
        <4> QED BY <3>0, <2>2
      <3>2. Good(n)
        BY <2>1, <3>1
      <3> HIDE DEF Good
      <3>3. w[k] = w[n] \o ss[k]
        BY <1>1, <3>1
      <3>4. ss[k] \in Seq(Regions) /\ Apart(ss[k]) /\ Covered(ss[k]) \subseteq Bytes(m[k])
        BY <1>0, <3>1 DEF Within
      <3>5. /\ w[n] \in Seq(Regions) /\ Apart(w[n])
            /\ Covered(w[n]) \subseteq UNION {Bytes(m[i]) : i \in 1 .. n}
            /\ AvailableIn(w[n]) = UNION {AvailableIn(ss[i]) : i \in 1 .. n}
        BY <3>2 DEF Good
      <3>6. Covered(w[n]) \cap Covered(ss[k]) = {}
        <4>1. \A i \in 1 .. n : i \in 1 .. K /\ i # k
          BY <3>1, <2>1
        <4>2. \A i \in 1 .. n : Bytes(m[i]) \cap Bytes(m[k]) = {}
          BY <1>0, <4>1, <3>1
        <4> QED BY <4>2, <3>4, <3>5
      <3>7. /\ w[k] \in Seq(Regions) /\ Len(w[k]) = Len(w[n]) + Len(ss[k]) /\ Apart(w[k])
            /\ Covered(w[k]) = Covered(w[n]) \cup Covered(ss[k])
            /\ AvailableIn(w[k]) = AvailableIn(w[n]) \cup AvailableIn(ss[k])
        BY <3>3, <3>4, <3>5, <3>6, PutBehind
      <3>8. 1 .. k = 1 .. n \cup {k}
        <4> HIDE DEF S
        <4>1. \A l \in Nat : 1 .. l + 1 = 1 .. l \cup {l + 1}
          OBVIOUS
        <4> QED BY <3>0, <3>1, <4>1
      <3>9. Covered(w[k]) \subseteq UNION {Bytes(m[i]) : i \in 1 .. k}
        BY <3>4, <3>5, <3>7, <3>8
      <3>10. AvailableIn(w[k]) = UNION {AvailableIn(ss[i]) : i \in 1 .. k}
        BY <3>5, <3>7, <3>8
      <3>11. Len(w[k]) <= k + IF k >= x THEN 1 ELSE 0
        <4>1. PICK a \in Nat : a = Len(w[n])
          BY <3>5, LenProperties
        <4>2. PICK b \in Nat : b = Len(ss[k])
          BY <3>4, LenProperties
        <4>3. a <= n + IF n >= x THEN 1 ELSE 0
          BY <3>2, <4>1 DEF Good
        <4>4. b <= IF k = x THEN 2 ELSE 1
          BY <1>0, <4>2, <3>1
        <4>5. a + b <= k + IF k >= x THEN 1 ELSE 0
          BY <4>3, <4>4, <3>1, <2>1
        <4> QED BY <4>1, <4>2, <4>5, <3>7
      <3>12. Good(k)
        BY <3>7, <3>9, <3>10, <3>11 DEF Good
      <3> QED BY <3>1, <3>12
    <2> HIDE DEF Good
    <2> QED BY <2>1, <2>2
  <1>4. S = Nat
    <2> HIDE DEF S
    <2>1. S \in SUBSET Nat
      BY DEF S
    <2> QED BY <1>2, <1>3, <2>1, SetInduction
  <1>5. Good(K)
    <2>1. K <= K
      OBVIOUS
    <2>2. K \in S
      <3> HIDE DEF S
      <3> QED BY <1>4
    <2> HIDE DEF Good
    <2> QED BY <2>1, <2>2
  <1> HIDE DEF S
  <1>6. PICK a \in Nat : a = Len(w[K])
    BY <1>5, LenProperties
  <1>7. a <= K + IF K >= x THEN 1 ELSE 0
    BY <1>5, <1>6
  <1>8. a <= K + 1 /\ (x > K => a <= K)
    BY <1>7
  <1> QED BY <1>1, <1>5, <1>6, <1>8
\* No region and one region, as pieces.
LEMMA NoPiece ==
  /\ <<>> \in Seq(Regions) /\ Len(<<>>) = 0 /\ Apart(<<>>)
  /\ Covered(<<>>) = {} /\ AvailableIn(<<>>) = {}
  <1>1. <<>> \in Seq(Regions) /\ Len(<<>>) = 0 /\ DOMAIN <<>> = {}
    BY EmptySeq
  <1> QED BY <1>1 DEF Apart, Covered, AvailableIn

LEMMA OnePiece ==
  ASSUME NEW d \in Regions
  PROVE  /\ <<d>> \in Seq(Regions) /\ Len(<<d>>) = 1 /\ Apart(<<d>>)
         /\ Covered(<<d>>) = Bytes(d) /\ AvailableIn(<<d>>) = Avail(d)
  <1>1. <<d>> \in Seq(Regions) /\ Len(<<d>>) = 1 /\ DOMAIN <<d>> = {1} /\ <<d>>[1] = d
    OBVIOUS
  <1>2. Apart(<<d>>) /\ Covered(<<d>>) = Bytes(d)
    BY <1>1 DEF Apart, Covered
  <1>3. AvailableIn(<<d>>) = Avail(d)
    BY <1>1, AvailableAre
  <1> QED BY <1>1, <1>2, <1>3

\* What mark_as_reserved leaves of a region: all of it but the bytes to be
\* cut out, in two pieces only where those have bytes on both sides.
LEMMA OutsideIs ==
  ASSUME NEW d \in Regions, NEW left \in Nat, NEW right \in Nat, left <= right
  PROVE  LET p == Outside(d, left, right)
         IN /\ Within(p, d)
            /\ AvailableIn(p) = Avail(d) \ (left .. right - 1)
            /\ Len(p) <= 2
            /\ Len(p) > 1 => d.base_addr < left /\ right < End(d)
  <1> DEFINE p == Outside(d, left, right)
  <1>1. PICK b \in Nat : b = d.base_addr
    BY DEF Regions
  <1>2. PICK e \in Nat : e = End(d) /\ b <= e /\ e = b + d.length
    BY <1>1 DEF Regions, End
  <1>3. Bytes(d) = b .. e - 1
    BY <1>1, <1>2 DEF Bytes
  <1>4. CASE b >= right \/ left >= e
    <2>1. p = <<d>>
      BY <1>1, <1>2, <1>4 DEF Outside
    <2>2. (b .. e - 1) \cap (left .. right - 1) = {}
      BY <1>4
    <2>3. Avail(d) = Avail(d) \ (left .. right - 1)
      BY <1>3, <2>2 DEF Avail
    <2>4. Within(p, d) /\ AvailableIn(p) = Avail(d) /\ Len(p) = 1
      BY <2>1, OnePiece DEF Within
    <2> HIDE DEF p
    <2>5. Len(p) <= 2 /\ ~ (Len(p) > 1)
      BY <2>4
    <2> QED BY <2>3, <2>4, <2>5 DEF p
  <1>5. CASE ~ (b >= right \/ left >= e)
    <2> DEFINE p1 == IF b < left THEN <<Below(d, left)>> ELSE <<>>
               p2 == IF e > right THEN <<Above(d, right)>> ELSE <<>>
    <2>1. p = p1 \o p2
      BY <1>1, <1>2, <1>5 DEF Outside
    <2>2. /\ p1 \in Seq(Regions) /\ Apart(p1) /\ Covered(p1) = b .. left - 1
          /\ AvailableIn(p1) = IF d.type = "available" THEN b .. left - 1 ELSE {}
          /\ Len(p1) = IF b < left THEN 1 ELSE 0
      <3>1. CASE b < left
        <4> DEFINE a == Below(d, left)
        <4>1. a \in Regions /\ Bytes(a) = b .. left - 1 /\ a.type = d.type
          BY <3>1, <1>1 DEF Below, Region, Regions, Bytes, End
        <4> HIDE DEF a
        <4>2. p1 = <<a>>
          BY <3>1 DEF a
        <4> HIDE DEF p1
        <4> QED BY <3>1, <4>1, <4>2, OnePiece DEF Avail
      <3>2. CASE ~ (b < left)
        <4>1. p1 = <<>>
          BY <3>2
        <4>2. PICK none : none = b .. left - 1
          OBVIOUS
        <4>3. none = {}
          BY <3>2, <4>2
        <4> HIDE DEF p1
        <4>4. /\ p1 \in Seq(Regions) /\ Apart(p1) /\ Covered(p1) = none /\ Len(p1) = 0
              /\ AvailableIn(p1) = IF d.type = "available" THEN none ELSE {}
          BY <4>1, <4>3, NoPiece
        <4> QED BY <3>2, <4>2, <4>4
      <3> QED BY <3>1, <3>2
    <2>3. /\ p2 \in Seq(Regions) /\ Apart(p2) /\ Covered(p2) = right .. e - 1
          /\ AvailableIn(p2) = IF d.type = "available" THEN right .. e - 1 ELSE {}
          /\ Len(p2) = IF e > right THEN 1 ELSE 0
      <3>1. CASE e > right
        <4> DEFINE a == Above(d, right)
        <4>1. a \in Regions /\ Bytes(a) = right .. e - 1 /\ a.type = d.type
          BY <3>1, <1>2 DEF Above, Region, Regions, Bytes, End
        <4> HIDE DEF a
        <4>2. p2 = <<a>>
          BY <3>1 DEF a
        <4> HIDE DEF p2
        <4> QED BY <3>1, <4>1, <4>2, OnePiece DEF Avail
      <3>2. CASE ~ (e > right)
        <4>1. p2 = <<>>
          BY <3>2
        <4>2. PICK none : none = right .. e - 1
          OBVIOUS
        <4>3. none = {}
          BY <3>2, <4>2
        <4> HIDE DEF p2
        <4>4. /\ p2 \in Seq(Regions) /\ Apart(p2) /\ Covered(p2) = none /\ Len(p2) = 0
              /\ AvailableIn(p2) = IF d.type = "available" THEN none ELSE {}
          BY <4>1, <4>3, NoPiece
        <4> QED BY <3>2, <4>2, <4>4
      <3> QED BY <3>1, <3>2
    <2> HIDE DEF p1, p2, p
    <2>4. Covered(p1) \cap Covered(p2) = {}
      BY <2>2, <2>3
    <2>5. /\ p \in Seq(Regions) /\ Len(p) = Len(p1) + Len(p2) /\ Apart(p)
          /\ Covered(p) = Covered(p1) \cup Covered(p2)
          /\ AvailableIn(p) = AvailableIn(p1) \cup AvailableIn(p2)
      BY <2>1, <2>2, <2>3, <2>4, PutBehind
    <2>6. (b .. left - 1) \cup (right .. e - 1) = (b .. e - 1) \ (left .. right - 1)
      BY <1>2, <1>5
    <2>7. Within(p, d)
      BY <2>2, <2>3, <2>5, <2>6, <1>3 DEF Within
    <2>8. AvailableIn(p) = Avail(d) \ (left .. right - 1)
      <3>1. CASE d.type = "available"
        BY <3>1, <2>2, <2>3, <2>5, <2>6, <1>3 DEF Avail
      <3>2. CASE d.type # "available"
        BY <3>2, <2>2, <2>3, <2>5 DEF Avail
      <3> QED BY <3>1, <3>2
    <2>9. Len(p) <= 2 /\ (Len(p) > 1 => b < left /\ right < e)
      BY <2>2, <2>3, <2>5
    <2> QED BY <2>7, <2>8, <2>9, <1>1, <1>2 DEF p
  <1> QED BY <1>4, <1>5

\* mark_as_reserved cuts its range out of a map and nothing else, and makes
\* the map longer by at most one region.
LEMMA MarkAsReserved ==
  ASSUME NEW m \in Seq(Regions), Apart(m), NEW r \in Ranges
  PROVE  LET n == mark_as_reserved(m, r)
         IN /\ n \in Seq(Regions) /\ Apart(n)
            /\ AvailableIn(n) = AvailableIn(m) \ Between(r)
            /\ Len(n) <= Len(m) + 1
  <1>1. PICK left \in Nat, right \in Nat : left = r[1] /\ right = r[2] /\ left <= right
    BY DEF Ranges
  <1>2. Between(r) = left .. right - 1
    <2>1. r \in Int \X Int
      BY DEF Ranges
    <2>2. r # None
      BY <2>1, NoneAssumption
    <2> QED BY <1>1, <2>2 DEF Between
  <1>3. PICK K \in Nat : K = Len(m) /\ DOMAIN m = 1 .. K
    BY LenProperties
  <1> DEFINE ss == [i \in 1 .. K |-> Outside(m[i], left, right)]
  <1>4. \A i \in 1 .. K : m[i] \in Regions
    BY <1>3, ElementOfSeq
  <1>5. ASSUME NEW i \in 1 .. K
        PROVE  /\ Within(ss[i], m[i])
               /\ AvailableIn(ss[i]) = Avail(m[i]) \ (left .. right - 1)
               /\ Len(ss[i]) <= 2
               /\ Len(ss[i]) > 1 => m[i].base_addr < left /\ right < End(m[i])
    <2>1. ss[i] = Outside(m[i], left, right) /\ m[i] \in Regions
      BY <1>4
    <2> HIDE DEF ss
    <2> QED BY <2>1, <1>1, OutsideIs
  <1>6. mark_as_reserved(m, r) = FlattenSeq(ss)
    BY <1>1, <1>3 DEF mark_as_reserved
  <1>7. ss \in [1 .. K -> Seq(Regions)]
    <2>1. DOMAIN ss = 1 .. K /\ ss = [i \in 1 .. K |-> ss[i]]
      OBVIOUS
    <2> HIDE DEF ss
    <2>2. \A i \in 1 .. K : ss[i] \in Seq(Regions)
      BY <1>5 DEF Within
    <2> QED BY <2>1, <2>2
  <1> HIDE DEF ss
  <1>8. \A i, j \in 1 .. K : i # j => Bytes(m[i]) \cap Bytes(m[j]) = {}
    BY <1>3 DEF Apart
  <1>9. \E x \in Nat : \A i \in 1 .. K : Len(ss[i]) <= IF i = x THEN 2 ELSE 1
    <2>1. \A i \in 1 .. K : Len(ss[i]) \in Nat
      BY <1>7, LenProperties
    <2>2. CASE \E x \in 1 .. K : Len(ss[x]) > 1
      <3>1. PICK x \in 1 .. K : Len(ss[x]) > 1
        BY <2>2
      <3>2. \A i \in 1 .. K : Len(ss[i]) > 1 => left \in Bytes(m[i])
        <4> SUFFICES ASSUME NEW i \in 1 .. K, Len(ss[i]) > 1 PROVE left \in Bytes(m[i])
          OBVIOUS
        <4>1. m[i].base_addr < left /\ right < End(m[i])
          BY <1>5
        <4>2. PICK b \in Nat, e \in Nat : b = m[i].base_addr /\ e = End(m[i])
          BY <1>4 DEF Regions, End
        <4>3. Bytes(m[i]) = b .. e - 1
          BY <4>2 DEF Bytes
        <4>4. b < left /\ left <= right /\ right < e
          <5>1. left <= right
            BY <1>1
          <5> QED BY <4>1, <4>2, <5>1
        <4>5. left \in b .. e - 1
          BY <4>4
        <4> QED BY <4>3, <4>5
      <3>3. \A i \in 1 .. K : Len(ss[i]) > 1 => i = x
        BY <3>1, <3>2, <1>8
      <3>4. \A i \in 1 .. K : Len(ss[i]) <= IF i = x THEN 2 ELSE 1
        BY <2>1, <3>3, <1>5
      <3>5. x \in Nat
        OBVIOUS
      <3> QED BY <3>4, <3>5, Zenon
    <2>3. CASE ~ \E x \in 1 .. K : Len(ss[x]) > 1
      <3>1. \A i \in 1 .. K : Len(ss[i]) <= IF i = 0 THEN 2 ELSE 1
        BY <2>1, <2>3
      <3> QED BY <3>1
    <2> QED BY <2>2, <2>3
  <1>10. PICK x \in Nat : \A i \in 1 .. K : Len(ss[i]) <= IF i = x THEN 2 ELSE 1
    BY <1>9
  <1>11. /\ FlattenSeq(ss) \in Seq(Regions) /\ Apart(FlattenSeq(ss))
         /\ AvailableIn(FlattenSeq(ss)) = UNION {AvailableIn(ss[i]) : i \in 1 .. K}
         /\ Len(FlattenSeq(ss)) <= K + 1
    <2>1. \A i \in 1 .. K : Within(ss[i], m[i])
      BY <1>5
    <2>2. PiecesOf(ss, m, K, x)
      BY <2>1, <1>7, <1>8, <1>10 DEF PiecesOf
    <2> QED BY <2>2, Pieces
  <1>12. UNION {AvailableIn(ss[i]) : i \in 1 .. K} = AvailableIn(m) \ (left .. right - 1)
    <2>1. AvailableIn(m) = UNION {Avail(m[i]) : i \in 1 .. K}
      BY <1>3, AvailableAre
    <2> QED BY <2>1, <1>5
  <1> QED BY <1>2, <1>3, <1>6, <1>11, <1>12
\* The firmware's regions without those that are empty.
LEMMA Listed ==
  ASSUME NEW f \in Seq(Regions), Apart(f)
  PROVE  LET m == FlattenSeq([i \in DOMAIN f |-> add_descriptor(<<>>, f[i])])
         IN /\ m \in Seq(Regions) /\ Apart(m) /\ AvailableIn(m) = AvailableIn(f)
            /\ Len(m) <= Len(f)
  <1>1. PICK K \in Nat : K = Len(f) /\ DOMAIN f = 1 .. K
    BY LenProperties
  <1> DEFINE ss == [i \in 1 .. K |-> add_descriptor(<<>>, f[i])]
  <1>2. ASSUME NEW i \in 1 .. K
        PROVE  /\ ss[i] \in Seq(Regions) /\ Within(ss[i], f[i]) /\ AvailableIn(ss[i]) = Avail(f[i])
               /\ Len(ss[i]) <= 1
    <2>1. f[i] \in Regions
      BY <1>1, ElementOfSeq
    <2>2. CASE f[i].length = 0
      <3>1. ss[i] = <<>>
        BY <2>2 DEF add_descriptor
      <3>2. Bytes(f[i]) = {}
        BY <2>1, <2>2 DEF Bytes, End, Regions
      <3> HIDE DEF ss
      <3>3. Avail(f[i]) = {}
        BY <3>2 DEF Avail
      <3>4. Len(ss[i]) = 0
        BY <3>1
      <3> QED BY <3>1, <3>2, <3>3, <3>4, NoPiece DEF Within
    <2>3. CASE f[i].length # 0
      <3>1. ss[i] = <<f[i]>>
        BY <2>3 DEF add_descriptor
      <3> HIDE DEF ss
      <3>2. Len(ss[i]) = 1
        BY <3>1
      <3> QED BY <2>1, <3>1, <3>2, OnePiece DEF Within
    <2> QED BY <2>2, <2>3
  <1>3. PiecesOf(ss, f, K, K + 1)
    <2>1. ss = [i \in 1 .. K |-> ss[i]]
      OBVIOUS
    <2> HIDE DEF ss
    <2>2. ss \in [1 .. K -> Seq(Regions)]
      BY <2>1, <1>2
    <2>3. \A i, j \in 1 .. K : i # j => Bytes(f[i]) \cap Bytes(f[j]) = {}
      BY <1>1 DEF Apart
    <2>4. \A i \in 1 .. K : Len(ss[i]) <= IF i = K + 1 THEN 2 ELSE 1
      <3>1. \A i \in 1 .. K : i # K + 1
        OBVIOUS
      <3> QED BY <3>1, <1>2
    <2> QED BY <2>2, <2>3, <2>4, <1>2 DEF PiecesOf
  <1> HIDE DEF ss
  <1>4. /\ FlattenSeq(ss) \in Seq(Regions) /\ Apart(FlattenSeq(ss))
        /\ AvailableIn(FlattenSeq(ss)) = UNION {AvailableIn(ss[i]) : i \in 1 .. K}
        /\ Len(FlattenSeq(ss)) <= K
    <2>1. K + 1 \in Nat /\ K + 1 > K
      OBVIOUS
    <2> QED BY <1>3, <2>1, Pieces
  <1>5. AvailableIn(f) = UNION {AvailableIn(ss[i]) : i \in 1 .. K}
    BY <1>1, <1>2, AvailableAre
  <1>6. FlattenSeq([i \in DOMAIN f |-> add_descriptor(<<>>, f[i])]) = FlattenSeq(ss)
    BY <1>1 DEF ss
  <1> QED BY <1>1, <1>4, <1>5, <1>6

\* The region memory_map_allocate takes memory from.
LEMMA FirstFitIs ==
  ASSUME NEW m \in Seq(Regions), NEW size \in Nat, FirstFit(m, size) # 0
  PROVE  /\ FirstFit(m, size) \in DOMAIN m
         /\ m[FirstFit(m, size)].type = "available" /\ m[FirstFit(m, size)].length >= size
  <1> DEFINE I == {i \in 1 .. Len(m) : m[i].type = "available" /\ m[i].length >= size}
  <1>1. FirstFit(m, size) = IF I # {} THEN Min(I) ELSE 0
    BY DEF FirstFit, SelectInSeq
  <1>2. I # {} /\ FirstFit(m, size) = Min(I)
    BY <1>1
  <1>3. I \in SUBSET Nat
    OBVIOUS
  <1>4. PICK n \in I : \A k \in I : n <= k
    <2> HIDE DEF I
    <2> QED BY <1>2, <1>3, Least
  <1>5. Min(I) \in I
    <2> HIDE DEF I
    <2> QED BY <1>4 DEF Min
  <1> QED BY <1>2, <1>5, LenProperties

LEMMA RegionIs ==
  ASSUME NEW b \in Nat, NEW n \in Nat, NEW type \in {"available", "reserved"}
  PROVE  /\ Region(b, n, type) \in Regions /\ Bytes(Region(b, n, type)) = b .. (b + n) - 1
         /\ Region(b, n, type).type = type /\ Region(b, n, type).length = n
  BY DEF Region, Regions, Bytes, End

\* Memory is taken from an available region, and once: no byte of it is
\* available afterwards.
LEMMA Allocated ==
  ASSUME NEW m \in Seq(Regions), Apart(m), NEW size \in Nat \ {0}
  PROVE  LET n == AfterAllocate(m, size)
             start == memory_map_allocate(m, size)
         IN /\ n \in Seq(Regions) /\ Apart(n) /\ Len(n) <= Len(m) + 1
            /\ AvailableIn(n) \subseteq AvailableIn(m)
            /\ start \in Nat
            /\ start > 0 => start .. (start + size) - 1 \subseteq AvailableIn(m) \ AvailableIn(n)
  <1> DEFINE i == FirstFit(m, size)
  <1>1. CASE i = 0
    <2>1. AfterAllocate(m, size) = m /\ memory_map_allocate(m, size) = 0
      BY <1>1 DEF AfterAllocate, memory_map_allocate
    <2>2. Len(m) <= Len(m) + 1
      BY LenProperties
    <2> QED BY <2>1, <2>2
  <1>2. CASE i # 0
    <2>1. i \in DOMAIN m /\ m[i].type = "available" /\ m[i].length >= size
      BY <1>2, FirstFitIs
    <2> HIDE DEF i
    <2>2. m[i] \in Regions /\ i \in 1 .. Len(m) /\ DOMAIN m = 1 .. Len(m)
      BY <2>1, LenProperties, ElementOfSeq
    <2>3. PICK b \in Nat, l \in Nat : b = m[i].base_addr /\ l = m[i].length
      BY <2>2 DEF Regions
    <2>4. PICK k \in Nat : k + size = l
      <3>1. l >= size
        BY <2>1, <2>3
      <3> QED BY <3>1
    <2>5. End(m[i]) = b + l /\ Bytes(m[i]) = b .. (b + l) - 1
      <3>1. End(m[i]) = b + l
        BY <2>3, Zenon DEF End
      <3>2. Bytes(m[i]) = m[i].base_addr .. End(m[i]) - 1
        BY DEF Bytes
      <3>3. m[i].base_addr = b
        BY <2>3
      <3> QED BY <3>1, <3>2, <3>3, Zenon
    <2>25. k = l - size /\ (b + l) - size = b + k /\ (b + k) + size = b + l
      BY <2>4
    <2> DEFINE new == Region(b, k, "available")
               t == Region(b + k, size, "reserved")
               s == Shortened(m, i, size)
    <2>6. new \in Regions /\ Bytes(new) = b .. (b + k) - 1 /\ new.type = "available"
      BY RegionIs
    <2>7. t \in Regions /\ Bytes(t) = b + k .. (b + l) - 1 /\ t.type = "reserved" /\ t.length = size
      <3>1. PICK c \in Nat : c = b + k /\ (c + size) - 1 = (b + l) - 1
        BY <2>4
      <3>2. size \in Nat
        OBVIOUS
      <3>3. /\ Region(c, size, "reserved") \in Regions
            /\ Bytes(Region(c, size, "reserved")) = c .. (c + size) - 1
            /\ Region(c, size, "reserved").type = "reserved"
            /\ Region(c, size, "reserved").length = size
        BY <3>2, RegionIs
      <3> QED BY <3>1, <3>3, Zenon
    <2>8. s = [m EXCEPT ![i] = new]
      <3>1. [m[i] EXCEPT !.length = @ - size] = new
        <4>1. ASSUME NEW d \in Regions, d.type = "available"
              PROVE  [d EXCEPT !.length = k] = Region(d.base_addr, k, "available")
          <5>1. d = [base_addr |-> d.base_addr, length |-> d.length, type |-> "available"]
            BY <4>1 DEF Regions
          <5>2. \A x, y : [[base_addr |-> x, length |-> y, type |-> "available"] EXCEPT !.length = k]
                            = [base_addr |-> x, length |-> k, type |-> "available"]
            OBVIOUS
          <5> QED BY <5>1, <5>2, Zenon DEF Region
        <4>2. [m[i] EXCEPT !.length = @ - size] = [m[i] EXCEPT !.length = k]
          BY <2>3, <2>25
        <4> QED BY <2>1, <2>2, <2>3, <4>1, <4>2
      <3> HIDE DEF new
      <3> QED BY <3>1 DEF Shortened
    <2>9. AfterAllocate(m, size) = Append(s, t)
      <3>1. End(m[i]) - size = b + k
        BY <2>5, <2>25
      <3>2. AfterAllocate(m, size) = add_descriptor(s, t)
        BY <3>1, <1>2, Zenon DEF AfterAllocate, i
      <3> HIDE DEF s, t
      <3> QED BY <3>2, <2>7 DEF add_descriptor
    <2>10. memory_map_allocate(m, size) = b + k
      <3>1. End(m[i]) - size = b + k
        BY <2>5, <2>25
      <3> QED BY <3>1, <1>2, Zenon DEF memory_map_allocate, i
    <2> HIDE DEF new, t, s
    <2>11. /\ s \in Seq(Regions) /\ Len(s) = Len(m)
           /\ \A j \in 1 .. Len(m) : s[j] = IF j = i THEN new ELSE m[j]
      BY <2>2, <2>6, <2>8, ExceptSeq
    <2>12. DOMAIN s = DOMAIN m /\ \A j \in DOMAIN m : s[j] = IF j = i THEN new ELSE m[j]
      BY <2>2, <2>11, LenProperties
    <2>13. Bytes(new) \subseteq Bytes(m[i]) /\ Bytes(t) \subseteq Bytes(m[i])
           /\ Bytes(new) \cap Bytes(t) = {}
      <3>1. (b + k) - 1 <= (b + l) - 1
        BY <2>4
      <3> QED BY <3>1, <2>5, <2>6, <2>7
    <2>14. \A j \in DOMAIN m : Bytes(s[j]) \subseteq Bytes(m[j])
      BY <2>12, <2>13
    <2>15. Apart(s)
      BY <2>12, <2>14 DEF Apart
    <2>16. Covered(s) \cap Bytes(t) = {}
      <3> SUFFICES ASSUME NEW j \in DOMAIN m PROVE Bytes(s[j]) \cap Bytes(t) = {}
        BY <2>12 DEF Covered
      <3>1. CASE j = i
        BY <3>1, <2>12, <2>13
      <3>2. CASE j # i
        <4>1. Bytes(m[j]) \cap Bytes(m[i]) = {}
          BY <3>2, <2>1 DEF Apart
        <4> QED BY <4>1, <2>13, <2>14
      <3> QED BY <3>1, <3>2
    <2>17. /\ <<t>> \in Seq(Regions) /\ Len(<<t>>) = 1 /\ Apart(<<t>>)
           /\ Covered(<<t>>) = Bytes(t) /\ AvailableIn(<<t>>) = {}
      BY <2>7, OnePiece DEF Avail
    <2> DEFINE n == s \o <<t>>
    <2>18. Append(s, t) = n
      BY <2>11, <2>7, AppendIsConcat
    <2>19. /\ n \in Seq(Regions) /\ Len(n) = Len(s) + 1 /\ Apart(n)
           /\ AvailableIn(n) = AvailableIn(s) \cup {}
      <3>1. s \in Seq(Regions) /\ <<t>> \in Seq(Regions) /\ Covered(s) \cap Covered(<<t>>) = {}
        BY <2>11, <2>16, <2>17
      <3> HIDE DEF n
      <3>2. /\ n \in Seq(Regions) /\ Len(n) = Len(s) + Len(<<t>>) /\ Apart(n)
            /\ AvailableIn(n) = AvailableIn(s) \cup AvailableIn(<<t>>)
        BY <3>1, <2>15, <2>17, PutBehind DEF n
      <3> QED BY <3>2, <2>17
    <2> HIDE DEF n
    <2>20. /\ AvailableIn(s) \subseteq AvailableIn(m)
           /\ AvailableIn(s) \subseteq Covered(s)
      <3>1. \A j \in DOMAIN m : Avail(s[j]) \subseteq Avail(m[j])
        BY <2>1, <2>6, <2>12, <2>14 DEF Avail
      <3>2. AvailableIn(s) \subseteq AvailableIn(m)
        BY <3>1, <2>12, AvailableAre
      <3>3. AvailableIn(s) \subseteq Covered(s)
        BY DEF AvailableIn, Covered
      <3> QED BY <3>2, <3>3
    <2>21. Bytes(m[i]) \subseteq AvailableIn(m)
      BY <2>1 DEF AvailableIn
    <2>22. b + k \in Nat /\ Bytes(t) = b + k .. ((b + k) + size) - 1
      BY <2>7, <2>25
    <2>23. Bytes(t) \subseteq AvailableIn(m) \ AvailableIn(n)
      BY <2>13, <2>16, <2>19, <2>20, <2>21
    <2>24. Len(n) <= Len(m) + 1
      BY <2>11, <2>19, LenProperties
    <2> QED BY <2>9, <2>10, <2>18, <2>19, <2>20, <2>22, <2>23, <2>24
  <1> QED BY <1>1, <1>2
-----------------------------------------------------------------------------
(* Sizes, pages and maxima *)

LEMMA Division ==
  ASSUME NEW a \in Nat, NEW n \in Nat \ {0}
  PROVE  /\ a \div n \in Nat /\ a % n \in Nat /\ a % n < n
         /\ a = (a \div n) * n + (a % n)
  OBVIOUS

LEMMA Monotone ==
  ASSUME NEW a \in Int, NEW b \in Int, NEW n \in Nat \ {0}
  PROVE  /\ a * n \in Int /\ b * n \in Int
         /\ a <= b <=> a * n <= b * n
         /\ (a + 1) * n = a * n + n
  <1>1. a * n \in Int /\ b * n \in Int /\ (a + 1) * n = a * n + n
    OBVIOUS
  <1>2. ASSUME a <= b PROVE a * n <= b * n
    <2>1. PICK c \in Nat : b = a + c
      BY <1>2
    <2>2. b * n = a * n + c * n /\ c * n >= 0
      BY <2>1
    <2> QED BY <2>2
  <1>3. ASSUME a > b PROVE a * n > b * n
    <2>1. PICK c \in Nat : a = (b + 1) + c
      BY <1>3
    <2>2. a * n = b * n + n + c * n /\ c * n >= 0
      BY <2>1
    <2> QED BY <2>2
  <1> QED BY <1>1, <1>2, <1>3

\* A set of numbers up to K has a greatest element.
LEMMA Greatest ==
  ASSUME NEW K \in Nat, NEW S \in SUBSET (0 .. K), S # {}
  PROVE  Max(S) \in S
  <1> DEFINE T == {n \in Nat : \E m \in S : n + m = K}
  <1>1. T # {}
    <2>1. PICK m \in S : TRUE
      OBVIOUS
    <2>2. PICK n \in Nat : n + m = K
      <3>1. m \in 0 .. K
        OBVIOUS
      <3>2. K - m \in Nat /\ (K - m) + m = K
        BY <3>1
      <3> QED BY <3>2
    <2> QED BY <2>2
  <1>2. PICK n \in T : \A k \in T : n <= k
    <2> HIDE DEF T
    <2>1. T \in SUBSET Nat
      BY DEF T
    <2> QED BY <1>1, <2>1, Least
  <1>3. PICK m \in S : n + m = K
    OBVIOUS
  <1>4. \A l \in S : m >= l
    <2> SUFFICES ASSUME NEW l \in S PROVE m >= l
      OBVIOUS
    <2>1. m \in 0 .. K /\ l \in 0 .. K /\ n \in Nat
      OBVIOUS
    <2>2. K - l \in T
      BY <2>1
    <2>3. n <= K - l
      BY <1>2, <2>2
    <2> QED BY <2>1, <2>3, <1>3
  <1> QED BY <1>4 DEF Max

\* The size of memory is a number that no region lies behind, and one ends at.
LEMMA MemorySize ==
  ASSUME NEW m \in Seq(Regions)
  PROVE  /\ get_memory_size(m) \in Nat
         /\ \A i \in DOMAIN m : End(m[i]) <= get_memory_size(m)
         /\ get_memory_size(m) = 0 \/ \E i \in DOMAIN m : get_memory_size(m) = End(m[i])
  <1>1. PICK K \in Nat : K = Len(m) /\ DOMAIN m = 1 .. K
    BY LenProperties
  <1>2. \A i \in 1 .. K : End(m[i]) \in Nat
    <2>1. \A d \in Regions : End(d) \in Nat
      BY DEF Regions, End
    <2> QED BY <1>1, <2>1, ElementOfSeq
  <1> DEFINE Good(n) == \E e \in Nat : /\ \A i \in 1 .. n : End(m[i]) <= e
                                       /\ e = 0 \/ \E i \in 1 .. n : e = End(m[i])
             S == {n \in Nat : n <= K => Good(n)}
  <1>3. 0 \in S
    OBVIOUS
  <1>4. ASSUME NEW n \in S PROVE n + 1 \in S
    <2>1. n \in Nat /\ (n <= K => Good(n))
      OBVIOUS
    <2>2. ASSUME n + 1 <= K PROVE Good(n + 1)
      <3>0. n \in Nat
        BY <2>1
      <3>1. PICK k \in Nat : k = n + 1 /\ k \in 1 .. K /\ n <= K
        <4> HIDE DEF S, Good
        <4> QED BY <3>0, <2>2
      <3>2. PICK e \in Nat : /\ \A i \in 1 .. n : End(m[i]) <= e
                             /\ e = 0 \/ \E i \in 1 .. n : e = End(m[i])
        BY <2>1, <3>1
      <3>3. \A i \in 1 .. k : i \in 1 .. n \/ i = k
        <4> HIDE DEF S, Good
        <4> QED BY <3>0, <3>1
      <3>4. \A i \in 1 .. n : i \in 1 .. k
        <4> HIDE DEF S, Good
        <4> QED BY <3>0, <3>1
      <3>5. PICK f \in Nat : f = End(m[k])
        BY <1>2, <3>1
      <3>6. k \in 1 .. k
        BY <3>1
      <3>7. CASE f <= e
        <4>1. \A i \in 1 .. k : End(m[i]) <= e
          BY <3>2, <3>3, <3>5, <3>7
        <4>2. e = 0 \/ \E i \in 1 .. k : e = End(m[i])
          BY <3>2, <3>4
        <4>3. Good(k)
          BY <4>1, <4>2
        <4> QED BY <3>1, <4>3
      <3>8. CASE ~ (f <= e)
        <4>1. \A i \in 1 .. k : End(m[i]) <= f
          <5> SUFFICES ASSUME NEW i \in 1 .. k PROVE End(m[i]) <= f
            OBVIOUS
          <5>1. CASE i = k
            BY <5>1, <3>5
          <5>2. CASE i \in 1 .. n
            <6>1. End(m[i]) <= e /\ End(m[i]) \in Nat
              <7>1. i \in 1 .. K
                BY <5>2, <3>0, <3>1
              <7> QED BY <7>1, <5>2, <3>2, <1>2
            <6> QED BY <6>1, <3>8
          <5> QED BY <5>1, <5>2, <3>3
        <4>2. Good(k)
          BY <4>1, <3>5, <3>6
        <4> QED BY <3>1, <4>2
      <3> QED BY <3>7, <3>8
    <2> HIDE DEF Good
    <2> QED BY <2>1, <2>2
  <1>5. S = Nat
    <2> HIDE DEF S
    <2>1. S \in SUBSET Nat
      BY DEF S
    <2> QED BY <1>3, <1>4, <2>1, SetInduction
  <1>6. Good(K)
    <2>1. K <= K
      OBVIOUS
    <2>2. K \in S
      <3> HIDE DEF S
      <3> QED BY <1>5
    <2> HIDE DEF Good
    <2> QED BY <2>1, <2>2
  <1>7. PICK e \in Nat : /\ \A i \in 1 .. K : End(m[i]) <= e
                         /\ e = 0 \/ \E i \in 1 .. K : e = End(m[i])
    BY <1>6
  <1> DEFINE X == {0} \cup {End(m[i]) : i \in DOMAIN m}
  <1>8. X \in SUBSET Nat /\ e \in X /\ \A x \in X : e >= x
    BY <1>1, <1>2, <1>7
  <1>9. get_memory_size(m) = Max(X)
    BY DEF get_memory_size
  <1> HIDE DEF X, S, Good
  <1>10. Max(X) \in X /\ \A x \in X : Max(X) >= x
    BY <1>8 DEF Max
  <1>11. Max(X) \in Nat
    BY <1>8, <1>10
  <1>12. ASSUME NEW i \in DOMAIN m PROVE End(m[i]) <= Max(X)
    <2>1. End(m[i]) \in X
      BY DEF X
    <2> QED BY <2>1, <1>8, <1>10, <1>11
  <1>13. Max(X) = 0 \/ \E i \in DOMAIN m : Max(X) = End(m[i])
    BY <1>10 DEF X
  <1> QED BY <1>9, <1>11, <1>12, <1>13

\* The pages init_buddy takes from a region are those that lie in it.
LEMMA PagesInAre ==
  ASSUME NEW d \in Regions
  PROVE  PagesIn(d) = {p \in Nat : PageBytes(p) \subseteq Bytes(d)}
  <1>1. PICK P \in Nat \ {0} : P = PageSize
    BY SizeAssumption
  <1>2. PICK b \in Nat, l \in Nat : b = d.base_addr /\ l = d.length
    BY DEF Regions
  <1>3. PICK e \in Nat : e = b + l /\ e = End(d)
    BY <1>2 DEF End
  <1>4. PICK q \in Nat, r \in Nat : q = b \div P /\ r = b % P /\ r < P /\ b = q * P + r
    BY Division
  <1>5. PICK n \in Nat : n = IF r = 0 THEN q ELSE q + 1
    OBVIOUS
  <1>6. n * P >= b /\ b > (n - 1) * P
    <2>1. q * P \in Nat /\ (q + 1) * P = q * P + P /\ (q - 1) * P = q * P - P
      OBVIOUS
    <2>2. CASE r = 0
      BY <2>1, <2>2, <1>4, <1>5
    <2>3. CASE r # 0
      BY <2>1, <2>3, <1>4, <1>5
    <2> QED BY <2>2, <2>3
  <1>7. PagesIn(d) = {p \in n .. e : (p + 1) * P <= e}
    BY <1>1, <1>2, <1>3, <1>4, <1>5, Zenon DEF PagesIn
  <1>8. Bytes(d) = b .. e - 1
    BY <1>2, <1>3 DEF Bytes
  <1>9. ASSUME NEW p \in Nat
        PROVE  p \in n .. e /\ (p + 1) * P <= e <=> PageBytes(p) \subseteq Bytes(d)
    <2>1. PICK s \in Nat : s = p * P /\ (p + 1) * P = s + P
      OBVIOUS
    <2>2. PageBytes(p) = s .. (s + P) - 1
      BY <1>1, <2>1 DEF PageBytes
    <2>3. p <= s
      <3>1. p * 1 <= p * P
        OBVIOUS
      <3> QED BY <2>1, <3>1
    <2>4. n <= p <=> s >= b
      <3>1. ASSUME n <= p PROVE s >= b
        <4>1. n * P <= p * P
          BY <3>1, Monotone
        <4> QED BY <4>1, <1>6, <2>1
      <3>2. ASSUME s >= b PROVE n <= p
        <4>1. ~ (p * P <= (n - 1) * P)
          BY <3>2, <1>6, <2>1
        <4>2. ~ (p <= n - 1)
          BY <4>1, Monotone
        <4> QED BY <4>2
      <3> QED BY <3>1, <3>2
    <2>5. s .. (s + P) - 1 \subseteq b .. e - 1 <=> s >= b /\ s + P <= e
      <3>1. ASSUME s .. (s + P) - 1 \subseteq b .. e - 1 PROVE s >= b /\ s + P <= e
        <4>1. s \in s .. (s + P) - 1 /\ (s + P) - 1 \in s .. (s + P) - 1
          OBVIOUS
        <4>2. s \in b .. e - 1 /\ (s + P) - 1 \in b .. e - 1
          BY <3>1, <4>1
        <4> QED BY <4>2
      <3>2. ASSUME s >= b /\ s + P <= e PROVE s .. (s + P) - 1 \subseteq b .. e - 1
        BY <3>2
      <3> QED BY <3>1, <3>2
    <2>6. p \in n .. e /\ s + P <= e <=> s >= b /\ s + P <= e
      BY <2>3, <2>4
    <2> QED BY <2>1, <2>2, <2>5, <2>6, <1>8
  <1>10. \A p \in n .. e : p \in Nat
    OBVIOUS
  <1> QED BY <1>7, <1>9, <1>10
-----------------------------------------------------------------------------
(* main() up to init_paging *)

\* One archive after the other is cut out of the map.
Cuts(c, K) ==
  /\ c[0] = map
  /\ \A n \in 1 .. K : c[n] = IF Archive(modules[n])
                              THEN mark_as_reserved(c[n - 1], modules[n].range) ELSE c[n - 1]

ArchivesTo(n) == {i \in Archives : i <= n}

LEMMA CutOut ==
  ASSUME map \in Seq(Regions), Apart(map), NEW K \in Nat, NEW c, Cuts(c, K),
         modules \in Seq([range : Ranges, magic : BOOLEAN]), Len(modules) = K
  PROVE  /\ c[K] \in Seq(Regions) /\ Apart(c[K])
         /\ AvailableIn(c[K]) = AvailableIn(map) \ ArchiveBytes
         /\ Len(c[K]) <= Len(map) + Cardinality(Archives)
         /\ Cardinality(Archives) \in Nat /\ Archives \in SUBSET (1 .. K)
  <1> DEFINE Good(n) ==
        /\ c[n] \in Seq(Regions) /\ Apart(c[n])
        /\ AvailableIn(c[n]) = AvailableIn(map) \ UNION {Between(modules[i].range) : i \in ArchivesTo(n)}
        /\ IsFiniteSet(ArchivesTo(n))
        /\ Len(c[n]) <= Len(map) + Cardinality(ArchivesTo(n))
             S == {n \in Nat : n <= K => Good(n)}
  <1>1. DOMAIN modules = 1 .. K /\ Archives \in SUBSET (1 .. K)
    BY LenProperties DEF Archives
  <1>2. 0 \in S
    <2>1. ArchivesTo(0) = {}
      <3>1. \A i \in 1 .. K : ~ (i <= 0)
        OBVIOUS
      <3>2. \A i \in Archives : ~ (i <= 0)
        BY <1>1, <3>1
      <3> QED BY <3>2 DEF ArchivesTo
    <2>2. Cardinality({}) = 0 /\ IsFiniteSet({})
      BY FS_EmptySet
    <2>3. c[0] = map
      BY DEF Cuts
    <2>4. Len(map) <= Len(map) + 0
      BY LenProperties
    <2> QED BY <2>1, <2>2, <2>3, <2>4
  <1>3. ASSUME NEW n \in S PROVE n + 1 \in S
    <2>0. n \in Nat /\ (n <= K => Good(n))
      OBVIOUS
    <2>1. n \in Nat
      BY <2>0
    <2>2. ASSUME n + 1 <= K PROVE Good(n + 1)
      <3> HIDE DEF S, Good
      <3>1. PICK k \in Nat : k = n + 1 /\ k - 1 = n /\ k \in 1 .. K /\ n <= K
        BY <2>1, <2>2
      <3>2. /\ c[n] \in Seq(Regions) /\ Apart(c[n])
            /\ AvailableIn(c[n]) = AvailableIn(map)
                                     \ UNION {Between(modules[i].range) : i \in ArchivesTo(n)}
            /\ IsFiniteSet(ArchivesTo(n))
            /\ Len(c[n]) <= Len(map) + Cardinality(ArchivesTo(n))
        BY <2>0, <3>1 DEF Good
      <3>3. PICK a \in Nat : a = Cardinality(ArchivesTo(n))
        BY <3>2, FS_CardinalityType
      <3>4. PICK l \in Nat : l = Len(map)
        BY LenProperties
      <3>5. PICK b \in Nat : b = Len(c[n])
        BY <3>2, LenProperties
      <3>6. b <= l + a
        BY <3>2, <3>3, <3>4, <3>5
      <3>7. CASE Archive(modules[k])
        <4>1. c[k] = mark_as_reserved(c[n], modules[k].range)
          BY <3>1, <3>7 DEF Cuts
        <4>2. modules[k].range \in Ranges
          <5>1. modules[k] \in [range : Ranges, magic : BOOLEAN]
            BY <3>1, ElementOfSeq
          <5> QED BY <5>1
        <4>3. /\ c[k] \in Seq(Regions) /\ Apart(c[k])
              /\ AvailableIn(c[k]) = AvailableIn(c[n]) \ Between(modules[k].range)
              /\ Len(c[k]) <= Len(c[n]) + 1
          <5>1. PICK m \in Seq(Regions), r \in Ranges :
                  m = c[n] /\ r = modules[k].range /\ Apart(m)
            BY <3>2, <4>2
          <5>2. /\ mark_as_reserved(m, r) \in Seq(Regions) /\ Apart(mark_as_reserved(m, r))
                /\ AvailableIn(mark_as_reserved(m, r)) = AvailableIn(m) \ Between(r)
                /\ Len(mark_as_reserved(m, r)) <= Len(m) + 1
            BY <5>1, MarkAsReserved
          <5> QED BY <4>1, <5>1, <5>2
        <4>4. ArchivesTo(k) = ArchivesTo(n) \cup {k} /\ k \notin ArchivesTo(n)
          <5>1. k \in Archives
            BY <1>1, <3>1, <3>7 DEF Archives
          <5>2. \A i \in Archives : i <= k <=> i <= n \/ i = k
            BY <1>1, <2>1, <3>1
          <5>3. ~ (k <= n) /\ k <= k
            BY <2>1, <3>1
          <5> QED BY <5>1, <5>2, <5>3 DEF ArchivesTo
        <4>5. IsFiniteSet(ArchivesTo(k)) /\ Cardinality(ArchivesTo(k)) = a + 1
          BY <3>2, <3>3, <4>4, FS_AddElement
        <4>6. PICK d \in Nat : d = Len(c[k])
          BY <4>3, LenProperties
        <4>7. d <= l + (a + 1)
          <5>1. d <= b + 1
            BY <4>3, <4>6, <3>5
          <5> QED BY <5>1, <3>6
        <4>8. AvailableIn(c[k]) = AvailableIn(map)
                                    \ UNION {Between(modules[i].range) : i \in ArchivesTo(k)}
          BY <3>2, <4>3, <4>4
        <4>9. Good(k)
          BY <4>3, <4>5, <4>6, <4>7, <4>8, <3>4 DEF Good
        <4> QED BY <4>9, <3>1
      <3>8. CASE ~ Archive(modules[k])
        <4>1. c[k] = c[n]
          BY <3>1, <3>8 DEF Cuts
        <4>2. ArchivesTo(k) = ArchivesTo(n)
          <5>1. k \notin Archives
            BY <3>8 DEF Archives
          <5>2. \A i \in Archives : i <= k <=> i <= n \/ i = k
            BY <1>1, <2>1, <3>1
          <5> QED BY <5>1, <5>2 DEF ArchivesTo
        <4>3. Good(k)
          BY <3>2, <4>1, <4>2 DEF Good
        <4> QED BY <4>3, <3>1
      <3> QED BY <3>7, <3>8
    <2> HIDE DEF Good
    <2> QED BY <2>1, <2>2
  <1>4. S = Nat
    <2> HIDE DEF S
    <2>1. S \in SUBSET Nat
      BY DEF S
    <2> QED BY <1>2, <1>3, <2>1, SetInduction
  <1>5. Good(K)
    <2>1. K <= K
      OBVIOUS
    <2>2. K \in S
      <3> HIDE DEF S
      <3> QED BY <1>4
    <2> HIDE DEF Good
    <2> QED BY <2>1, <2>2
  <1>6. ArchivesTo(K) = Archives
    <2>1. \A i \in 1 .. K : i <= K
      OBVIOUS
    <2> QED BY <2>1, <1>1 DEF ArchivesTo
  <1> HIDE DEF S
  <1>7. Cardinality(Archives) \in Nat
    BY <1>5, <1>6, FS_CardinalityType
  <1> QED BY <1>1, <1>5, <1>6, <1>7 DEF ArchiveBytes
Settled == {"init_after_canonical_hole_mapping", "init_kernel_mapping", "fault", "init_pit", "sti", "running"}

\* What no one else may touch, of the memory that may be handed out.
Free == AvailableIn(firmware) \ (Between(kernel) \cup ArchiveBytes)

Counted == Len(firmware) + 1 + (IF initramfs_module = None THEN 0 ELSE Cardinality(Archives))
             + (IF buddy = None THEN 0 ELSE 1) + (IF tables = None THEN 0 ELSE 1)

Inputs ==
  /\ firmware \in Seq(Regions) /\ Apart(firmware)
  /\ kernel \in Ranges
  /\ modules \in Seq([range : Ranges, magic : BOOLEAN])

\* The map is a map, no longer than one region for each cut; after init_buddy
\* what is available in it is free, and neither allocation has a byte of it.
BootInv ==
  /\ Inputs
  /\ phase \in Early \cup Settled
  /\ map \in Seq(Regions) /\ Apart(map) /\ Len(map) <= Counted
  /\ Cardinality(Archives) \in Nat
  /\ phase = "get_memory_map" => map = <<>>
  /\ phase \in {"get_memory_map", "init_initramfs"} => initramfs_module = None
  /\ phase \in {"get_memory_map", "init_initramfs", "init_buddy"} => buddy = None
  /\ phase \notin Settled => tables = None
  /\ phase = "init_initramfs" => AvailableIn(map) = AvailableIn(firmware) \ Between(kernel)
  /\ phase = "init_buddy" => AvailableIn(map) = Free
  /\ phase \in Settled \cup {"init_paging"} =>
       /\ AvailableIn(map) \subseteq Free
       /\ buddy \in Nat \X Nat
       /\ buddy[1] > 0 => Between(buddy) \subseteq Free \ AvailableIn(map)
  /\ phase = "init_paging" =>
       given = UNION {PagesIn(map[i]) : i \in {j \in DOMAIN map : map[j].type = "available"}}
  /\ phase \in Settled =>
       /\ tables \in Nat \X Nat
       /\ tables[1] > 0 => Between(tables) \subseteq Free
       /\ buddy[1] > 0 /\ tables[1] > 0 => Between(buddy) \cap Between(tables) = {}

LEMMA RangesAreNotNone ==
  ASSUME NEW r \in Nat \X Nat
  PROVE  r # None /\ Between(r) = r[1] .. r[2] - 1
  BY NoneAssumption DEF Between

LEMMA BootStart == InterruptsInit => BootInv
  <1> SUFFICES ASSUME InterruptsInit PROVE BootInv
    OBVIOUS
  <1>1. Init
    BY DEF InterruptsInit, PagingInit
  <1>2. /\ phase = "get_memory_map" /\ map = <<>> /\ initramfs_module = None /\ buddy = None
        /\ tables = None /\ firmware \in Firmware /\ kernel \in Kernel /\ modules \in Modules
    BY <1>1 DEF Init
  <1>3. Inputs
    BY <1>2, FirmwareAssumption, KernelAssumption, ModulesAssumption DEF Inputs
  <1>4. map \in Seq(Regions) /\ Apart(map) /\ Len(map) = 0
    BY <1>2, NoPiece
  <1>5. Len(firmware) \in Nat
    BY <1>3, LenProperties DEF Inputs
  <1>6. Len(map) <= Counted
    BY <1>2, <1>4, <1>5 DEF Counted
  <1>7. Cardinality(Archives) \in Nat
    <2>1. DOMAIN modules = 1 .. Len(modules) /\ Len(modules) \in Nat
      BY <1>3, LenProperties DEF Inputs
    <2>2. Archives \in SUBSET (1 .. Len(modules))
      BY <2>1 DEF Archives
    <2>3. IsFiniteSet(1 .. Len(modules))
      BY <2>1, FS_Interval
    <2>4. IsFiniteSet(Archives)
      BY <2>2, <2>3, FS_Subset
    <2> QED BY <2>4, FS_CardinalityType
  <1> QED BY <1>2, <1>3, <1>4, <1>6, <1>7 DEF BootInv, Early, Settled

\* A step that leaves the memory map and what was taken from it alone.
LEMMA SettledKeeps ==
  ASSUME BootInv, UNCHANGED <<firmware, kernel, modules, initramfs_module, map, buddy, given, tables>>,
         phase' = phase \/ (phase \in Settled /\ phase' \in Settled)
  PROVE  BootInv'
  <1>1. Inputs' /\ Counted' = Counted /\ Archives' = Archives /\ Free' = Free
    BY DEF BootInv, Inputs, Counted, Archives, Free, ArchiveBytes
  <1>2. CASE phase' = phase
    BY <1>1, <1>2 DEF BootInv
  <1>3. CASE phase \in Settled /\ phase' \in Settled
    BY <1>1, <1>3 DEF BootInv, Settled
  <1> QED BY <1>2, <1>3

LEMMA GetMemoryMapStep ==
  ASSUME BootInv, get_memory_map
  PROVE  BootInv'
  <1>1. /\ phase = "get_memory_map" /\ phase' = "init_initramfs"
        /\ UNCHANGED <<firmware, kernel, modules, initramfs_module, buddy, given, tables>>
        /\ map' = IF firmware = <<>> THEN map
                  ELSE mark_as_reserved(FlattenSeq([i \in DOMAIN firmware |-> add_descriptor(<<>>, firmware[i])]),
                                        kernel)
    BY DEF get_memory_map
  <1>2. firmware \in Seq(Regions) /\ Apart(firmware) /\ kernel \in Ranges
    BY DEF BootInv, Inputs
  <1> DEFINE m == FlattenSeq([i \in DOMAIN firmware |-> add_descriptor(<<>>, firmware[i])])
  <1>3. /\ m \in Seq(Regions) /\ Apart(m) /\ AvailableIn(m) = AvailableIn(firmware)
        /\ Len(m) <= Len(firmware)
    BY <1>2, Listed
  <1>4. map' = IF firmware = <<>> THEN map ELSE mark_as_reserved(m, kernel)
    BY <1>1
  <1> HIDE DEF m
  <1>5. /\ map' \in Seq(Regions) /\ Apart(map')
        /\ AvailableIn(map') = AvailableIn(m) \ Between(kernel)
        /\ Len(map') <= Len(m) + 1
    <2>1. CASE firmware # <<>>
      BY <2>1, <1>2, <1>3, <1>4, MarkAsReserved
    <2>2. CASE firmware = <<>>
      <3>1. map' = <<>>
        BY <2>2, <1>1, <1>4 DEF BootInv
      <3>2. AvailableIn(m) = {} /\ Len(m) \in Nat
        BY <2>2, <1>3, NoPiece, LenProperties
      <3> QED BY <3>1, <3>2, NoPiece
    <2> QED BY <2>1, <2>2
  <1>6. initramfs_module = None /\ buddy = None /\ tables = None
    BY <1>1 DEF BootInv, Settled
  <1>7. Len(map') <= Len(firmware) + 1
    <2>1. PICK a \in Nat, b \in Nat, c \in Nat : a = Len(map') /\ b = Len(m) /\ c = Len(firmware)
      BY <1>2, <1>3, <1>5, LenProperties
    <2>2. a <= b + 1 /\ b <= c
      BY <1>3, <1>5, <2>1
    <2>3. a <= c + 1
      BY <2>2
    <2> QED BY <2>1, <2>3
  <1>8. Len(map') <= Counted'
    <2>1. Counted' = Len(firmware) + 1 + 0 + 0 + 0
      BY <1>1, <1>6 DEF Counted
    <2>2. Len(firmware) \in Nat
      BY <1>2, LenProperties
    <2> QED BY <1>7, <2>1, <2>2
  <1>9. Inputs' /\ Archives' = Archives /\ Cardinality(Archives) \in Nat
    BY <1>1 DEF BootInv, Inputs, Archives
  <1> QED BY <1>1, <1>3, <1>5, <1>6, <1>8, <1>9 DEF BootInv, Early, Settled

\* The archives are cut out one after the other, as the modules come.
LEMMA ArchivesInOrder ==
  ASSUME BootInv, init_initramfs, NEW K \in Nat, K = Len(modules)
  PROVE  \E c : Cuts(c, K) /\ map' = c[K]
  <1>0. map \in Seq(Regions) /\ Apart(map) /\ modules \in Seq([range : Ranges, magic : BOOLEAN])
    BY DEF BootInv, Inputs
  <1> DEFINE body(u) == [n \in 0 .. K |->
                           IF n = 0 THEN map
                           ELSE IF Archive(modules[n])
                                THEN mark_as_reserved(u[n - 1], modules[n].range) ELSE u[n - 1]]
  <1>1. map' = (CHOOSE u : u = body(u))[K]
    BY Zenon DEF init_initramfs
  <1>2. \E u : u = body(u)
    <2> DEFINE T == {m \in Seq(Regions) : Apart(m)}
               F == [p \in (1 .. K) \X T |->
                       IF Archive(modules[p[1]]) THEN mark_as_reserved(p[2], modules[p[1]].range)
                       ELSE p[2]]
    <2>1. F \in [(1 .. K) \X T -> T]
      <3>1. ASSUME NEW n \in 1 .. K, NEW m \in T
            PROVE  mark_as_reserved(m, modules[n].range) \in T
        <4>1. modules[n] \in [range : Ranges, magic : BOOLEAN]
          BY <1>0, ElementOfSeq
        <4>2. PICK r \in Ranges : r = modules[n].range
          BY <4>1
        <4>3. m \in Seq(Regions) /\ Apart(m)
          OBVIOUS
        <4>4. mark_as_reserved(m, r) \in Seq(Regions) /\ Apart(mark_as_reserved(m, r))
          BY <4>3, MarkAsReserved
        <4> QED BY <4>2, <4>4
      <3> HIDE DEF T
      <3> QED BY <3>1
    <2>2. map \in T
      BY <1>0
    <2> HIDE DEF T, F
    <2>3. PICK w \in [0 .. K -> T] : w[0] = map /\ \A n \in 1 .. K : w[n] = F[<<n, w[n - 1]>>]
      <3>1. Recursive(T)
        BY Recursion
      <3>2. K \in Nat
        OBVIOUS
      <3>3. \A G \in [(1 .. K) \X T -> T] :
              \E w \in [0 .. K -> T] : w[0] = map /\ \A n \in 1 .. K : w[n] = G[<<n, w[n - 1]>>]
        BY <2>2, <3>1, <3>2, ZenonT(30) DEF Recursive
      <3> QED BY <2>1, <3>3, Zenon
    <2>4. \A n \in 1 .. K : w[n] = IF Archive(modules[n])
                                   THEN mark_as_reserved(w[n - 1], modules[n].range) ELSE w[n - 1]
      <3> TAKE n \in 1 .. K
      <3>1. n - 1 \in 0 .. K
        OBVIOUS
      <3>2. <<n, w[n - 1]>> \in (1 .. K) \X T
        BY <3>1
      <3>3. F[<<n, w[n - 1]>>] = IF Archive(modules[n])
                                 THEN mark_as_reserved(w[n - 1], modules[n].range) ELSE w[n - 1]
        BY <3>2 DEF F
      <3> QED BY <2>3, <3>3
    <2>5. w = [n \in 0 .. K |-> w[n]]
      BY <2>3
    <2>6. \A n \in 0 .. K : w[n] = body(w)[n]
      BY <2>3, <2>4
    <2>7. w = body(w)
      <3>1. body(w) = [n \in 0 .. K |-> body(w)[n]]
        OBVIOUS
      <3> HIDE DEF body
      <3> QED BY <2>5, <2>6, <3>1
    <2> HIDE DEF body
    <2> QED BY <2>7
  <1> DEFINE c == CHOOSE u : u = body(u)
  <1>3. c = body(c)
    <2> HIDE DEF body
    <2> QED BY <1>2
  <1>4. map' = c[K]
    BY <1>1
  <1> HIDE DEF c
  <1>5. \A n \in 0 .. K : c[n] = body(c)[n]
    <2> HIDE DEF body
    <2> QED BY <1>3
  <1>6. Cuts(c, K)
    BY <1>5 DEF Cuts
  <1> QED BY <1>4, <1>6

LEMMA InitInitramfsStep ==
  ASSUME BootInv, init_initramfs
  PROVE  BootInv'
  <1>1. /\ phase = "init_initramfs" /\ phase' = "init_buddy"
        /\ UNCHANGED <<firmware, kernel, modules, buddy, given, tables>>
        /\ initramfs_module' = IF Archives = {} THEN None ELSE modules[Max(Archives)].range
    BY DEF init_initramfs
  <1>2. /\ map \in Seq(Regions) /\ Apart(map) /\ Len(map) <= Counted
        /\ modules \in Seq([range : Ranges, magic : BOOLEAN])
        /\ AvailableIn(map) = AvailableIn(firmware) \ Between(kernel)
        /\ firmware \in Seq(Regions)
        /\ initramfs_module = None /\ buddy = None /\ tables = None
    BY <1>1 DEF BootInv, Inputs, Settled
  <1>3. PICK K \in Nat : K = Len(modules)
    BY <1>2, LenProperties
  <1>4. \E c : Cuts(c, K) /\ map' = c[K]
    BY <1>3, ArchivesInOrder
  <1>5. PICK c : Cuts(c, K) /\ map' = c[K]
    BY <1>4
  <1>6. /\ map' \in Seq(Regions) /\ Apart(map')
        /\ AvailableIn(map') = AvailableIn(map) \ ArchiveBytes
        /\ Len(map') <= Len(map) + Cardinality(Archives)
        /\ Cardinality(Archives) \in Nat /\ Archives \in SUBSET (1 .. K)
    BY <1>2, <1>3, <1>5, CutOut
  <1>7. Inputs' /\ Archives' = Archives /\ Free' = Free
    BY <1>1 DEF BootInv, Inputs, Archives, Free, ArchiveBytes
  <1>8. AvailableIn(map') = Free
    BY <1>2, <1>6 DEF Free
  <1>9. Len(map') <= Counted'
    <2>1. PICK f \in Nat, a \in Nat, l \in Nat, k \in Nat :
            f = Len(firmware) /\ a = Cardinality(Archives) /\ l = Len(map) /\ k = Len(map')
      BY <1>2, <1>6, LenProperties
    <2>2. Counted = Len(firmware) + 1 + 0 + 0 + 0
      BY <1>2 DEF Counted
    <2>3. l <= f + 1 /\ k <= l + a
      BY <1>2, <1>6, <2>1, <2>2
    <2>4. CASE Archives = {}
      <3>1. a = 0
        BY <2>1, <2>4, FS_EmptySet
      <3>2. Counted' = Len(firmware) + 1 + 0 + 0 + 0
        BY <1>1, <1>2, <2>4 DEF Counted
      <3> QED BY <2>1, <2>3, <3>1, <3>2
    <2>5. CASE Archives # {}
      <3>1. Max(Archives) \in 1 .. K
        <4>1. Archives \in SUBSET (0 .. K)
          BY <1>6
        <4> QED BY <1>6, <2>5, <4>1, Greatest
      <3>2. modules[Max(Archives)] \in [range : Ranges, magic : BOOLEAN]
        BY <1>2, <1>3, <3>1, ElementOfSeq
      <3>3. initramfs_module' \in Nat \X Nat
        BY <1>1, <2>5, <3>2 DEF Ranges
      <3>4. initramfs_module' # None
        BY <3>3, RangesAreNotNone
      <3>5. Counted' = Len(firmware) + 1 + Cardinality(Archives) + 0 + 0
        BY <1>1, <1>2, <1>7, <3>4 DEF Counted
      <3>6. k <= f + 1 + a + 0 + 0
        BY <2>3
      <3> QED BY <2>1, <3>5, <3>6
    <2> QED BY <2>4, <2>5
  <1> QED BY <1>1, <1>2, <1>6, <1>7, <1>8, <1>9 DEF BootInv, Early, Settled

\* What a step of init_buddy and init_paging does to the map and gets from it.
LEMMA SetApart ==
  ASSUME BootInv, NEW size \in Nat \ {0}, map' = AfterAllocate(map, size),
         NEW range, range = <<memory_map_allocate(map, size), memory_map_allocate(map, size) + size>>
  PROVE  /\ map' \in Seq(Regions) /\ Apart(map') /\ Len(map') <= Counted + 1
         /\ AvailableIn(map') \subseteq AvailableIn(map)
         /\ range \in Nat \X Nat /\ range # None
         /\ range[1] > 0 => Between(range) \subseteq AvailableIn(map) \ AvailableIn(map')
  <1>1. map \in Seq(Regions) /\ Apart(map) /\ Len(map) <= Counted
    BY DEF BootInv
  <1>2. PICK start \in Nat, m \in Seq(Regions) :
          start = memory_map_allocate(map, size) /\ m = AfterAllocate(map, size)
    BY <1>1, Allocated
  <1>3. /\ m \in Seq(Regions) /\ Apart(m) /\ Len(m) <= Len(map) + 1
        /\ AvailableIn(m) \subseteq AvailableIn(map)
        /\ start > 0 => start .. (start + size) - 1 \subseteq AvailableIn(map) \ AvailableIn(m)
    BY <1>1, <1>2, Allocated
  <1>4. range = <<start, start + size>> /\ map' = m
    BY <1>2
  <1>5. range \in Nat \X Nat /\ range[1] = start /\ range[2] = start + size
    BY <1>4
  <1>6. range # None /\ Between(range) = start .. (start + size) - 1
    BY <1>5, RangesAreNotNone
  <1>7. Len(m) <= Counted + 1
    <2>1. PICK a \in Nat, b \in Nat : a = Len(map) /\ b = Len(m)
      BY <1>1, <1>3, LenProperties
    <2>2. Counted \in Int
      <3>1. Len(firmware) \in Nat /\ Cardinality(Archives) \in Nat
        BY LenProperties DEF BootInv, Inputs
      <3> QED BY <3>1 DEF Counted
    <2> QED BY <1>1, <1>3, <2>1, <2>2
  <1> QED BY <1>3, <1>4, <1>5, <1>6, <1>7

LEMMA Rounding ==
  ASSUME NEW a \in Nat, NEW n \in Nat \ {0}
  PROVE  /\ div_up(a, n) \in Nat /\ div_up(a, n) * n >= a /\ (a > 0 => div_up(a, n) > 0)
         /\ div_up(a, n) > 0 => (div_up(a, n) - 1) * n < a
  <1>1. PICK q \in Nat, r \in Nat : q = a \div n /\ r = a % n /\ r < n /\ a = q * n + r
    BY Division
  <1>2. div_up(a, n) = IF r = 0 THEN q ELSE q + 1
    BY <1>1 DEF div_up
  <1>3. (q + 1) * n = q * n + n /\ (q - 1) * n = q * n - n /\ q * n \in Nat /\ (q + 1) - 1 = q
    OBVIOUS
  <1>4. CASE r = 0
    <2>1. a > 0 => q # 0
      BY <1>1, <1>4
    <2>2. (q - 1) * n < a
      BY <1>1, <1>3, <1>4
    <2>3. q * n >= a
      BY <1>1, <1>4
    <2>4. div_up(a, n) = q
      BY <1>2, <1>4
    <2> QED BY <2>1, <2>2, <2>3, <2>4
  <1>5. CASE r # 0
    <2>1. (q + 1) * n >= a /\ ((q + 1) - 1) * n < a
      BY <1>1, <1>3, <1>5
    <2>2. div_up(a, n) = q + 1
      BY <1>2, <1>5
    <2> QED BY <2>1, <2>2
  <1> QED BY <1>4, <1>5

\* The sizes asked for by init_buddy and init_paging are positive.
LEMMA Asked ==
  ASSUME NEW m \in Seq(Regions)
  PROVE  /\ HeadBytes + DescriptorBytes * (get_memory_size(m) \div PageSize) \in Nat \ {0}
         /\ (div_up(KernelSize, BigPage) + div_up(get_memory_size(m), BigPage)) * PageSize * 2
              \in Nat \ {0}
         /\ div_up(KernelSize, BigPage) \in Nat \ {0} /\ div_up(get_memory_size(m), BigPage) \in Nat
  <1>1. PICK z \in Nat, P \in Nat \ {0} : z = get_memory_size(m) /\ P = PageSize
    BY MemorySize, SizeAssumption
  <1>2. HeadBytes + DescriptorBytes * (get_memory_size(m) \div PageSize) \in Nat \ {0}
    <2>1. PICK q \in Nat : q = z \div P
      BY Division
    <2>2. PICK h \in Nat \ {0}, d \in Nat : h = HeadBytes /\ d = DescriptorBytes
      BY SizeAssumption
    <2>3. d * q \in Nat
      OBVIOUS
    <2>4. h + d * q \in Nat \ {0}
      BY <2>3
    <2> QED BY <1>1, <2>1, <2>2, <2>4
  <1>3. PICK k \in Nat \ {0}, d \in Nat : k = div_up(KernelSize, BigPage) /\ d = div_up(z, BigPage)
    <2>1. PICK B \in Nat \ {0}, y \in Nat \ {0} : B = BigPage /\ y = KernelSize
      BY SizeAssumption
    <2>2. y \in Nat /\ y > 0
      OBVIOUS
    <2>3. div_up(y, B) \in Nat /\ div_up(y, B) > 0
      BY <2>2, Rounding
    <2>4. div_up(z, B) \in Nat
      BY Rounding
    <2> QED BY <2>1, <2>3, <2>4
  <1>4. (k + d) * P * 2 \in Nat \ {0}
    <2>1. k + d >= 1 /\ k + d \in Nat
      OBVIOUS
    <2>2. 1 * P <= (k + d) * P /\ (k + d) * P \in Nat
      BY <2>1, Monotone
    <2> QED BY <2>2
  <1> QED BY <1>1, <1>2, <1>3, <1>4

LEMMA InitBuddyStep ==
  ASSUME BootInv, init_buddy
  PROVE  BootInv'
  <1> DEFINE size == HeadBytes + DescriptorBytes * (get_memory_size(map) \div PageSize)
             start == memory_map_allocate(map, size)
  <1>1. /\ phase = "init_buddy" /\ phase' = "init_paging"
        /\ UNCHANGED <<firmware, kernel, modules, initramfs_module, tables>>
        /\ map' = AfterAllocate(map, size) /\ buddy' = <<start, start + size>>
        /\ given' = UNION {PagesIn(map'[i]) : i \in {j \in DOMAIN map' : map'[j].type = "available"}}
    BY DEF init_buddy
  <1>2. size \in Nat \ {0}
    BY Asked DEF BootInv
  <1> HIDE DEF size
  <1>3. /\ map' \in Seq(Regions) /\ Apart(map') /\ Len(map') <= Counted + 1
        /\ AvailableIn(map') \subseteq AvailableIn(map)
        /\ buddy' \in Nat \X Nat /\ buddy' # None
        /\ buddy'[1] > 0 => Between(buddy') \subseteq AvailableIn(map) \ AvailableIn(map')
    BY <1>1, <1>2, SetApart
  <1>4. /\ buddy = None /\ tables = None /\ tables' = None /\ AvailableIn(map) = Free
        /\ Len(firmware) \in Nat /\ Cardinality(Archives) \in Nat
    BY <1>1, LenProperties DEF BootInv, Inputs, Settled
  <1>5. /\ Inputs' /\ Archives' = Archives /\ Free' = Free
        /\ Counted' = Counted + 1
    BY <1>1, <1>3, <1>4 DEF BootInv, Inputs, Archives, Free, ArchiveBytes, Counted
  <1> QED BY <1>1, <1>3, <1>4, <1>5, Zenon DEF BootInv, Early, Settled

LEMMA InitPagingStep ==
  ASSUME BootInv, init_paging
  PROVE  BootInv'
  <1> DEFINE size == (div_up(KernelSize, BigPage) + div_up(get_memory_size(map), BigPage))
                       * PageSize * 2
             start == memory_map_allocate(map, size)
  <1>1. /\ phase = "init_paging" /\ phase' = "init_after_canonical_hole_mapping"
        /\ UNCHANGED <<firmware, kernel, modules, initramfs_module, buddy, given>>
        /\ map' = AfterAllocate(map, size) /\ tables' = <<start, start + size>>
    BY DEF init_paging
  <1>2. size \in Nat \ {0}
    BY Asked DEF BootInv
  <1> HIDE DEF size
  <1>3. /\ map' \in Seq(Regions) /\ Apart(map') /\ Len(map') <= Counted + 1
        /\ AvailableIn(map') \subseteq AvailableIn(map)
        /\ tables' \in Nat \X Nat /\ tables' # None
        /\ tables'[1] > 0 => Between(tables') \subseteq AvailableIn(map) \ AvailableIn(map')
    BY <1>1, <1>2, SetApart
  <1>4. /\ buddy \in Nat \X Nat /\ buddy # None /\ tables = None /\ AvailableIn(map) \subseteq Free
        /\ buddy[1] > 0 => Between(buddy) \subseteq Free \ AvailableIn(map)
        /\ Len(firmware) \in Nat /\ Cardinality(Archives) \in Nat
    BY <1>1, LenProperties, RangesAreNotNone DEF BootInv, Inputs, Settled
  <1>5. /\ Inputs' /\ Archives' = Archives /\ Free' = Free
        /\ Counted' = Counted + 1
    BY <1>1, <1>3, <1>4 DEF BootInv, Inputs, Archives, Free, ArchiveBytes, Counted
  <1>6. AvailableIn(map') \subseteq Free
    BY <1>3, <1>4
  <1>7. buddy'[1] > 0 => Between(buddy') \subseteq Free \ AvailableIn(map')
    BY <1>1, <1>3, <1>4
  <1>8. tables'[1] > 0 => Between(tables') \subseteq Free
    BY <1>3, <1>4
  <1>9. buddy'[1] > 0 /\ tables'[1] > 0 => Between(buddy') \cap Between(tables') = {}
    BY <1>1, <1>3, <1>4
  <1>10. phase' \in Settled /\ phase' \in Early \cup Settled
    BY <1>1 DEF Settled
  <1> QED BY <1>1, <1>3, <1>4, <1>5, <1>6, <1>7, <1>8, <1>9, <1>10, Zenon DEF BootInv, Settled

LEMMA BootStep ==
  ASSUME BootInv, [InterruptsNext]_<<vars, paging, interrupts>>
  PROVE  BootInv'
  <1> DEFINE Untouched == UNCHANGED <<firmware, kernel, modules, initramfs_module, map, buddy, given, tables>>
  <1>1. CASE Starting
    BY <1>1, GetMemoryMapStep, InitInitramfsStep, InitBuddyStep DEF Starting
  <1>2. CASE SetAside
    BY <1>2, InitPagingStep DEF SetAside
  <1>3. CASE init_after_canonical_hole_mapping \/ init_kernel_mapping
    <2>1. Untouched /\ (phase' = phase \/ (phase \in Settled /\ phase' \in Settled))
      <3>1. ASSUME NEW base, NEW end, NEW next \in {"init_kernel_mapping", "init_pit"},
                   Mapping(base, end, next), phase \in Settled
            PROVE  Untouched /\ (phase' = phase \/ (phase \in Settled /\ phase' \in Settled))
        BY <3>1, MakePagingOnly DEF Mapping, vars, Settled
      <3>2. phase \in Settled
        BY <1>3 DEF init_after_canonical_hole_mapping, init_kernel_mapping, Settled
      <3> QED BY <1>3, <3>1, <3>2, Zenon DEF init_after_canonical_hole_mapping, init_kernel_mapping
    <2> QED BY <2>1, SettledKeeps, Zenon
  <1>4. CASE init_pit \/ sti
    <2>1. Untouched /\ phase \in Settled /\ phase' \in Settled
      BY <1>4 DEF init_pit, sti, Settled
    <2> QED BY <2>1, SettledKeeps, Zenon
  <1>5. CASE Raise \/ Accept \/ Spurious \/ Exception \/ Handler \/ thread_yield
    <2>1. UNCHANGED vars
      BY <1>5 DEF Raise, Accept, Spurious, Exception, Interrupt, Handler, empty_handler_w,
                  pop_handler_w, pit_handler, thread_schedule, Return, thread_yield
    <2>2. Untouched /\ phase' = phase
      BY <2>1 DEF vars
    <2> QED BY <2>2, SettledKeeps, Zenon
  <1>6. CASE UNCHANGED <<vars, paging, interrupts>>
    <2>1. Untouched /\ phase' = phase
      BY <1>6 DEF vars
    <2> QED BY <2>1, SettledKeeps, Zenon
  <1> QED BY <1>1, <1>2, <1>3, <1>4, <1>5, <1>6 DEF InterruptsNext, main, PagingNext

LEMMA BootAlways == InterruptsSpec => []BootInv
  <1>1. BootInv /\ [InterruptsNext]_<<vars, paging, interrupts>> => BootInv'
    BY BootStep
  <1> QED BY <1>1, BootStart, PTL DEF InterruptsSpec

\* No byte of the map is lost or claimed twice, whatever the firmware, the
\* place of the kernel and the modules are.
THEOREM MapStaysExact == InterruptsSpec => []MapExact
  <1>1. BootInv => MapExact
    BY DEF BootInv, MapExact, Free
  <1> QED BY <1>1, BootAlways, PTL

\* The map has one region more than the firmware's for each cut made in it.
THEOREM MapStaysBounded == InterruptsSpec => []MapBounded
  <1>1. BootInv => MapBounded
    BY DEF BootInv, MapBounded, Counted
  <1> QED BY <1>1, BootAlways, PTL

LEMMA PagesAreExact == BootInv => PagesExact
  <1> SUFFICES ASSUME BootInv, phase = "init_paging" PROVE PagesExact
    BY DEF PagesExact
  <1>1. /\ map \in Seq(Regions) /\ AvailableIn(map) \subseteq Free
        /\ buddy[1] > 0 => Between(buddy) \subseteq Free \ AvailableIn(map)
        /\ given = UNION {PagesIn(map[i]) : i \in {j \in DOMAIN map : map[j].type = "available"}}
    BY Zenon DEF BootInv
  <1>2. \A i \in DOMAIN map :
          PagesIn(map[i]) = {p \in Nat : PageBytes(p) \subseteq Bytes(map[i])}
    <2> TAKE i \in DOMAIN map
    <2>1. map[i] \in Regions
      BY <1>1, ElementOfSeq, LenProperties
    <2> QED BY <2>1, PagesInAre
  <1>3. ASSUME NEW p \in given
        PROVE  /\ PageBytes(p) \subseteq AvailableIn(firmware)
               /\ PageBytes(p) \cap (Between(kernel) \cup ArchiveBytes) = {}
               /\ buddy[1] > 0 => PageBytes(p) \cap Between(buddy) = {}
    <2>1. PICK i \in DOMAIN map : map[i].type = "available" /\ p \in PagesIn(map[i])
      BY <1>1
    <2>2. PageBytes(p) \subseteq Bytes(map[i])
      BY <1>2, <2>1
    <2>3. Bytes(map[i]) \subseteq AvailableIn(map)
      BY <2>1 DEF AvailableIn
    <2>4. PageBytes(p) \subseteq AvailableIn(map)
      BY <2>2, <2>3
    <2> HIDE DEF PageBytes
    <2> QED BY <2>4, <1>1 DEF Free
  <1>4. ASSUME NEW i \in DOMAIN map, NEW p \in 0 .. get_memory_size(map),
               map[i].type = "available", PageBytes(p) \subseteq Bytes(map[i])
        PROVE  p \in given
    <2>1. p \in Nat
      BY <1>1, MemorySize
    <2>2. p \in PagesIn(map[i])
      BY <2>1, <1>2, <1>4
    <2> QED BY <2>2, <1>1, <1>4
  <1> QED BY <1>3, <1>4, Zenon DEF PagesExact

\* The page allocator gets every page that is free, and no byte of the
\* kernel, an archive or its own descriptors.
THEOREM PagesAreGivenExactly == InterruptsSpec => []PagesExact
  BY PagesAreExact, BootAlways, PTL

LEMMA BootstrapIsApart == BootInv => BootstrapApart
  <1> SUFFICES ASSUME BootInv PROVE BootstrapApart
    OBVIOUS
  <1>1. /\ phase \in {"get_memory_map", "init_initramfs", "init_buddy"} => buddy = None
        /\ phase \notin Settled => tables = None
        /\ phase \in Settled \cup {"init_paging"} /\ buddy[1] > 0 => Between(buddy) \subseteq Free
        /\ phase \in Settled =>
             /\ tables[1] > 0 => Between(tables) \subseteq Free
             /\ buddy[1] > 0 /\ tables[1] > 0 => Between(buddy) \cap Between(tables) = {}
        /\ phase \in Early \cup Settled
    BY DEF BootInv
  <1>2. buddy # None => phase \in Settled \cup {"init_paging"}
    BY <1>1 DEF Early, Settled
  <1>3. tables # None => phase \in Settled
    BY <1>1
  <1>4. /\ buddy # None /\ buddy[1] > 0 => Between(buddy) \subseteq Free
        /\ tables # None /\ tables[1] > 0 => Between(tables) \subseteq Free
        /\ buddy # None /\ buddy[1] > 0 /\ tables # None /\ tables[1] > 0 =>
             Between(buddy) \cap Between(tables) = {}
    BY <1>1, <1>2, <1>3, Zenon
  <1> QED BY <1>4, Zenon DEF BootstrapApart, Free

\* What start-up hands out it hands out once.
THEOREM BootstrapStaysApart == InterruptsSpec => []BootstrapApart
  BY BootstrapIsApart, BootAlways, PTL
-----------------------------------------------------------------------------
(* Where memory ends: no region of the map ends behind the firmware's last *)

Ending(L) == {d \in Regions : End(d) <= L}

LEMMA SizeOfEnding ==
  ASSUME NEW m \in Seq(Regions), NEW L \in Nat
  PROVE  /\ m \in Seq(Ending(L)) => get_memory_size(m) <= L
         /\ (\A i \in DOMAIN m : End(m[i]) <= L) => m \in Seq(Ending(L))
         /\ m \in Seq(Ending(get_memory_size(m)))
  <1>1. PICK K \in Nat : K = Len(m) /\ DOMAIN m = 1 .. K /\ \A i \in 1 .. K : m[i] \in Regions
    BY LenProperties, ElementOfSeq
  <1>2. ASSUME m \in Seq(Ending(L)) PROVE get_memory_size(m) <= L
    <2>1. \A i \in DOMAIN m : m[i] \in Ending(L)
      BY <1>1, <1>2, ElementOfSeq
    <2>2. \A i \in DOMAIN m : End(m[i]) <= L
      BY <2>1 DEF Ending
    <2>3. get_memory_size(m) = 0 \/ \E i \in DOMAIN m : get_memory_size(m) = End(m[i])
      BY MemorySize
    <2> QED BY <2>2, <2>3
  <1>3. ASSUME NEW l \in Nat, \A i \in DOMAIN m : End(m[i]) <= l
        PROVE  m \in Seq(Ending(l))
    <2>1. \A i \in 1 .. K : m[i] \in Ending(l)
      BY <1>1, <1>3 DEF Ending
    <2>2. m = [i \in 1 .. K |-> m[i]]
      BY <1>1, LenProperties
    <2> QED BY <2>1, <2>2, IsASeq
  <1>4. get_memory_size(m) \in Nat /\ \A i \in DOMAIN m : End(m[i]) <= get_memory_size(m)
    BY MemorySize
  <1> QED BY <1>2, <1>3, <1>4

LEMMA ListedEnds ==
  ASSUME NEW L \in Nat, NEW f \in Seq(Ending(L))
  PROVE  FlattenSeq([i \in DOMAIN f |-> add_descriptor(<<>>, f[i])]) \in Seq(Ending(L))
  <1>1. PICK K \in Nat : DOMAIN f = 1 .. K /\ \A i \in 1 .. K : f[i] \in Ending(L)
    BY LenProperties, ElementOfSeq
  <1> DEFINE ss == [i \in 1 .. K |-> add_descriptor(<<>>, f[i])]
  <1>2. \A i \in 1 .. K : add_descriptor(<<>>, f[i]) \in Seq(Ending(L))
    <2>1. \A d \in Ending(L) : <<>> \in Seq(Ending(L)) /\ Append(<<>>, d) \in Seq(Ending(L))
      BY EmptySeq, AppendProperties
    <2> QED BY <1>1, <2>1 DEF add_descriptor
  <1>3. ss \in [1 .. K -> Seq(Ending(L))]
    BY <1>2
  <1> HIDE DEF ss
  <1>4. FlattenSeq(ss) \in Seq(Ending(L))
    <2>1. PICK w \in [0 .. K -> Seq(Ending(L))] :
            /\ w[0] = <<>> /\ \A n \in 1 .. K : w[n] = w[n - 1] \o ss[n]
            /\ FlattenSeq(ss) = w[K]
      BY <1>3, Flattened, ZenonT(30)
    <2>2. K \in 0 .. K
      OBVIOUS
    <2> QED BY <2>1, <2>2
  <1> QED BY <1>1, <1>4 DEF ss

LEMMA ReservedEnds ==
  ASSUME NEW L \in Nat, NEW m \in Seq(Ending(L)), NEW r \in Ranges
  PROVE  mark_as_reserved(m, r) \in Seq(Ending(L))
  <1>1. PICK left \in Nat, right \in Nat : left = r[1] /\ right = r[2] /\ left <= right
    BY DEF Ranges
  <1>2. PICK K \in Nat : DOMAIN m = 1 .. K /\ \A i \in 1 .. K : m[i] \in Ending(L)
    BY LenProperties, ElementOfSeq
  <1> DEFINE ss == [i \in 1 .. K |-> Outside(m[i], left, right)]
  <1>3. ASSUME NEW d \in Ending(L) PROVE Outside(d, left, right) \in Seq(Ending(L))
    <2>1. d \in Regions /\ End(d) <= L
      BY DEF Ending
    <2>2. PICK b \in Nat, n \in Nat, e \in Nat :
            b = d.base_addr /\ n = d.length /\ e = End(d) /\ e = b + n /\ e <= L
            /\ d.type \in {"available", "reserved"}
      BY <2>1 DEF Regions, End
    <2>3. <<>> \in Seq(Ending(L)) /\ \A x \in Ending(L) : <<x>> \in Seq(Ending(L))
      BY EmptySeq
    <2>4. ASSUME b < left, ~ (left >= e) PROVE Below(d, left) \in Ending(L)
      <3>1. PICK c \in Nat : c = left - b /\ b + c = left /\ left <= L
        <4>1. e <= L
          BY <2>2
        <4> QED BY <2>4, <4>1
      <3>2. Below(d, left) = Region(b, c, d.type)
        BY <2>2, <3>1, Zenon DEF Below
      <3>3. Region(b, c, d.type) \in Regions /\ End(Region(b, c, d.type)) = b + c
        BY <2>2 DEF Region, Regions, End
      <3> QED BY <3>1, <3>2, <3>3 DEF Ending
    <2>5. ASSUME e > right PROVE Above(d, right) \in Ending(L)
      <3>1. PICK c \in Nat : c = e - right /\ right + c = e
        BY <2>5
      <3>2. Above(d, right) = Region(right, c, d.type)
        BY <2>2, <3>1, Zenon DEF Above
      <3>3. Region(right, c, d.type) \in Regions /\ End(Region(right, c, d.type)) = right + c
        BY <2>2 DEF Region, Regions, End
      <3> QED BY <2>2, <3>1, <3>2, <3>3 DEF Ending
    <2> DEFINE x == IF b < left THEN <<Below(d, left)>> ELSE <<>>
               y == IF e > right THEN <<Above(d, right)>> ELSE <<>>
    <2>6. Outside(d, left, right) = IF b >= right \/ left >= e THEN <<d>> ELSE x \o y
      BY <2>2, Zenon DEF Outside
    <2>7. CASE b >= right \/ left >= e
      BY <2>3, <2>6, <2>7
    <2>8. CASE ~ (b >= right \/ left >= e)
      <3>1. x \in Seq(Ending(L)) /\ y \in Seq(Ending(L))
        BY <2>3, <2>4, <2>5, <2>8
      <3> HIDE DEF x, y
      <3>2. x \o y \in Seq(Ending(L))
        BY <3>1, ConcatProperties
      <3> QED BY <2>6, <2>8, <3>2
    <2> QED BY <2>7, <2>8
  <1>4. ss \in [1 .. K -> Seq(Ending(L))]
    BY <1>2, <1>3
  <1>5. mark_as_reserved(m, r) = FlattenSeq(ss)
    BY <1>1, <1>2 DEF mark_as_reserved
  <1> HIDE DEF ss
  <1>6. PICK w \in [0 .. K -> Seq(Ending(L))] :
          /\ w[0] = <<>> /\ \A n \in 1 .. K : w[n] = w[n - 1] \o ss[n]
          /\ FlattenSeq(ss) = w[K]
    BY <1>4, Flattened, ZenonT(30)
  <1>7. K \in 0 .. K
    OBVIOUS
  <1> QED BY <1>5, <1>6, <1>7

LEMMA AllocatedEnds ==
  ASSUME NEW L \in Nat, NEW m \in Seq(Ending(L)), NEW size \in Nat \ {0}, m \in Seq(Regions)
  PROVE  AfterAllocate(m, size) \in Seq(Ending(L))
  <1> DEFINE i == FirstFit(m, size)
  <1>1. CASE i = 0
    BY <1>1 DEF AfterAllocate
  <1>2. CASE i # 0
    <2>1. i \in DOMAIN m /\ m[i].type = "available" /\ m[i].length >= size
      BY <1>2, FirstFitIs
    <2> HIDE DEF i
    <2>2. m[i] \in Ending(L) /\ i \in 1 .. Len(m)
      BY <2>1, LenProperties, ElementOfSeq
    <2>3. PICK b \in Nat, l \in Nat : /\ m[i] = [base_addr |-> b, length |-> l, type |-> "available"]
                                      /\ b + l <= L /\ End(m[i]) = b + l
      BY <2>1, <2>2 DEF Ending, Regions, End
    <2>4. PICK k \in Nat : k + size = l /\ k = l - size /\ (b + l) - size = b + k
      <3>1. l >= size
        BY <2>1, <2>3
      <3> QED BY <3>1
    <2> DEFINE new == Region(b, k, "available")
               t == Region(b + k, size, "reserved")
    <2>5. new \in Ending(L)
      <3>1. new \in Regions /\ End(new) = b + k
        BY DEF Region, Regions, End
      <3> HIDE DEF new
      <3> QED BY <3>1, <2>3, <2>4 DEF Ending
    <2>6. t \in Ending(L) /\ t.length # 0
      <3>1. b + k \in Nat /\ (b + k) + size <= L
        <4>1. b + l <= L /\ k + size = l
          BY <2>3, <2>4
        <4> QED BY <4>1
      <3>2. t \in Regions /\ End(t) = (b + k) + size /\ t.length = size
        BY <3>1 DEF Region, Regions, End
      <3> HIDE DEF t
      <3> QED BY <3>1, <3>2 DEF Ending
    <2>7. [m[i] EXCEPT !.length = @ - size] = new
      <3>1. \A x, y : [[base_addr |-> b, length |-> x, type |-> "available"] EXCEPT !.length = y]
                        = [base_addr |-> b, length |-> y, type |-> "available"]
        OBVIOUS
      <3>2. m[i].length - size = k
        BY <2>3, <2>4
      <3> QED BY <2>3, <3>1, <3>2, ZenonT(30) DEF Region
    <2>8. Shortened(m, i, size) = [m EXCEPT ![i] = new]
      <3> HIDE DEF new
      <3> QED BY <2>7 DEF Shortened
    <2>9. Region(End(m[i]) - size, size, "reserved") = t
      BY <2>3, <2>4
    <2> HIDE DEF new, t
    <2>10. [m EXCEPT ![i] = new] \in Seq(Ending(L))
      BY <2>2, <2>5, ExceptSeq
    <2>11. AfterAllocate(m, size) = add_descriptor(Shortened(m, i, size), t)
      BY <1>2, <2>9, Zenon DEF AfterAllocate, i
    <2> QED BY <2>6, <2>8, <2>10, <2>11, AppendProperties DEF add_descriptor
  <1> QED BY <1>1, <1>2

\* Memory ends at most where the tables of the kernel begin in the PDPT.
Highest == (TableEntries - 2) * PdSpan

EndsInv == firmware \in Seq(Ending(Highest)) /\ map \in Seq(Ending(Highest))

LEMMA TableSizes ==
  /\ PdSpan \in Nat \ {0} /\ PdptSpan \in Nat \ {0} /\ Highest \in Nat
  /\ PdEntries \in Nat \ {0} /\ BigPage \in Nat \ {0} /\ PageSize \in Nat \ {0}
  /\ TableEntries \in Nat /\ TableEntries >= 6 /\ PdEntries <= TableEntries
  <1>0. \A m, n \in Nat \ {0} : m * n \in Nat \ {0}
    <2> SUFFICES ASSUME NEW m \in Nat \ {0}, NEW n \in Nat \ {0} PROVE m * n \in Nat \ {0}
      OBVIOUS
    <2>1. 1 * n <= m * n
      BY Monotone
    <2> QED BY <2>1
  <1>1. PICK T \in Nat \ {0}, P \in Nat \ {0}, B \in Nat \ {0} :
          T = TableEntries /\ P = PdEntries /\ B = BigPage /\ T >= 6
    BY SizeAssumption, TablesAssumption
  <1>2. PICK S \in Nat \ {0} : S = P * B
    BY <1>0
  <1>3. PdSpan = S
    BY <1>1, <1>2 DEF PdSpan
  <1>4. T * S \in Nat \ {0} /\ (T - 2) * S \in Nat
    <2>1. T - 2 \in Nat \ {0}
      BY <1>1
    <2> QED BY <1>0, <2>1
  <1>5. PdptSpan = T * S /\ Highest = (T - 2) * S
    BY <1>1, <1>3 DEF PdptSpan, Highest
  <1> QED BY <1>3, <1>4, <1>5, SizeAssumption, TablesAssumption

LEMMA EndsStart == InterruptsInit => EndsInv
  <1> SUFFICES ASSUME InterruptsInit PROVE EndsInv
    OBVIOUS
  <1>1. firmware \in Firmware /\ map = <<>>
    BY DEF InterruptsInit, PagingInit, Init
  <1>2. firmware \in Seq(Regions) /\ Highest \in Nat
    BY <1>1, FirmwareAssumption, TableSizes
  <1>3. \A i \in DOMAIN firmware : End(firmware[i]) <= Highest
    BY <1>1, MemoryAssumption DEF Highest
  <1>4. firmware \in Seq(Ending(Highest))
    BY <1>2, <1>3, SizeOfEnding
  <1>5. <<>> \in Seq(Ending(Highest))
    BY EmptySeq
  <1> QED BY <1>1, <1>4, <1>5 DEF EndsInv

LEMMA EndsStep ==
  ASSUME BootInv, EndsInv, [InterruptsNext]_<<vars, paging, interrupts>>
  PROVE  EndsInv'
  <1>0. Highest \in Nat /\ map \in Seq(Regions) /\ Inputs
    BY TableSizes DEF BootInv
  <1>1. CASE get_memory_map
    <2>1. UNCHANGED firmware
          /\ map' = IF firmware = <<>> THEN map
                    ELSE mark_as_reserved(FlattenSeq([i \in DOMAIN firmware |-> add_descriptor(<<>>, firmware[i])]),
                                          kernel)
      BY <1>1 DEF get_memory_map
    <2> DEFINE m == FlattenSeq([i \in DOMAIN firmware |-> add_descriptor(<<>>, firmware[i])])
    <2>2. m \in Seq(Ending(Highest))
      BY <1>0, ListedEnds DEF EndsInv
    <2>3. map' = (IF firmware = <<>> THEN map ELSE mark_as_reserved(m, kernel)) /\ kernel \in Ranges
      BY <1>0, <2>1 DEF Inputs
    <2> HIDE DEF m
    <2>4. mark_as_reserved(m, kernel) \in Seq(Ending(Highest))
      BY <1>0, <2>2, <2>3, ReservedEnds
    <2> QED BY <1>0, <2>1, <2>3, <2>4 DEF EndsInv
  <1>2. CASE init_initramfs
    <2>1. UNCHANGED firmware
      BY <1>2 DEF init_initramfs
    <2>2. PICK K \in Nat : K = Len(modules) /\ modules \in Seq([range : Ranges, magic : BOOLEAN])
      BY <1>0, LenProperties DEF Inputs
    <2>3. PICK c : Cuts(c, K) /\ map' = c[K]
      BY <1>2, <2>2, ArchivesInOrder
    <2> DEFINE S == {n \in Nat : n <= K => c[n] \in Seq(Ending(Highest))}
    <2>4. 0 \in S
      BY <2>3 DEF Cuts, EndsInv
    <2>5. ASSUME NEW n \in S PROVE n + 1 \in S
      <3>1. n \in Nat /\ (n <= K => c[n] \in Seq(Ending(Highest)))
        OBVIOUS
      <3>2. ASSUME n + 1 <= K PROVE c[n + 1] \in Seq(Ending(Highest))
        <4>1. PICK k \in Nat : k = n + 1 /\ k - 1 = n /\ k \in 1 .. K /\ n <= K
          BY <3>1, <3>2
        <4>2. c[n] \in Seq(Ending(Highest))
          BY <3>1, <4>1
        <4>3. c[k] = IF Archive(modules[k]) THEN mark_as_reserved(c[n], modules[k].range) ELSE c[n]
          BY <2>3, <4>1 DEF Cuts
        <4>4. modules[k].range \in Ranges
          <5>1. modules[k] \in [range : Ranges, magic : BOOLEAN]
            BY <2>2, <4>1, ElementOfSeq
          <5> QED BY <5>1
        <4>5. mark_as_reserved(c[n], modules[k].range) \in Seq(Ending(Highest))
          <5>1. \A x \in Seq(Ending(Highest)), r \in Ranges :
                  mark_as_reserved(x, r) \in Seq(Ending(Highest))
            BY <1>0, ReservedEnds
          <5> QED BY <4>2, <4>4, <5>1
        <4> QED BY <4>1, <4>2, <4>3, <4>5
      <3> QED BY <3>1, <3>2
    <2>6. S = Nat
      <3> HIDE DEF S
      <3>1. S \in SUBSET Nat
        BY DEF S
      <3> QED BY <2>4, <2>5, <3>1, SetInduction
    <2>7. K \in S /\ K <= K
      <3> HIDE DEF S
      <3> QED BY <2>6
    <2> QED BY <2>1, <2>3, <2>7 DEF EndsInv
  <1>3. CASE init_buddy \/ init_paging
    <2>1. UNCHANGED firmware
      BY <1>3 DEF init_buddy, init_paging
    <2>2. \E size \in Nat \ {0} : map' = AfterAllocate(map, size)
      BY <1>0, <1>3, Asked DEF init_buddy, init_paging
    <2>3. map' \in Seq(Ending(Highest))
      BY <1>0, <2>2, AllocatedEnds DEF EndsInv
    <2> QED BY <2>1, <2>3 DEF EndsInv
  <1>4. CASE UNCHANGED <<firmware, map>>
    BY <1>4 DEF EndsInv
  <1>5. init_after_canonical_hole_mapping \/ init_kernel_mapping => UNCHANGED <<firmware, map>>
    BY MakePagingOnly DEF init_after_canonical_hole_mapping, init_kernel_mapping, Mapping, vars
  <1>6. main => UNCHANGED <<firmware, map>>
    BY DEF main, init_pit, sti, Raise, Accept, Spurious, Exception, Interrupt, Handler,
           empty_handler_w, pop_handler_w, pit_handler, thread_schedule, Return, thread_yield, vars
  <1>7. UNCHANGED <<vars, paging, interrupts>> => UNCHANGED <<firmware, map>>
    BY DEF vars
  <1> QED BY <1>1, <1>2, <1>3, <1>4, <1>5, <1>6, <1>7
          DEF InterruptsNext, PagingNext, Starting, SetAside
-----------------------------------------------------------------------------
(* The page tables *)

LEMMA Digits ==
  ASSUME NEW q \in Nat, NEW r \in Nat, NEW n \in Nat \ {0}, r < n
  PROVE  (q * n + r) \div n = q /\ (q * n + r) % n = r
  <1>1. PICK x \in Nat : x = q * n + r
    OBVIOUS
  <1>2. PICK p \in Nat, s \in Nat : p = x \div n /\ s = x % n /\ s < n /\ x = p * n + s
    BY Division
  <1>3. PICK a \in Nat, b \in Nat : a = p * n /\ b = q * n /\ a + s = b + r
    BY <1>1, <1>2
  <1>4. ~ (p < q)
    <2> SUFFICES ASSUME p < q PROVE FALSE
      OBVIOUS
    <2>1. p + 1 <= q /\ p + 1 \in Int
      OBVIOUS
    <2>2. (p + 1) * n <= q * n /\ (p + 1) * n = p * n + n
      BY <2>1, Monotone
    <2> QED BY <2>2, <1>2, <1>3
  <1>5. ~ (q < p)
    <2> SUFFICES ASSUME q < p PROVE FALSE
      OBVIOUS
    <2>1. q + 1 <= p /\ q + 1 \in Int
      OBVIOUS
    <2>2. (q + 1) * n <= p * n /\ (q + 1) * n = q * n + n
      BY <2>1, Monotone
    <2> QED BY <2>2, <1>3
  <1>6. p = q
    BY <1>4, <1>5
  <1> QED BY <1>1, <1>2, <1>3, <1>6

\* What the three indexes of a virtual address are.
LEMMA Places ==
  ASSUME NEW a \in Nat, NEW b \in Nat, NEW c \in Nat,
         a < TableEntries, b < TableEntries, c < PdEntries,
         NEW v, v = ((a * TableEntries + b) * PdEntries + c) * BigPage
  PROVE  pml4_i(v) = a /\ pml3_i(v) = b /\ pml2_i(v) = c
  <1>1. PICK T \in Nat \ {0}, P \in Nat \ {0}, B \in Nat \ {0} :
          T = TableEntries /\ P = PdEntries /\ B = BigPage
    BY TableSizes
  <1>2. PICK S \in Nat \ {0}, R \in Nat \ {0} : S = P * B /\ R = T * S /\ PdSpan = S /\ PdptSpan = R
    BY <1>1, TableSizes DEF PdSpan, PdptSpan
  <1>3. PICK y \in Nat : y = a * T + b
    OBVIOUS
  <1>4. PICK x \in Nat : x = y * P + c
    OBVIOUS
  <1>5. v = x * B
    BY <1>1, <1>3, <1>4
  <1>6. v \div B = x
    <2>1. (x * B + 0) \div B = x
      BY Digits
    <2> QED BY <1>5, <2>1
  <1>7. x % P = c
    BY <1>1, <1>4, Digits
  <1>8. PICK k \in Nat : k = c * B /\ k < S
    <2>1. c + 1 <= P /\ c + 1 \in Int
      BY <1>1
    <2>2. (c + 1) * B <= P * B /\ (c + 1) * B = c * B + B
      BY <2>1, Monotone
    <2>3. c * B \in Nat
      OBVIOUS
    <2> QED BY <2>2, <2>3, <1>2
  <1>9. v = y * S + k
    <2>1. (y * P + c) * B = y * (P * B) + c * B
      OBVIOUS
    <2> QED BY <1>2, <1>4, <1>5, <1>8, <2>1
  <1>10. v \div S = y
    <2>1. (y * S + k) \div S = y
      BY <1>8, Digits
    <2> QED BY <1>9, <2>1
  <1>11. y % T = b
    BY <1>1, <1>3, Digits
  <1>12. PICK l \in Nat : l = b * S + k /\ l < R
    <2>1. b + 1 <= T /\ b + 1 \in Int
      BY <1>1
    <2>2. (b + 1) * S <= T * S /\ (b + 1) * S = b * S + S
      BY <2>1, Monotone
    <2>3. b * S \in Nat
      OBVIOUS
    <2> QED BY <2>2, <2>3, <1>2, <1>8
  <1>13. v = a * R + l
    <2>1. (a * T + b) * S + k = a * (T * S) + (b * S + k)
      OBVIOUS
    <2> QED BY <1>2, <1>3, <1>9, <1>12, <2>1
  <1>14. v \div R = a
    <2>1. (a * R + l) \div R = a
      BY <1>12, Digits
    <2> QED BY <1>13, <2>1
  <1>15. a % T = a
    <2>1. (0 * T + a) % T = a
      BY <1>1, Digits
    <2> QED BY <2>1
  <1>16. pml4_i(v) = (v \div R) % T /\ pml3_i(v) = (v \div S) % T /\ pml2_i(v) = (v \div B) % P
    BY <1>1, <1>2 DEF pml4_i, pml3_i, pml2_i
  <1> QED BY <1>6, <1>7, <1>10, <1>11, <1>14, <1>15, <1>16

\* Big page n: the directory it is in, and its entry there
In(n) == n \div PdEntries
At(n) == n % PdEntries

LEMMA BigPages ==
  ASSUME NEW n \in Nat
  PROVE  /\ In(n) \in Nat /\ At(n) \in Nat /\ At(n) < PdEntries /\ n = In(n) * PdEntries + At(n)
         /\ n * BigPage = In(n) * PdSpan + At(n) * BigPage
         /\ \A k \in Nat : n * BigPage < k * PdSpan => In(n) < k
  <1>1. PICK P \in Nat \ {0}, B \in Nat \ {0} : P = PdEntries /\ B = BigPage
    BY TableSizes
  <1>2. PICK d \in Nat, c \in Nat : d = In(n) /\ c = At(n) /\ c < P /\ n = d * P + c
    <2>1. n \div P \in Nat /\ n % P \in Nat /\ n % P < P /\ n = (n \div P) * P + (n % P)
      BY Division
    <2> QED BY <1>1, <2>1 DEF In, At
  <1>3. PICK S \in Nat \ {0} : S = P * B /\ PdSpan = S
    BY <1>1, TableSizes DEF PdSpan
  <1>4. n * B = d * S + c * B
    <2>1. (d * P + c) * B = d * (P * B) + c * B
      OBVIOUS
    <2> QED BY <1>2, <1>3, <2>1
  <1>5. ASSUME NEW k \in Nat, n * B < k * S PROVE d < k
    <2>1. c * B >= 0 /\ d * S \in Int /\ k * S \in Int /\ n * B \in Int /\ c * B \in Int
      OBVIOUS
    <2>2. ~ (k * S <= d * S)
      BY <2>1, <1>4, <1>5
    <2>3. ~ (k <= d)
      BY <2>2, Monotone
    <2> QED BY <2>3
  <1> QED BY <1>1, <1>2, <1>3, <1>4, <1>5

\* Where make_paging finds big page n of all memory, and of the kernel.
LEMMA HighPlaces ==
  ASSUME NEW n \in Nat, In(n) < TableEntries, NEW v, v = HIGH_BASE + n * BigPage
  PROVE  pml4_i(v) = TableEntries \div 2 /\ pml3_i(v) = In(n) /\ pml2_i(v) = At(n)
  <1>1. PICK T \in Nat \ {0}, P \in Nat \ {0}, B \in Nat \ {0} :
          T = TableEntries /\ P = PdEntries /\ B = BigPage /\ T >= 6
    BY TableSizes
  <1>2. PICK h \in Nat : h = T \div 2 /\ h < T
    OBVIOUS
  <1>3. PICK d \in Nat, c \in Nat : d = In(n) /\ c = At(n) /\ c < P /\ n = d * P + c /\ d < T
    BY <1>1, BigPages
  <1>4. HIGH_BASE = h * (T * (P * B))
    BY <1>1, <1>2 DEF HIGH_BASE, PdptSpan, PdSpan
  <1>5. h * (T * (P * B)) + (d * P + c) * B = ((h * T + d) * P + c) * B
    OBVIOUS
  <1>6. v = ((h * TableEntries + d) * PdEntries + c) * BigPage
    BY <1>1, <1>3, <1>4, <1>5
  <1>7. h < TableEntries /\ d < TableEntries /\ c < PdEntries
    BY <1>1, <1>2, <1>3
  <1>8. pml4_i(v) = h /\ pml3_i(v) = d /\ pml2_i(v) = c
    BY <1>6, <1>7, Places
  <1> QED BY <1>1, <1>2, <1>3, <1>8

LEMMA KernelPlaces ==
  ASSUME NEW n \in Nat, In(n) < 2, NEW v, v = KERNEL_BASE + n * BigPage
  PROVE  /\ pml4_i(v) = TableEntries - 1 /\ pml3_i(v) = (TableEntries - 2) + In(n)
         /\ pml2_i(v) = At(n)
  <1>1. PICK T \in Nat \ {0}, P \in Nat \ {0}, B \in Nat \ {0} :
          T = TableEntries /\ P = PdEntries /\ B = BigPage /\ T >= 6
    BY TableSizes
  <1>2. PICK h \in Nat, g \in Nat : h = T - 1 /\ g = T - 2 /\ h < T
    BY <1>1
  <1>3. PICK d \in Nat, c \in Nat : d = In(n) /\ c = At(n) /\ c < P /\ n = d * P + c /\ d < 2
    BY <1>1, BigPages
  <1>4. KERNEL_BASE = T * (T * (P * B)) - 2 * (P * B)
    BY <1>1 DEF KERNEL_BASE, PdptSpan, PdSpan
  <1>5. T * (T * (P * B)) - 2 * (P * B) + (d * P + c) * B = ((h * T + (g + d)) * P + c) * B
    <2>1. T * T - 2 = h * T + g
      BY <1>2
    <2>2. T * (T * (P * B)) - 2 * (P * B) = (T * T - 2) * (P * B)
      OBVIOUS
    <2>3. PICK w \in Int, y \in Nat : w = T * T - 2 /\ y = P * B
      OBVIOUS
    <2>4. (h * T + (g + d)) * P = (h * T + g) * P + d * P
      OBVIOUS
    <2>5. ((h * T + g) * P + d * P + c) * B = (h * T + g) * (P * B) + (d * P + c) * B
      OBVIOUS
    <2> QED BY <2>1, <2>2, <2>4, <2>5
  <1>6. v = ((h * TableEntries + (g + d)) * PdEntries + c) * BigPage
    BY <1>1, <1>3, <1>4, <1>5
  <1>7. PICK e \in Nat : e = g + d
    OBVIOUS
  <1>8. h < TableEntries /\ e < TableEntries /\ c < PdEntries
    <2>1. d < 2 /\ c < P
      BY <1>3
    <2>2. e < T
      BY <1>2, <1>7, <2>1
    <2> QED BY <1>1, <1>2, <2>1, <2>2
  <1>9. v = ((h * TableEntries + e) * PdEntries + c) * BigPage
    BY <1>6, <1>7
  <1>10. pml4_i(v) = h /\ pml3_i(v) = e /\ pml2_i(v) = c
    BY <1>8, <1>9, Places
  <1> QED BY <1>1, <1>2, <1>3, <1>7, <1>10

Directory0To3 == PageDirectory(0) .. PageDirectory(3)

\* The indexes of the PDPT that bootstrap.S leaves without a directory.
Middle == 4 .. TableEntries - 3

LEMMA BootTables ==
  /\ pml4 = -6 /\ pdpt = -5 /\ Directory0To3 = -4 .. -1
  /\ TableEntries \div 2 \in Index /\ TableEntries - 1 \in Index
  /\ BootEntry(pml4, TableEntries \div 2) = pdpt /\ BootEntry(pml4, TableEntries - 1) = pdpt
  /\ \A d \in 0 .. 3 : d \in Index \ Middle /\ BootEntry(pdpt, d) = PageDirectory(d)
  /\ \A d \in 0 .. 1 : /\ (TableEntries - 2) + d \in Index \ Middle
                       /\ BootEntry(pdpt, (TableEntries - 2) + d) = PageDirectory(d)
  /\ \A d \in 0 .. 3 : PageDirectory(d) \in Directory0To3
  /\ \A d \in 0 .. 3, c \in Nat :
       c < PdEntries => BootEntry(PageDirectory(d), c) = d * PdSpan + c * BigPage
  /\ \A d \in Index : d < TableEntries - 2 => d \in Middle \/ d \in 0 .. 3
  <1>1. PICK T \in Nat : T = TableEntries /\ T >= 6
    BY TableSizes
  <1>2. PICK h \in Nat : h = T \div 2 /\ h < T /\ h > 0
    BY <1>1
  <1>3. pml4 = -6 /\ pdpt = -5 /\ pml4 # pdpt
    BY DEF pml4, pdpt
  <1>4. Index = 0 .. T - 1 /\ Middle = 4 .. T - 3
    BY <1>1 DEF Index, Middle
  <1>5. \A i : BootEntry(pml4, i) = IF i \in {0, h, T - 1} THEN pdpt ELSE None
    BY <1>1, <1>2, <1>3 DEF BootEntry
  <1>6. \A i : BootEntry(pdpt, i) = IF i < 4 THEN PageDirectory(i)
                                    ELSE IF i >= T - 2 THEN PageDirectory(i - (T - 2)) ELSE None
    BY <1>1, <1>3 DEF BootEntry
  <1>7. PageDirectory(0) = -4 /\ PageDirectory(3) = -1 /\ \A d \in 0 .. 3 : PageDirectory(d) \in -4 .. -1
    BY DEF PageDirectory
  <1>8. ASSUME NEW d \in 0 .. 1
        PROVE  /\ (T - 2) + d \in Index \ Middle
               /\ BootEntry(pdpt, (T - 2) + d) = PageDirectory(d)
    <2>1. PICK i \in Nat : i = (T - 2) + d /\ ~ (i < 4) /\ i >= T - 2 /\ i - (T - 2) = d /\ i <= T - 1
      BY <1>1
    <2>2. i \in Index \ Middle
      BY <1>1, <1>4, <2>1
    <2> QED BY <1>6, <2>1, <2>2
  <1>9. \A d \in 0 .. 3 : d \in Index \ Middle /\ BootEntry(pdpt, d) = PageDirectory(d)
    BY <1>1, <1>4, <1>6
  <1>10. ASSUME NEW d \in 0 .. 3, NEW c \in Nat, c < PdEntries
         PROVE  BootEntry(PageDirectory(d), c) = d * PdSpan + c * BigPage
    <2>1. PageDirectory(d) # pml4 /\ PageDirectory(d) # pdpt /\ PageDirectory(d) + 4 = d
      BY <1>3 DEF PageDirectory
    <2>2. BootEntry(PageDirectory(d), c) = (PageDirectory(d) + 4) * PdSpan + c * BigPage
      BY <2>1, <1>10 DEF BootEntry
    <2> QED BY <2>1, <2>2
  <1>11. \A d \in Index : d < T - 2 => d \in Middle \/ d \in 0 .. 3
    BY <1>1, <1>4
  <1>12. h \in Index /\ T - 1 \in Index
    BY <1>1, <1>2, <1>4
  <1> QED BY <1>1, <1>2, <1>3, <1>5, <1>7, <1>8, <1>9, <1>10, <1>11, <1>12 DEF Directory0To3

\* What an entry of a table may be.
Entries == Int \cup {None, Uncleared}

\* The tables of bootstrap.S are as it made them; every table taken lies
\* below address and is a directory of one entry of the PDPT only.
TablesInv ==
  /\ entry \in [(pml4 .. -1) \cup taken -> [Index -> Entries]]
  /\ address \in Nat /\ \A t \in taken : t \in Nat /\ t + PageSize <= address
  /\ \A i \in Index : entry[pml4][i] = BootEntry(pml4, i)
  /\ \A t \in Directory0To3, i \in Index : entry[t][i] = BootEntry(t, i)
  /\ \A i \in Index \ Middle : entry[pdpt][i] = BootEntry(pdpt, i)
  /\ \A i \in Middle : entry[pdpt][i] \in taken \cup {None}
  /\ \A i, j \in Middle : entry[pdpt][i] # None /\ i # j => entry[pdpt][i] # entry[pdpt][j]

\* An iteration of make_paging for entry c of the directory of entry d of the PDPT
Wrote(pd, d, c) ==
  /\ entry[pdpt][d] \in {pd, None} /\ pd \in Int /\ pd # pdpt /\ pd # pml4
  /\ entry[pdpt][d] # None => pd \in DOMAIN entry /\ UNCHANGED <<address, taken>>
  /\ entry[pdpt][d] = None => /\ pd = align(address, PageSize) /\ pd \notin DOMAIN entry
                              /\ address' = pd + PageSize /\ taken' = taken \cup {pd}
  /\ entry' \in [DOMAIN entry \cup {pd} -> [Index -> Entries]]
  /\ \A t \in DOMAIN entry \ {pd, pdpt} : entry'[t] = entry[t]
  /\ \A i \in Index : entry'[pdpt][i] = IF i = d THEN pd ELSE entry[pdpt][i]
  /\ entry'[pd][c] = mapped
  /\ pd \in DOMAIN entry => \A k \in Index \ {c} : entry'[pd][k] = entry[pd][k]

LEMMA Aligned ==
  ASSUME NEW a \in Nat, NEW n \in Nat \ {0}
  PROVE  /\ align(a, n) \in Nat /\ a <= align(a, n) /\ align(a, n) < a + n /\ align(a, n) % n = 0
         /\ a % n = 0 => align(a, n) = a
  <1>1. PICK q \in Nat, r \in Nat : q = a \div n /\ r = a % n /\ r < n /\ a = q * n + r
    BY Division
  <1>2. PICK e \in Nat : e = IF r = 0 THEN q ELSE q + 1
    OBVIOUS
  <1>3. align(a, n) = e * n
    BY <1>1, <1>2, Zenon DEF align, div_up
  <1>4. (q + 1) * n = q * n + n /\ q * n \in Nat
    OBVIOUS
  <1>5. (e * n + 0) % n = 0
    BY Digits
  <1>6. e * n \in Nat
    OBVIOUS
  <1>7. CASE r = 0
    BY <1>1, <1>2, <1>3, <1>4, <1>5, <1>7
  <1>8. CASE r # 0
    BY <1>1, <1>2, <1>3, <1>4, <1>5, <1>8
  <1> QED BY <1>7, <1>8

LEMMA Written ==
  ASSUME TablesInv, mapped \in Int, NEW base, NEW end, MakePaging(base, end), phase' # "fault",
         NEW a, a \in {TableEntries \div 2, TableEntries - 1}, pml4_i(base + mapped) = a,
         NEW d \in Index, pml3_i(base + mapped) = d, NEW c \in Index, pml2_i(base + mapped) = c
  PROVE  \E pd : Wrote(pd, d, c)
  <1> DEFINE s0 == [entry |-> entry, address |-> address, taken |-> taken]
             s1 == init_entry(s0, pml4, a)
             s2 == init_entry(s1, s1.entry[pml4][a], d)
             pde == s2.entry[s1.entry[pml4][a]][d]
  <1>1. /\ entry' = [s2.entry EXCEPT ![pde][c] = mapped]
        /\ address' = s2.address /\ taken' = s2.taken
    BY Zenon DEF MakePaging
  <1>2. /\ pml4 = -6 /\ pdpt = -5 /\ a \in Index /\ BootEntry(pml4, a) = pdpt
        /\ pml4 \in pml4 .. -1 /\ pdpt \in pml4 .. -1
    <2>1. -6 \in -6 .. -1 /\ -5 \in -6 .. -1
      OBVIOUS
    <2> QED BY <2>1, BootTables
  <1>3. None \notin Int
    BY NoneAssumption
  <1>4. /\ entry \in [DOMAIN entry -> [Index -> Entries]]
        /\ DOMAIN entry = (pml4 .. -1) \cup taken
        /\ address \in Nat /\ \A t \in taken : t \in Nat /\ t + PageSize <= address
        /\ entry[pml4][a] = pdpt
    BY <1>2 DEF TablesInv
  <1>5. s1 = s0 /\ s0.entry = entry /\ s0.address = address /\ s0.taken = taken
    <2>1. ~ Absent(s0.entry[pml4][a])
      BY <1>2, <1>3, <1>4 DEF Absent
    <2> QED BY <2>1, Zenon DEF init_entry
  <1> HIDE DEF s0
  <1>6. s1.entry[pml4][a] = pdpt /\ s2 = init_entry(s0, pdpt, d) /\ pde = s2.entry[pdpt][d]
    BY <1>4, <1>5
  <1> HIDE DEF s1, s2, pde
  <1>7. CASE entry[pdpt][d] # None
    <2>1. s2 = s0
      BY <1>5, <1>6, <1>7, Zenon DEF init_entry, Absent
    <2>2. pde = entry[pdpt][d]
      BY <1>5, <1>6, <2>1
    <2>3. pde \in DOMAIN entry /\ pde # pdpt /\ pde # pml4
      <3>1. CASE d \in Middle
        <4>1. pde \in taken
          BY <3>1, <1>7, <2>2 DEF TablesInv
        <4>2. pde \in Nat
          BY <4>1, <1>4
        <4> QED BY <1>2, <1>4, <4>1, <4>2
      <3>2. CASE d \notin Middle
        <4>1. pde = BootEntry(pdpt, d)
          BY <3>2, <2>2 DEF TablesInv
        <4>2. PICK T \in Nat : T = TableEntries /\ T >= 6 /\ Index = 0 .. T - 1 /\ Middle = 4 .. T - 3
          BY TableSizes DEF Index, Middle
        <4>3. d \in 0 .. 3 \/ \E k \in 0 .. 1 : d = (T - 2) + k
          <5>1. d \in 0 .. T - 1 /\ d \notin 4 .. T - 3
            BY <3>2, <4>2
          <5>2. d < 4 \/ d = (T - 2) + 0 \/ d = (T - 2) + 1
            BY <5>1
          <5>3. 0 \in 0 .. 1 /\ 1 \in 0 .. 1
            OBVIOUS
          <5> QED BY <5>1, <5>2, <5>3
        <4>4. pde \in Directory0To3
          <5>1. 0 .. 1 \subseteq 0 .. 3
            OBVIOUS
          <5> QED BY <4>1, <4>2, <4>3, <5>1, BootTables, Zenon
        <4>5. pde \in -4 .. -1
          BY <4>4, BootTables
        <4>6. pde \in -6 .. -1 /\ pde # -5 /\ pde # -6
          BY <4>5
        <4> QED BY <4>6, <1>2, <1>4
      <3> QED BY <3>1, <3>2
    <2>4. pde \in Int
      BY <2>3, <1>2, <1>4
    <2>5. entry' = [entry EXCEPT ![pde][c] = mapped]
      BY <1>1, <1>5, <2>1
    <2>6. UNCHANGED <<address, taken>>
      BY <1>1, <1>5, <2>1
    <2>7. [entry[pde] EXCEPT ![c] = mapped] \in [Index -> Entries]
      BY <1>4, <2>3 DEF Entries
    <2>8. Wrote(pde, d, c)
      <3>1. entry' = [entry EXCEPT ![pde] = [entry[pde] EXCEPT ![c] = mapped]]
        BY <2>5, Zenon
      <3>2. entry' \in [DOMAIN entry -> [Index -> Entries]]
        BY <3>1, <1>4, <2>7
      <3>3. \A t \in DOMAIN entry \ {pde} : entry'[t] = entry[t]
        BY <3>1
      <3>4. entry'[pde] = [entry[pde] EXCEPT ![c] = mapped]
        BY <3>1, <2>3
      <3>5. DOMAIN entry[pde] = Index
        BY <1>4, <2>3
      <3>6. entry'[pde][c] = mapped /\ \A k \in Index \ {c} : entry'[pde][k] = entry[pde][k]
        BY <3>4, <3>5
      <3>7. entry'[pdpt] = entry[pdpt] /\ DOMAIN entry \cup {pde} = DOMAIN entry
        BY <1>2, <1>4, <2>3, <3>3
      <3> QED BY <1>7, <2>2, <2>3, <2>4, <2>6, <3>2, <3>3, <3>6, <3>7, Zenon DEF Wrote
    <2> QED BY <2>8
  <1>8. CASE entry[pdpt][d] = None
    <2> DEFINE new == align(address, PageSize)
               E == [u \in DOMAIN entry \cup {new} |->
                       IF u = new THEN [k \in Index |-> Uncleared]
                       ELSE IF u = pdpt THEN [entry[pdpt] EXCEPT ![d] = new] ELSE entry[u]]
    <2>1. s2 = [entry |-> E, address |-> new + PageSize, taken |-> taken \cup {new}]
      BY <1>5, <1>6, <1>8, Zenon DEF init_entry, Absent
    <2>2. s2.entry = E /\ s2.address = new + PageSize /\ s2.taken = taken \cup {new}
      <3> HIDE DEF E, new
      <3> QED BY <2>1
    <2>3. new \in Nat /\ address <= new
      <3>1. PageSize \in Nat \ {0}
        BY SizeAssumption
      <3> QED BY <3>1, <1>4, Aligned
    <2> HIDE DEF new
    <2>4. new \notin DOMAIN entry
      <3>1. new \notin taken
        <4> SUFFICES ASSUME new \in taken PROVE FALSE
          OBVIOUS
        <4>1. new + PageSize <= address
          BY <1>4
        <4>2. PICK x \in Nat, y \in Nat, P \in Nat \ {0} : x = new /\ y = address /\ P = PageSize
          BY <1>4, <2>3, SizeAssumption
        <4>3. x + P <= y /\ y <= x
          BY <4>1, <4>2, <2>3
        <4> QED BY <4>3
      <3>2. new \notin -6 .. -1
        BY <2>3
      <3> QED BY <3>1, <3>2, <1>2, <1>4
    <2>5. new # pdpt /\ new # pml4
      BY <1>2, <1>4, <2>4
    <2>6. E[pdpt] = [entry[pdpt] EXCEPT ![d] = new]
      BY <1>2, <1>4, <2>5
    <2>7. DOMAIN entry[pdpt] = Index
      BY <1>2, <1>4
    <2>8. \A i \in Index : E[pdpt][i] = IF i = d THEN new ELSE entry[pdpt][i]
      BY <2>6, <2>7
    <2>9. pde = new
      BY <1>6, <2>2, <2>8
    <2>10. E[new] = [k \in Index |-> Uncleared]
      OBVIOUS
    <2>11. E \in [DOMAIN entry \cup {new} -> [Index -> Entries]]
      <3>1. [k \in Index |-> Uncleared] \in [Index -> Entries]
        BY DEF Entries
      <3>2. [entry[pdpt] EXCEPT ![d] = new] \in [Index -> Entries]
        <4>1. entry[pdpt] \in [Index -> Entries] /\ new \in Int
          BY <1>2, <1>4, <2>3
        <4> QED BY <4>1 DEF Entries
      <3> QED BY <1>4, <3>1, <3>2
    <2>12. \A t \in DOMAIN entry \ {new, pdpt} : E[t] = entry[t]
      OBVIOUS
    <2> HIDE DEF E
    <2>13. entry' = [E EXCEPT ![new] = [E[new] EXCEPT ![c] = mapped]]
      BY <1>1, <2>2, <2>9, Zenon
    <2>14. [E[new] EXCEPT ![c] = mapped] \in [Index -> Entries]
           /\ [E[new] EXCEPT ![c] = mapped][c] = mapped
      BY <2>10 DEF Entries
    <2>15. /\ entry' \in [DOMAIN entry \cup {new} -> [Index -> Entries]]
           /\ entry'[new][c] = mapped
           /\ \A t \in (DOMAIN entry \cup {new}) \ {new} : entry'[t] = E[t]
      BY <2>11, <2>13, <2>14
    <2>16. entry'[pdpt] = E[pdpt]
      BY <1>2, <1>4, <2>5, <2>15
    <2>17. address' = new + PageSize /\ taken' = taken \cup {new}
      BY <1>1, <2>2
    <2>18. Wrote(new, d, c)
      <3>1. new = align(address, PageSize)
        BY DEF new
      <3>2. \A t \in DOMAIN entry \ {new, pdpt} : entry'[t] = entry[t]
        BY <2>12, <2>15
      <3>3. \A i \in Index : entry'[pdpt][i] = IF i = d THEN new ELSE entry[pdpt][i]
        BY <2>8, <2>16
      <3>4. new \in Int
        BY <2>3
      <3> QED BY <1>8, <2>4, <2>5, <2>15, <2>17, <3>1, <3>2, <3>3, <3>4, Zenon DEF Wrote
    <2> QED BY <2>18
  <1> QED BY <1>7, <1>8

LEMMA WrittenMiddle ==
  ASSUME TablesInv, NEW d \in Middle, NEW c \in Index, NEW pd, Wrote(pd, d, c)
  PROVE  /\ TablesInv' /\ pd \in taken' /\ pd \in Nat
         /\ \A i \in Middle \ {d} : entry[pdpt][i] # pd
  <1>1. /\ entry \in [DOMAIN entry -> [Index -> Entries]]
        /\ DOMAIN entry = (pml4 .. -1) \cup taken
        /\ address \in Nat /\ \A t \in taken : t \in Nat /\ t + PageSize <= address
    BY DEF TablesInv
  <1>2. /\ pml4 = -6 /\ pdpt = -5 /\ Directory0To3 = -4 .. -1 /\ None \notin Int
        /\ d \in Index
    <2>1. Middle \subseteq Index
      <3>1. TableEntries \in Nat
        BY TableSizes
      <3> QED BY <3>1 DEF Middle, Index
    <2> QED BY <2>1, BootTables, NoneAssumption
  <1>3. PICK P \in Nat \ {0} : P = PageSize
    BY SizeAssumption
  <1>4. pd \in Nat /\ pd \in taken' /\ taken' = taken \cup {pd}
        /\ address' \in Nat /\ address <= address' /\ pd + PageSize <= address'
    <2>1. CASE entry[pdpt][d] # None
      <3>1. pd \in taken /\ UNCHANGED <<address, taken>>
        BY <2>1, <1>2 DEF Wrote, TablesInv
      <3> QED BY <3>1, <1>1
    <2>2. CASE entry[pdpt][d] = None
      <3>1. pd = align(address, P) /\ address' = pd + P /\ taken' = taken \cup {pd}
        BY <2>2, <1>3 DEF Wrote
      <3>2. PICK x \in Nat, y \in Nat : x = address /\ y = pd /\ x <= y
        BY <3>1, <1>1, Aligned
      <3>3. y + P \in Nat /\ x <= y + P
        BY <3>2
      <3> QED BY <1>3, <3>1, <3>2, <3>3
    <2> QED BY <2>1, <2>2
  <1>5. \A i \in Middle \ {d} : entry[pdpt][i] # pd
    <2>1. CASE entry[pdpt][d] # None
      BY <2>1 DEF Wrote, TablesInv
    <2>2. CASE entry[pdpt][d] = None
      <3>1. pd \notin taken /\ pd # None
        BY <2>2, <1>1, <1>2, <1>4 DEF Wrote
      <3> QED BY <3>1 DEF TablesInv
    <2> QED BY <2>1, <2>2
  <1>6. entry' \in [(pml4 .. -1) \cup taken' -> [Index -> Entries]]
    BY <1>1, <1>4 DEF Wrote
  <1>7. \A t \in taken' : t \in Nat /\ t + PageSize <= address'
    <2> SUFFICES ASSUME NEW t \in taken' PROVE t \in Nat /\ t + PageSize <= address'
      OBVIOUS
    <2>1. CASE t = pd
      BY <2>1, <1>4
    <2>2. CASE t \in taken
      <3>1. PICK x \in Nat, y \in Nat, z \in Nat : x = t /\ y = address /\ z = address'
        BY <2>2, <1>1, <1>4
      <3>2. x + P <= y /\ y <= z
        BY <3>1, <2>2, <1>1, <1>3, <1>4
      <3>3. x + P <= z
        BY <3>2
      <3> QED BY <3>1, <3>3, <1>3
    <2> QED BY <2>1, <2>2, <1>4
  <1>8. \A t \in {-6} \cup -4 .. -1 : entry'[t] = entry[t]
    <2>1. \A t \in {-6} \cup -4 .. -1 : t \in -6 .. -1 /\ t # -5 /\ t # pd
      BY <1>4
    <2> QED BY <2>1, <1>1, <1>2 DEF Wrote
  <1>9. \A i \in Index : entry'[pml4][i] = BootEntry(pml4, i)
    BY <1>8, <1>2 DEF TablesInv
  <1>10. \A t \in Directory0To3, i \in Index : entry'[t][i] = BootEntry(t, i)
    BY <1>8, <1>2 DEF TablesInv
  <1>11. \A i \in Index \ Middle : entry'[pdpt][i] = BootEntry(pdpt, i)
    BY DEF TablesInv, Wrote
  <1>12. Middle \subseteq Index
    <2>1. TableEntries \in Nat
      BY TableSizes
    <2> QED BY <2>1 DEF Middle, Index
  <1>13. \A i \in Middle : entry'[pdpt][i] = IF i = d THEN pd ELSE entry[pdpt][i]
    BY <1>12 DEF Wrote
  <1>14. \A i \in Middle : entry'[pdpt][i] \in taken' \cup {None}
    BY <1>4, <1>13 DEF TablesInv
  <1>15. \A i, j \in Middle : entry'[pdpt][i] # None /\ i # j => entry'[pdpt][i] # entry'[pdpt][j]
    BY <1>5, <1>13 DEF TablesInv
  <1> QED BY <1>4, <1>5, <1>6, <1>7, <1>9, <1>10, <1>11, <1>14, <1>15 DEF TablesInv

\* A big page that bootstrap.S has mapped already is mapped to the same address.
LEMMA WrittenSame ==
  ASSUME TablesInv, NEW k \in 0 .. 3, NEW d \in Index \ Middle, BootEntry(pdpt, d) = PageDirectory(k),
         NEW c \in Index, NEW pd, Wrote(pd, d, c), mapped = BootEntry(PageDirectory(k), c)
  PROVE  UNCHANGED <<entry, address, taken>>
  <1>1. /\ entry \in [DOMAIN entry -> [Index -> Entries]]
        /\ DOMAIN entry = (pml4 .. -1) \cup taken
        /\ entry[pdpt][d] = PageDirectory(k)
    BY DEF TablesInv
  <1>2. PageDirectory(k) # None /\ PageDirectory(k) \in Directory0To3
        /\ pml4 = -6 /\ pdpt = -5 /\ Directory0To3 = -4 .. -1
    <2>1. PageDirectory(k) \in Int
      BY DEF PageDirectory
    <2> QED BY <2>1, BootTables, NoneAssumption
  <1>3. /\ pd = PageDirectory(k) /\ UNCHANGED <<address, taken>> /\ pd \in DOMAIN entry
        /\ entry[pd][c] = mapped
    BY <1>1, <1>2 DEF Wrote, TablesInv
  <1>4. entry' \in [DOMAIN entry -> [Index -> Entries]]
    BY <1>3 DEF Wrote
  <1>5. pdpt \in DOMAIN entry
    <2>1. -5 \in -6 .. -1
      OBVIOUS
    <2> QED BY <2>1, <1>1, <1>2
  <1>6. \A i \in Index : entry'[pd][i] = entry[pd][i]
    BY <1>3 DEF Wrote
  <1>7. \A i \in Index : entry'[pdpt][i] = entry[pdpt][i]
    BY <1>1, <1>3 DEF Wrote
  <1>8. entry'[pd] = entry[pd] /\ entry'[pdpt] = entry[pdpt]
    BY <1>1, <1>3, <1>4, <1>5, <1>6, <1>7
  <1>9. \A t \in DOMAIN entry : entry'[t] = entry[t]
    BY <1>8 DEF Wrote
  <1>10. entry' = entry
    BY <1>1, <1>4, <1>9
  <1> QED BY <1>3, <1>10

LEMMA RoundingGrows ==
  ASSUME NEW a \in Nat, NEW b \in Nat, NEW n \in Nat \ {0}, a <= b
  PROVE  div_up(a, n) <= div_up(b, n)
  <1>1. PICK x \in Nat, y \in Nat : /\ x = div_up(a, n) /\ y = div_up(b, n)
                                    /\ x > 0 => (x - 1) * n < a
                                    /\ y * n >= b
    BY Rounding
  <1>2. ASSUME y < x PROVE FALSE
    <2>1. x > 0 /\ y <= x - 1 /\ x - 1 \in Int
      BY <1>2
    <2>2. y * n <= (x - 1) * n /\ y * n \in Int /\ (x - 1) * n \in Int
      BY <2>1, Monotone
    <2> QED BY <1>1, <2>1, <2>2
  <1> QED BY <1>1, <1>2

\* The processor finds big page n at HIGH_BASE.
Leads(n) == LET pd == entry[pdpt][In(n)] IN pd \in Int /\ entry[pd][At(n)] = n * BigPage

MappedTo(x) == \A n \in Nat : n * BigPage < x => Leads(n)

LEMMA MappedFurther ==
  ASSUME TablesInv, NEW n \in Nat, mapped = n * BigPage, mapped' = mapped + BigPage,
         MappedTo(mapped), In(n) \in Middle, NEW pd, Wrote(pd, In(n), At(n))
  PROVE  MappedTo(mapped)'
  <1>1. PICK P \in Nat \ {0}, B \in Nat \ {0}, T \in Nat :
          P = PdEntries /\ B = BigPage /\ T = TableEntries /\ T >= 6 /\ P <= T
    BY TableSizes
  <1>2. PICK d \in Nat, c \in Nat : d = In(n) /\ c = At(n) /\ c < P /\ n = d * P + c /\ d < T - 2
    <2>1. In(n) \in Nat /\ At(n) \in Nat /\ At(n) < PdEntries /\ n = In(n) * PdEntries + At(n)
      BY BigPages
    <2>2. In(n) < T - 2
      BY <1>1, <2>1 DEF Middle
    <2> QED BY <1>1, <2>1, <2>2
  <1>3. c \in Index /\ d \in Middle
    BY <1>1, <1>2 DEF Index
  <1>4. pd \in Nat /\ \A i \in Middle \ {d} : entry[pdpt][i] # pd
    BY <1>2, <1>3, WrittenMiddle
  <1>5. /\ pdpt = -5 /\ None \notin Int /\ DOMAIN entry = (pml4 .. -1) \cup taken /\ pml4 = -6
        /\ \A i \in 0 .. 3 : entry[pdpt][i] \in -4 .. -1
    BY BootTables, NoneAssumption DEF TablesInv
  <1>6. Leads(n)'
    <2>1. entry'[pdpt][d] = pd /\ entry'[pd][c] = n * BigPage /\ pd \in Int
      <3>1. d \in Index
        BY <1>1, <1>2 DEF Index
      <3> QED BY <1>2, <1>4, <1>5, <3>1 DEF Wrote
    <2> QED BY <2>1, <1>2 DEF Leads
  <1>7. ASSUME NEW m \in Nat, m < n PROVE Leads(m)'
    <2>1. Leads(m)
      <3>1. m * B <= n * B /\ ~ (n * B <= m * B) /\ m * B \in Int /\ n * B \in Int
        BY <1>7, Monotone
      <3>2. m * B < n * B
        BY <3>1
      <3> QED BY <3>2, <1>1 DEF MappedTo
    <2>2. PICK e \in Nat, k \in Nat : e = In(m) /\ k = At(m) /\ k < P /\ m = e * P + k
      <3>1. In(m) \in Nat /\ At(m) \in Nat /\ At(m) < PdEntries /\ m = In(m) * PdEntries + At(m)
        BY BigPages
      <3> QED BY <1>1, <3>1
    <2>3. e <= d
      <3>1. ASSUME d < e PROVE FALSE
        <4>1. d + 1 <= e /\ d + 1 \in Int
          BY <3>1
        <4>2. (d + 1) * P <= e * P /\ (d + 1) * P = d * P + P
          BY <4>1, Monotone
        <4>3. d * P \in Int /\ e * P \in Int
          OBVIOUS
        <4> QED BY <4>2, <4>3, <1>2, <1>7, <2>2
      <3> QED BY <3>1
    <2>4. e \in Index /\ k \in Index /\ (e \in Middle \/ e \in 0 .. 3)
      <3>1. e < T - 2 /\ k < T /\ T - 2 < T
        BY <1>1, <1>2, <2>2, <2>3
      <3>2. e \in Index /\ k \in Index /\ e < TableEntries - 2
        BY <1>1, <3>1 DEF Index
      <3> QED BY <3>2, BootTables
    <2>5. PICK q : /\ q = entry[pdpt][e] /\ q \in Int /\ q # None
                   /\ entry[q][k] = m * BigPage
      BY <2>1, <2>2, <1>5 DEF Leads
    <2>6. entry'[pdpt][e] = IF e = d THEN pd ELSE q
      BY <1>2, <2>4, <2>5 DEF Wrote
    <2>7. CASE e = d
      <3>1. q = pd /\ pd \in DOMAIN entry
        BY <2>5, <2>7, <1>2 DEF Wrote
      <3>2. k # c
        BY <1>2, <1>7, <2>2, <2>7
      <3>3. entry'[pd][k] = entry[pd][k]
        BY <3>1, <3>2, <1>2, <2>4 DEF Wrote
      <3> QED BY <2>2, <2>5, <2>6, <2>7, <3>1, <3>3 DEF Leads
    <2>8. CASE e # d
      <3>1. q # pd /\ q \in DOMAIN entry /\ q # pdpt
        <4>1. CASE e \in 0 .. 3
          <5>1. q \in -4 .. -1
            BY <4>1, <1>5, <2>5
          <5>2. q \in -6 .. -1 /\ q # -5 /\ q \notin Nat
            BY <5>1
          <5> QED BY <5>2, <1>4, <1>5
        <4>2. CASE e \in Middle
          <5>1. q \in taken /\ q \in Nat
            BY <4>2, <2>5 DEF TablesInv
          <5>2. q # -5
            BY <5>1
          <5> QED BY <4>2, <5>1, <5>2, <1>4, <1>5, <2>5, <2>8
        <4> QED BY <4>1, <4>2, <2>4
      <3>2. entry'[q] = entry[q]
        BY <3>1 DEF Wrote
      <3> QED BY <2>2, <2>5, <2>6, <2>8, <3>2 DEF Leads
    <2> QED BY <2>7, <2>8
  <1>8. ASSUME NEW m \in Nat, m * BigPage < mapped' PROVE Leads(m)'
    <2>1. mapped' = (n + 1) * B
      <3>1. (n + 1) * B = n * B + B
        OBVIOUS
      <3> QED BY <3>1, <1>1
    <2>2. m * B < (n + 1) * B
      BY <1>1, <1>8, <2>1
    <2>3. n + 1 \in Int /\ m \in Int /\ m * B \in Int /\ (n + 1) * B \in Int
      OBVIOUS
    <2>4. ~ (n + 1 <= m)
      BY <2>2, <2>3, Monotone
    <2>5. m < n \/ m = n
      BY <2>4
    <2> QED BY <2>5, <1>6, <1>7
  <1> QED BY <1>8 DEF MappedTo

Late == {"init_kernel_mapping", "init_pit", "sti", "running"}

Memory == get_memory_size(map)

\* Tables are taken one behind the other, at most one for each big page mapped.
Taking(n) ==
  \/ address = tables[1] /\ taken = {}
  \/ /\ address % PageSize = 0
     /\ tables[1] <= address /\ address <= tables[1] + (n + 1) * PageSize

\* What is set aside is enough for all of them.
Enough ==
  /\ tables[1] + (div_up(Memory, BigPage) + 1) * PageSize <= tables[2]
  /\ \A t \in taken : tables[1] <= t /\ t + PageSize <= tables[2]
  /\ Memory <= BootMapped => taken = {}

PagingInv ==
  /\ TablesInv
  /\ \E n \in Nat : /\ mapped = n * BigPage
                    /\ phase = "init_after_canonical_hole_mapping" => Taking(n)
  /\ phase \notin {"init_after_canonical_hole_mapping", "init_kernel_mapping", "fault"} => mapped = 0
  /\ phase = "fault" => ~ (tables[2] <= BootMapped)
  /\ phase = "init_after_canonical_hole_mapping" => MappedTo(mapped)
  /\ phase \in Late => MappedTo(Memory)
  /\ phase \notin Settled => taken = {}
  /\ phase \in Settled => Enough

LEMMA NothingMapped == MappedTo(0)
  <1>1. \A n \in Nat : ~ (n * BigPage < 0)
    <2> SUFFICES ASSUME NEW n \in Nat PROVE ~ (n * BigPage < 0)
      OBVIOUS
    <2>1. PICK B \in Nat \ {0} : B = BigPage
      BY TableSizes
    <2>2. n * B >= 0 /\ n * B \in Int
      OBVIOUS
    <2> QED BY <2>1, <2>2
  <1> QED BY <1>1 DEF MappedTo

LEMMA PagingStart == InterruptsInit => PagingInv
  <1> SUFFICES ASSUME InterruptsInit PROVE PagingInv
    OBVIOUS
  <1>1. /\ entry = [t \in pml4 .. -1 |-> [i \in Index |-> BootEntry(t, i)]]
        /\ address = 0 /\ taken = {} /\ mapped = 0 /\ phase = "get_memory_map"
    BY DEF InterruptsInit, PagingInit, Init
  <1>2. /\ pml4 = -6 /\ pdpt = -5 /\ Directory0To3 = -4 .. -1
        /\ \A t \in {-6, -5} \cup -4 .. -1 : t \in -6 .. -1
    BY BootTables
  <1>3. ASSUME NEW t \in pml4 .. -1, NEW i \in Index PROVE BootEntry(t, i) \in Entries
    <2>1. PageDirectory(i) \in Int /\ PageDirectory(i - (TableEntries - 2)) \in Int /\ pdpt \in Int
      <3>1. i \in Int /\ TableEntries \in Int
        BY TableSizes DEF Index
      <3> QED BY <3>1, <1>2 DEF PageDirectory
    <2>2. CASE t = pml4 \/ t = pdpt
      BY <2>1, <2>2, <1>2 DEF BootEntry, Entries
    <2>3. CASE t \in -4 .. -1
      <3>1. (t + 4) * PdSpan + i * BigPage \in Int
        <4>1. PICK S \in Nat, B \in Nat, k \in Int, j \in Int :
                S = PdSpan /\ B = BigPage /\ k = t + 4 /\ j = i
          BY <2>3, TableSizes DEF Index
        <4>2. k * S + j * B \in Int
          OBVIOUS
        <4> QED BY <4>1, <4>2
      <3> QED BY <3>1, <2>3, <1>2 DEF BootEntry, Entries
    <2>4. t = -6 \/ t = -5 \/ t \in -4 .. -1
      <3>1. t \in -6 .. -1
        BY <1>2
      <3> QED BY <3>1
    <2> QED BY <2>2, <2>3, <2>4, <1>2
  <1>4. TablesInv
    <2>1. entry \in [pml4 .. -1 -> [Index -> Entries]]
      BY <1>1, <1>3
    <2>2. \A t \in {-6, -5} \cup -4 .. -1, i \in Index : entry[t][i] = BootEntry(t, i)
      BY <1>1, <1>2
    <2>3. \A i \in Middle : BootEntry(pdpt, i) = None
      <3>1. PICK T \in Nat : T = TableEntries
        BY TableSizes
      <3>2. \A i \in Middle : ~ (i < 4) /\ ~ (i >= T - 2)
        BY <3>1 DEF Middle
      <3> QED BY <3>1, <3>2, <1>2 DEF BootEntry
    <2>4. Middle \subseteq Index
      <3>1. TableEntries \in Nat
        BY TableSizes
      <3> QED BY <3>1 DEF Middle, Index
    <2>5. \A i \in Middle : entry[pdpt][i] = None
      BY <2>2, <2>3, <2>4, <1>2
    <2> QED BY <1>1, <1>2, <2>1, <2>2, <2>5 DEF TablesInv
  <1>5. \E n \in Nat : mapped = n * BigPage
    <2>1. 0 * BigPage = 0
      BY TableSizes
    <2> QED BY <1>1, <2>1
  <1> QED BY <1>1, <1>4, <1>5 DEF PagingInv, Settled, Late

LEMMA Windows ==
  ASSUME BootInv, EndsInv, PagingInv
  PROVE  WindowsMapped
  <1>1. PICK P \in Nat \ {0}, B \in Nat \ {0}, T \in Nat, S \in Nat, K \in Nat :
          /\ P = PdEntries /\ B = BigPage /\ T = TableEntries /\ T >= 6 /\ P <= T
          /\ S = PdSpan /\ K = KernelSize /\ K <= 2 * S
    BY TableSizes, SizeAssumption, TablesAssumption
  <1>2. TablesInv
    BY DEF PagingInv
  <1>3. ASSUME NEW x \in Nat, NEW n \in 0 .. div_up(x, BigPage) - 1
        PROVE  n \in Nat /\ n * BigPage < x
    <2>1. PICK D \in Nat : D = div_up(x, B) /\ (D > 0 => (D - 1) * B < x)
      BY Rounding
    <2>2. n \in Nat /\ n <= D - 1 /\ D > 0 /\ n \in Int /\ D - 1 \in Int
      BY <1>1, <2>1
    <2>3. n * B <= (D - 1) * B /\ n * B \in Int /\ (D - 1) * B \in Int
      BY <2>2, Monotone
    <2>4. n * B < x
      BY <2>1, <2>2, <2>3
    <2> QED BY <2>2, <2>4, <1>1
  <1>4. \A n \in Nat : At(n) \in Index /\ In(n) \in Nat /\ At(n) \in Nat /\ At(n) < PdEntries
                       /\ n * BigPage = In(n) * PdSpan + At(n) * BigPage
    <2> TAKE n \in Nat
    <2>1. PICK c \in Nat : c = At(n) /\ c < P
      BY <1>1, BigPages
    <2>2. c \in 0 .. T - 1
      BY <1>1, <2>1
    <2> QED BY <1>1, <2>1, <2>2, BigPages DEF Index
  <1>5. /\ pdpt \in Int /\ \A k \in 0 .. 3 : PageDirectory(k) \in Int
        /\ \A x \in Int : x # None /\ x \notin {None, Uncleared}
    BY NoneAssumption, UnclearedAssumption DEF pdpt, PageDirectory
  <1>6. ASSUME NEW n \in Nat, In(n) < TableEntries, Leads(n)
        PROVE  Translated(HIGH_BASE + n * BigPage) = n * BigPage
    <2>1. PICK v : v = HIGH_BASE + n * BigPage
      OBVIOUS
    <2>2. pml4_i(v) = TableEntries \div 2 /\ pml3_i(v) = In(n) /\ pml2_i(v) = At(n)
      BY <2>1, <1>6, HighPlaces
    <2>3. entry[pml4][TableEntries \div 2] = pdpt
      BY <1>2, BootTables DEF TablesInv
    <2>4. Translated(v) = n * BigPage
      BY <2>2, <2>3, <1>5, <1>6, Zenon DEF Translated, Leads
    <2> QED BY <2>1, <2>4
  <1>7. MappedAt(KERNEL_BASE, KernelSize)
    <2> SUFFICES ASSUME NEW n \in 0 .. div_up(KernelSize, BigPage) - 1
                 PROVE  Translated(KERNEL_BASE + n * BigPage) = n * BigPage
      BY DEF MappedAt
    <2>1. n \in Nat /\ n * BigPage < K
      BY <1>1, <1>3
    <2>2. PICK k \in 0 .. 1 : k = In(n)
      <3>1. n * BigPage < 2 * PdSpan => In(n) < 2
        BY <2>1, BigPages
      <3>2. n * BigPage < 2 * PdSpan
        <4>1. n * B < K /\ n * B \in Int /\ 2 * S \in Int
          BY <1>1, <2>1
        <4> QED BY <4>1, <1>1
      <3> QED BY <3>1, <3>2, <2>1, <1>4
    <2>3. PICK v : v = KERNEL_BASE + n * BigPage
      OBVIOUS
    <2>4. pml4_i(v) = TableEntries - 1 /\ pml3_i(v) = (TableEntries - 2) + k /\ pml2_i(v) = At(n)
      <3>1. In(n) < 2
        BY <2>2
      <3> QED BY <2>1, <2>2, <2>3, <3>1, KernelPlaces
    <2>5. PICK d : /\ d = (TableEntries - 2) + k /\ d \in Index \ Middle
                   /\ BootEntry(pdpt, d) = PageDirectory(k)
      BY BootTables
    <2>6. entry[pml4][TableEntries - 1] = pdpt /\ entry[pdpt][d] = PageDirectory(k)
      BY <1>2, <2>5, BootTables DEF TablesInv
    <2>7. k \in 0 .. 3
      OBVIOUS
    <2>8. entry[PageDirectory(k)][At(n)] = k * PdSpan + At(n) * BigPage
      <3>1. PageDirectory(k) \in Directory0To3
            /\ BootEntry(PageDirectory(k), At(n)) = k * PdSpan + At(n) * BigPage
        BY <1>4, <2>1, <2>7, BootTables
      <3> QED BY <3>1, <1>2, <1>4, <2>1 DEF TablesInv
    <2>9. Translated(v) = n * BigPage
      <3>1. Translated(v) = entry[PageDirectory(k)][At(n)]
        BY <2>4, <2>5, <2>6, <2>7, <1>5, Zenon DEF Translated
      <3> QED BY <3>1, <2>1, <2>2, <2>8, <1>4
    <2> QED BY <2>3, <2>9
  <1>8. ASSUME NEW n \in Nat, In(n) \in 0 .. 3
        PROVE  Leads(n) /\ In(n) < TableEntries
    <2>1. PICK k \in 0 .. 3 : k = In(n) /\ k \in Index \ Middle /\ BootEntry(pdpt, k) = PageDirectory(k)
      BY <1>8, BootTables
    <2>2. entry[pdpt][k] = PageDirectory(k)
      BY <1>2, <2>1 DEF TablesInv
    <2>3. entry[PageDirectory(k)][At(n)] = k * PdSpan + At(n) * BigPage
      <3>1. PageDirectory(k) \in Directory0To3
            /\ BootEntry(PageDirectory(k), At(n)) = k * PdSpan + At(n) * BigPage
        BY <1>4, BootTables
      <3> QED BY <3>1, <1>2, <1>4 DEF TablesInv
    <2>4. Leads(n)
      BY <2>1, <2>2, <2>3, <1>4, <1>5 DEF Leads
    <2>5. k < T
      BY <1>1
    <2> QED BY <1>1, <2>1, <2>4, <2>5
  <1>9. MappedAt(HIGH_BASE, BootMapped)
    <2> SUFFICES ASSUME NEW n \in 0 .. div_up(BootMapped, BigPage) - 1
                 PROVE  Translated(HIGH_BASE + n * BigPage) = n * BigPage
      BY DEF MappedAt
    <2>1. PICK x \in Nat : x = BootMapped /\ x = 4 * PdSpan
      BY <1>1 DEF BootMapped
    <2>2. n \in Nat /\ n * BigPage < 4 * PdSpan
      BY <2>1, <1>3
    <2>3. In(n) < 4 /\ In(n) \in Nat
      BY <2>2, BigPages
    <2>4. In(n) \in 0 .. 3
      BY <2>3
    <2> QED BY <2>2, <2>4, <1>6, <1>8
  <1>10. ASSUME phase \in Late PROVE MappedAt(HIGH_BASE, get_memory_size(map))
    <2> SUFFICES ASSUME NEW n \in 0 .. div_up(get_memory_size(map), BigPage) - 1
                 PROVE  Translated(HIGH_BASE + n * BigPage) = n * BigPage
      BY DEF MappedAt
    <2>1. map \in Seq(Regions) /\ map \in Seq(Ending(Highest)) /\ Highest \in Nat
      BY TableSizes DEF BootInv, EndsInv
    <2>2. PICK M \in Nat : M = get_memory_size(map) /\ M <= Highest
      BY <2>1, MemorySize, SizeOfEnding
    <2>3. n \in Nat /\ n * BigPage < M
      BY <2>2, <1>3
    <2>4. Leads(n)
      BY <2>2, <2>3, <1>10 DEF PagingInv, MappedTo, Memory
    <2>5. In(n) < TableEntries
      <3>1. PICK k \in Nat, h \in Nat : k = T - 2 /\ k < T /\ h = Highest /\ h = k * PdSpan
        BY <1>1, <2>1 DEF Highest
      <3>2. n * BigPage < k * PdSpan
        <4>1. n * B < M /\ n * B \in Int /\ M <= h
          BY <1>1, <2>2, <2>3, <3>1
        <4> QED BY <4>1, <1>1, <3>1
      <3>3. In(n) < k
        BY <3>2, <2>3, BigPages
      <3>4. In(n) \in Nat
        BY <1>4, <2>3
      <3> QED BY <1>1, <3>1, <3>3, <3>4
    <2> QED BY <2>3, <2>4, <2>5, <1>6
  <1> QED BY <1>7, <1>9, <1>10 DEF WindowsMapped, Late

\* Where init_entry goes from the tables as they are
S0 == [entry |-> entry, address |-> address, taken |-> taken]
S1(a) == init_entry(S0, pml4, a)
Pdpte(a) == S1(a).entry[pml4][a]
Pde(a, d) == init_entry(S1(a), Pdpte(a), d).entry[Pdpte(a)][d]

LEMMA NextDirectory ==
  ASSUME TablesInv, NEW a \in {TableEntries \div 2, TableEntries - 1}, NEW d \in Index
  PROVE  /\ Pdpte(a) = pdpt
         /\ entry[pdpt][d] # None => Pde(a, d) = entry[pdpt][d]
         /\ entry[pdpt][d] = None => Pde(a, d) = align(address, PageSize)
  <1>1. /\ pml4 = -6 /\ pdpt = -5 /\ a \in Index /\ BootEntry(pml4, a) = pdpt
        /\ pml4 \in pml4 .. -1 /\ pdpt \in pml4 .. -1 /\ None \notin Int
    <2>1. -6 \in -6 .. -1 /\ -5 \in -6 .. -1
      OBVIOUS
    <2> QED BY <2>1, BootTables, NoneAssumption
  <1>2. /\ entry \in [DOMAIN entry -> [Index -> Entries]]
        /\ DOMAIN entry = (pml4 .. -1) \cup taken
        /\ entry[pml4][a] = pdpt /\ address \in Nat
    BY <1>1 DEF TablesInv
  <1>3. S1(a) = S0 /\ S0.entry = entry /\ S0.address = address
    <2>1. S0.entry = entry /\ S0.address = address
      BY DEF S0
    <2>2. ~ Absent(S0.entry[pml4][a])
      BY <2>1, <1>1, <1>2 DEF Absent
    <2> QED BY <2>1, <2>2, Zenon DEF S1, init_entry
  <1>4. Pdpte(a) = pdpt
    BY <1>2, <1>3 DEF Pdpte
  <1>5. Pde(a, d) = init_entry(S0, pdpt, d).entry[pdpt][d]
    BY <1>3, <1>4 DEF Pde
  <1>6. ASSUME entry[pdpt][d] # None PROVE Pde(a, d) = entry[pdpt][d]
    <2>1. init_entry(S0, pdpt, d) = S0
      BY <1>3, <1>6, Zenon DEF init_entry, Absent
    <2> QED BY <2>1, <1>3, <1>5
  <1>7. ASSUME entry[pdpt][d] = None PROVE Pde(a, d) = align(address, PageSize)
    <2> DEFINE new == align(address, PageSize)
               E == [u \in DOMAIN entry \cup {new} |->
                       IF u = new THEN [k \in Index |-> Uncleared]
                       ELSE IF u = pdpt THEN [entry[pdpt] EXCEPT ![d] = new] ELSE entry[u]]
    <2>1. init_entry(S0, pdpt, d) =
            [entry |-> E, address |-> new + PageSize, taken |-> S0.taken \cup {new}]
      BY <1>3, <1>7, Zenon DEF init_entry, Absent
    <2>2. init_entry(S0, pdpt, d).entry = E
      <3> HIDE DEF E, new
      <3> QED BY <2>1
    <2>3. new \in Nat
      BY <1>2, SizeAssumption, Aligned
    <2>4. E[pdpt][d] = new
      <3>1. new # pdpt
        BY <2>3, <1>1
      <3>2. pdpt \in DOMAIN entry /\ DOMAIN entry[pdpt] = Index
        BY <1>1, <1>2
      <3> HIDE DEF new
      <3>3. E[pdpt] = [entry[pdpt] EXCEPT ![d] = new]
        BY <3>1, <3>2
      <3> QED BY <3>2, <3>3
    <2> QED BY <1>5, <2>2, <2>4
  <1> QED BY <1>4, <1>6, <1>7

\* The step of make_paging that faults
LEMMA Faulting ==
  ASSUME NEW base, NEW end, MakePaging(base, end), phase # "fault", phase' = "fault",
         NEW a, a = pml4_i(base + mapped), NEW d, d = pml3_i(base + mapped)
  PROVE  ~ (Reached(Pdpte(a)) /\ Reached(Pde(a, d))) /\ UNCHANGED paging
  <1>1. \/ UNCHANGED vars
        \/ ~ (Reached(Pdpte(a)) /\ Reached(Pde(a, d))) /\ UNCHANGED paging
    BY Zenon DEF MakePaging, Pdpte, Pde, S1, S0
  <1> QED BY <1>1 DEF vars

LEMMA MappedIsReached ==
  ASSUME MappedAt(HIGH_BASE, BootMapped), NEW t \in Nat, t < BootMapped
  PROVE  Reached(t)
  <1>1. PICK B \in Nat \ {0}, M \in Nat : B = BigPage /\ M = BootMapped
    <2>1. PICK S \in Nat : S = PdSpan
      BY TableSizes
    <2> QED BY <2>1, TableSizes DEF BootMapped
  <1>2. PICK n \in Nat : n = t \div B /\ n * B <= t
    <2>1. t \div B \in Nat /\ t % B \in Nat /\ t = (t \div B) * B + (t % B)
      BY Division
    <2>2. (t \div B) * B \in Int
      BY <2>1
    <2> QED BY <2>1, <2>2
  <1>3. PICK D \in Nat : D = div_up(M, B) /\ D * B >= M
    BY Rounding
  <1>4. n \in 0 .. D - 1
    <2>1. n * B < D * B /\ n * B \in Int /\ D * B \in Int
      BY <1>1, <1>2, <1>3
    <2>2. ~ (D <= n)
      BY <2>1, Monotone
    <2> QED BY <2>2
  <1>5. Translated(HIGH_BASE + n * BigPage) = n * BigPage
    BY <1>1, <1>3, <1>4 DEF MappedAt
  <1> QED BY <1>1, <1>2, <1>5 DEF Reached

\* The next table fits into what is set aside.
LEMMA NextFits ==
  ASSUME NEW n \in Nat, n * BigPage < Memory, Memory \in Nat, Taking(n), Enough,
         address \in Nat, tables[1] \in Nat, tables[2] \in Nat, NEW y, y = align(address, PageSize)
  PROVE  /\ y \in Nat /\ address <= y /\ tables[1] <= y /\ (y + PageSize) % PageSize = 0
         /\ y + PageSize <= tables[1] + (n + 1 + 1) * PageSize
         /\ y + PageSize <= tables[2]
  <1>1. PICK B \in Nat \ {0}, Z \in Nat \ {0}, M \in Nat, x \in Nat, s \in Nat, e \in Nat :
          B = BigPage /\ Z = PageSize /\ M = Memory /\ x = address /\ s = tables[1] /\ e = tables[2]
    BY TableSizes
  <1>2. y \in Nat /\ x <= y /\ y < x + Z /\ y % Z = 0 /\ (x % Z = 0 => y = x)
    BY <1>1, Aligned
  <1>3. PICK m \in Nat : m = n + 1
    OBVIOUS
  <1>4. (m + 1) * Z = n * Z + Z + Z /\ (n + 1) * Z = n * Z + Z /\ n * Z \in Nat
    <2>1. (n + 1 + 1) * Z = n * Z + Z + Z /\ (n + 1) * Z = n * Z + Z
      OBVIOUS
    <2>2. n * Z \in Nat
      OBVIOUS
    <2> QED BY <2>1, <2>2, <1>3
  <1>5. s <= y /\ y + Z <= s + (m + 1) * Z
    <2>1. CASE x = s
      BY <2>1, <1>2, <1>4
    <2>2. CASE x % Z = 0 /\ s <= x /\ x <= s + (n + 1) * Z
      BY <2>2, <1>2, <1>4
    <2>3. \/ x = s
          \/ x % Z = 0 /\ s <= x /\ x <= s + (n + 1) * Z
      BY <1>1 DEF Taking
    <2> QED BY <2>1, <2>2, <2>3
  <1>6. (y + Z) % Z = 0
    <2>1. PICK q \in Nat : y = q * Z
      <3>1. y \div Z \in Nat /\ y = (y \div Z) * Z + (y % Z)
        BY <1>2, Division
      <3>2. y = (y \div Z) * Z
        BY <3>1, <1>2
      <3> QED BY <3>1, <3>2
    <2>2. (q + 1) \in Nat /\ ((q + 1) * Z + 0) % Z = 0
      <3>1. PICK p \in Nat : p = q + 1
        OBVIOUS
      <3>2. (p * Z + 0) % Z = 0
        <4>1. 0 \in Nat /\ 0 < Z
          OBVIOUS
        <4> QED BY <4>1, Digits
      <3> QED BY <3>1, <3>2
    <2>3. (q + 1) * Z + 0 = q * Z + Z
      OBVIOUS
    <2> QED BY <2>1, <2>2, <2>3
  <1>7. y + Z <= e
    <2>1. PICK D \in Nat : D = div_up(M, B) /\ D * B >= M
      BY Rounding
    <2>2. m + 1 <= D + 1
      <3>1. n * B < D * B /\ n * B \in Int /\ D * B \in Int
        BY <2>1, <1>1
      <3>2. ~ (D <= n)
        BY <3>1, Monotone
      <3> QED BY <3>2, <1>3
    <2>3. (m + 1) * Z <= (D + 1) * Z /\ (m + 1) * Z \in Int /\ (D + 1) * Z \in Int
      <3>1. m + 1 \in Int /\ D + 1 \in Int
        OBVIOUS
      <3> QED BY <3>1, <2>2, Monotone
    <2>4. s + (D + 1) * Z <= e
      BY <2>1, <1>1 DEF Enough
    <2> QED BY <2>3, <2>4, <1>5, <1>2
  <1> QED BY <1>1, <1>2, <1>3, <1>5, <1>6, <1>7

\* Where init_after_canonical_hole_mapping is when it maps big page n.
LEMMA NextHigh ==
  ASSUME BootInv, EndsInv, NEW n \in Nat, mapped = n * BigPage, mapped < Memory
  PROVE  /\ In(n) \in Index /\ At(n) \in Index /\ In(n) \in Middle \cup 0 .. 3
         /\ In(n) \in Nat /\ In(n) < TableEntries - 2 /\ At(n) \in Nat /\ At(n) < PdEntries
         /\ pml4_i(HIGH_BASE + mapped) = TableEntries \div 2
         /\ pml3_i(HIGH_BASE + mapped) = In(n) /\ pml2_i(HIGH_BASE + mapped) = At(n)
         /\ mapped \in Int /\ Memory \in Nat
  <1>1. PICK P \in Nat \ {0}, B \in Nat \ {0}, T \in Nat :
          P = PdEntries /\ B = BigPage /\ T = TableEntries /\ T >= 6 /\ P <= T
    BY TableSizes
  <1>2. PICK M \in Nat : M = Memory
    BY MemorySize DEF BootInv, Memory
  <1>3. n * B < M /\ n * B \in Int
    BY <1>1, <1>2
  <1>4. M <= Highest
    <2>1. map \in Seq(Regions) /\ map \in Seq(Ending(Highest)) /\ Highest \in Nat
      BY TableSizes DEF BootInv, EndsInv
    <2>2. get_memory_size(map) <= Highest
      BY <2>1, SizeOfEnding
    <2> QED BY <1>2, <2>2 DEF Memory
  <1>5. PICK d \in Nat, c \in Nat : d = In(n) /\ c = At(n) /\ c < P /\ d < T - 2
    <2>1. In(n) \in Nat /\ At(n) \in Nat /\ At(n) < PdEntries
          /\ \A k \in Nat : n * BigPage < k * PdSpan => In(n) < k
      BY BigPages
    <2>2. PICK k \in Nat, h \in Nat : k = T - 2 /\ h = Highest /\ h = k * PdSpan
      BY <1>1, TableSizes DEF Highest
    <2>3. n * B < h
      BY <1>3, <1>4, <2>2
    <2>4. In(n) < k
      BY <2>1, <2>2, <2>3, <1>1
    <2> QED BY <2>1, <2>2, <2>4, <1>1
  <1>6. c \in Index /\ d \in Index /\ (d \in Middle \/ d \in 0 .. 3)
    <2>1. c < T /\ d < T
      BY <1>1, <1>5
    <2>2. c \in Index /\ d \in Index /\ d < TableEntries - 2
      BY <1>1, <1>5, <2>1 DEF Index
    <2> QED BY <2>2, BootTables
  <1>7. In(n) < TableEntries
    BY <1>1, <1>5
  <1>8. PICK v : v = HIGH_BASE + n * BigPage
    OBVIOUS
  <1>9. pml4_i(v) = TableEntries \div 2 /\ pml3_i(v) = In(n) /\ pml2_i(v) = At(n)
    BY <1>7, <1>8, HighPlaces
  <1>10. v = HIGH_BASE + mapped /\ mapped \in Int
    BY <1>1, <1>3, <1>8
  <1> QED BY <1>1, <1>2, <1>5, <1>6, <1>9, <1>10

\* It faults where no table is mapped by bootstrap.S only.
LEMMA HighFault ==
  ASSUME BootInv, EndsInv, PagingInv, phase = "init_after_canonical_hole_mapping",
         MakePaging(HIGH_BASE, Memory), phase' = "fault"
  PROVE  PagingInv'
  <1>1. mapped < Memory /\ UNCHANGED <<map, tables>>
    <2>1. mapped < Memory
      BY Zenon DEF MakePaging
    <2> QED BY <2>1, MakePagingOnly
  <1>2. TablesInv /\ Enough
    BY DEF PagingInv, Settled
  <1>3. PICK n \in Nat : mapped = n * BigPage /\ Taking(n)
    BY DEF PagingInv
  <1>4. PICK d \in Index, a \in {TableEntries \div 2, TableEntries - 1} :
          /\ d \in Middle \/ d \in 0 .. 3
          /\ pml4_i(HIGH_BASE + mapped) = a /\ pml3_i(HIGH_BASE + mapped) = d
    BY <1>1, <1>3, NextHigh
  <1>5. Memory \in Nat /\ n * BigPage < Memory
    BY <1>1, <1>3, NextHigh
  <1>6. ~ (Reached(Pdpte(a)) /\ Reached(Pde(a, d))) /\ UNCHANGED paging
    BY <1>4, Faulting
  <1>7. /\ Pdpte(a) = pdpt
        /\ entry[pdpt][d] # None => Pde(a, d) = entry[pdpt][d]
        /\ entry[pdpt][d] = None => Pde(a, d) = align(address, PageSize)
    BY <1>2, NextDirectory
  <1>8. PICK t : t = Pde(a, d) /\ ~ Reached(t) /\ ~ (t < 0)
    <2>1. Reached(pdpt)
      BY BootTables DEF Reached
    <2> QED BY <2>1, <1>6, <1>7 DEF Reached
  <1>9. address \in Nat /\ tables[1] \in Nat /\ tables[2] \in Nat
    BY <1>2 DEF TablesInv, BootInv, Settled
  <1>10. t \in Nat /\ t + PageSize <= tables[2]
    <2>1. CASE entry[pdpt][d] = None
      <3>1. t = align(address, PageSize)
        BY <2>1, <1>7, <1>8
      <3> QED BY <3>1, <1>2, <1>3, <1>5, <1>9, NextFits
    <2>2. CASE entry[pdpt][d] # None
      <3>1. t = entry[pdpt][d]
        BY <2>2, <1>7, <1>8
      <3>2. d \in Middle
        <4>1. ASSUME d \in 0 .. 3 PROVE FALSE
          <5>1. t \in Directory0To3 /\ Directory0To3 = -4 .. -1
            BY <3>1, <4>1, <1>2, BootTables DEF TablesInv
          <5> QED BY <5>1, <1>8
        <4> QED BY <4>1, <1>4
      <3>3. t \in taken
        BY <3>1, <3>2, <2>2, <1>2 DEF TablesInv
      <3> QED BY <3>3, <1>2 DEF TablesInv, Enough
    <2> QED BY <2>1, <2>2
  <1>11. ~ (tables[2] <= BootMapped)
    <2> SUFFICES ASSUME tables[2] <= BootMapped PROVE FALSE
      OBVIOUS
    <2>1. PICK M \in Nat, Z \in Nat \ {0}, e \in Nat : M = BootMapped /\ Z = PageSize /\ e = tables[2]
      <3>1. PICK S \in Nat : S = PdSpan
        BY TableSizes
      <3> QED BY <3>1, <1>9, TableSizes DEF BootMapped
    <2>2. t < BootMapped
      BY <2>1, <1>10
    <2>3. MappedAt(HIGH_BASE, BootMapped)
      BY Windows DEF WindowsMapped
    <2> QED BY <2>2, <2>3, <1>8, <1>10, MappedIsReached
  <1>12. UNCHANGED <<entry, address, taken, mapped>>
    BY <1>6 DEF paging
  <1>13. TablesInv' = TablesInv /\ Enough' = Enough
    BY <1>1, <1>12 DEF TablesInv, Enough, Memory
  <1> QED BY <1>1, <1>2, <1>3, <1>11, <1>12, <1>13 DEF PagingInv, Settled, Late

\* init_after_canonical_hole_mapping maps one more big page.
LEMMA HighStep ==
  ASSUME BootInv, EndsInv, PagingInv, phase = "init_after_canonical_hole_mapping",
         MakePaging(HIGH_BASE, Memory), phase' # "fault"
  PROVE  PagingInv'
  <1>1. /\ UNCHANGED <<phase, map, tables>> /\ mapped' = mapped + BigPage /\ mapped < Memory
    <2>1. mapped < Memory /\ mapped' = mapped + BigPage
      BY Zenon DEF MakePaging
    <2> QED BY <2>1, MakePagingOnly
  <1>2. TablesInv /\ MappedTo(mapped) /\ Enough /\ phase \in Settled /\ phase \notin Late
    BY DEF PagingInv, Settled, Late
  <1>3. PICK n \in Nat : mapped = n * BigPage /\ Taking(n)
    BY DEF PagingInv
  <1>4. PICK P \in Nat \ {0}, B \in Nat \ {0}, T \in Nat, Z \in Nat \ {0} :
          P = PdEntries /\ B = BigPage /\ T = TableEntries /\ T >= 6 /\ P <= T /\ Z = PageSize
    BY TableSizes
  <1>5. PICK M \in Nat : M = Memory
    BY <1>1, <1>3, NextHigh
  <1>6. n * B < M
    BY <1>1, <1>3, <1>4, <1>5
  <1>8. PICK d \in Nat, c \in Nat : d = In(n) /\ c = At(n) /\ c < P /\ d < T - 2
    BY <1>1, <1>3, <1>4, NextHigh
  <1>9. c \in Index /\ d \in Index /\ (d \in Middle \/ d \in 0 .. 3)
    BY <1>1, <1>3, <1>8, NextHigh
  <1>10. PICK pd : Wrote(pd, d, c)
    <2>1. PICK a \in {TableEntries \div 2, TableEntries - 1} :
            /\ pml4_i(HIGH_BASE + mapped) = a
            /\ pml3_i(HIGH_BASE + mapped) = d /\ pml2_i(HIGH_BASE + mapped) = c
      BY <1>1, <1>3, <1>8, NextHigh
    <2>2. mapped \in Int
      BY <1>1, <1>3, NextHigh
    <2> QED BY <2>1, <2>2, <1>2, <1>9, Written
  <1>11. PICK m \in Nat : m = n + 1 /\ mapped' = m * BigPage
    <2>1. (n + 1) * B = n * B + B
      OBVIOUS
    <2> QED BY <2>1, <1>1, <1>3, <1>4
  <1>12. TablesInv' /\ MappedTo(mapped)' /\ Taking(m)' /\ Enough'
    <2>1. CASE d \in 0 .. 3
      <3>1. UNCHANGED <<entry, address, taken>>
        <4>1. BootEntry(pdpt, d) = PageDirectory(d) /\ d \in Index \ Middle
          BY <2>1, BootTables
        <4>2. BootEntry(PageDirectory(d), c) = d * PdSpan + c * BigPage
          BY <2>1, <1>4, <1>8, BootTables
        <4>3. mapped = BootEntry(PageDirectory(d), c)
          BY <1>3, <1>8, <4>2, BigPages
        <4> QED BY <4>1, <4>3, <1>2, <1>9, <1>10, <2>1, WrittenSame
      <3>2. TablesInv' /\ Enough'
        BY <3>1, <1>1, <1>2 DEF TablesInv, Enough, Memory
      <3>3. Taking(m)'
        <4>1. CASE address = tables[1] /\ taken = {}
          BY <4>1, <3>1, <1>1 DEF Taking
        <4>2. CASE /\ address % PageSize = 0
                   /\ tables[1] <= address /\ address <= tables[1] + (n + 1) * PageSize
          <5>1. PICK x \in Nat, y \in Nat : x = address /\ y = tables[1]
            BY <1>2 DEF TablesInv, BootInv
          <5>2. (n + 1) * Z <= (m + 1) * Z /\ (n + 1) * Z \in Int /\ (m + 1) * Z \in Int
            <6>1. n + 1 <= m + 1 /\ n + 1 \in Int /\ m + 1 \in Int
              BY <1>11
            <6> QED BY <6>1, Monotone
          <5>3. x <= y + (m + 1) * Z
            BY <5>1, <5>2, <4>2, <1>4
          <5>4. address' % PageSize = 0 /\ tables'[1] <= address'
                /\ address' <= tables'[1] + (m + 1) * PageSize
            BY <5>1, <5>3, <4>2, <3>1, <1>1, <1>4
          <5> QED BY <5>4 DEF Taking
        <4> QED BY <4>1, <4>2, <1>3 DEF Taking
      <3>4. MappedTo(mapped)'
        <4>1. ASSUME NEW k \in Nat, k * BigPage < mapped' PROVE Leads(k)
          <5>1. k * B < m * B /\ k * B \in Int /\ m * B \in Int
            BY <4>1, <1>11, <1>4
          <5>2. ~ (m <= k)
            BY <5>1, Monotone
          <5>3. k < n \/ k = n
            BY <5>2, <1>11
          <5>4. CASE k < n
            <6>1. ~ (n * B <= k * B) /\ n * B \in Int /\ k * B \in Int
              BY <5>4, Monotone
            <6>2. k * BigPage < mapped
              BY <6>1, <1>3, <1>4
            <6> QED BY <6>2, <1>2 DEF MappedTo
          <5>5. CASE k = n
            <6>1. entry[pdpt][d] = pd /\ pd \in Int
              <7>1. entry'[pdpt][d] = pd /\ pd \in Int
                BY <1>9, <1>10 DEF Wrote
              <7> QED BY <7>1, <3>1
            <6>2. entry[pd][c] = mapped
              BY <1>10, <3>1 DEF Wrote
            <6> QED BY <6>1, <6>2, <5>5, <1>3, <1>8 DEF Leads
          <5> QED BY <5>3, <5>4, <5>5
        <4>2. \A k \in Nat : Leads(k)' <=> Leads(k)
          BY <3>1 DEF Leads
        <4> QED BY <4>1, <4>2 DEF MappedTo
      <3> QED BY <3>2, <3>3, <3>4
    <2>2. CASE d \in Middle
      <3>1. TablesInv' /\ pd \in taken' /\ pd \in Nat
        BY <2>2, <1>2, <1>9, <1>10, WrittenMiddle
      <3>2. MappedTo(mapped)'
        BY <2>2, <1>1, <1>2, <1>3, <1>8, <1>10, MappedFurther
      <3>3. ~ (Memory <= BootMapped)
        <4>1. SUFFICES ASSUME M <= 4 * PdSpan PROVE FALSE
          BY <1>5 DEF BootMapped
        <4>2. PICK S \in Nat : S = PdSpan
          BY TableSizes
        <4>3. n * BigPage < 4 * PdSpan
          <5>1. n * B \in Int /\ 4 * S \in Int
            OBVIOUS
          <5> QED BY <5>1, <4>1, <4>2, <1>4, <1>6
        <4>4. In(n) < 4
          BY <4>3, BigPages
        <4>5. ~ (d < 4)
          BY <2>2 DEF Middle
        <4> QED BY <4>4, <4>5, <1>8
      <3>4. PICK x \in Nat, s \in Nat, e \in Nat : x = address /\ s = tables[1] /\ e = tables[2]
        BY <1>2 DEF TablesInv, BootInv
      <3>5. CASE entry[pdpt][d] # None
        <4>1. UNCHANGED <<address, taken>> /\ taken # {}
          BY <3>1, <3>5, <1>10 DEF Wrote
        <4>2. Enough'
          BY <4>1, <1>1, <1>2 DEF Enough, Memory
        <4>3. x % Z = 0 /\ s <= x /\ x <= s + (n + 1) * Z
          BY <3>4, <4>1, <1>3, <1>4 DEF Taking
        <4>4. x <= s + (m + 1) * Z
          <5>1. n + 1 <= m + 1 /\ n + 1 \in Int /\ m + 1 \in Int
            BY <1>11
          <5>2. (n + 1) * Z <= (m + 1) * Z /\ (n + 1) * Z \in Int /\ (m + 1) * Z \in Int
            BY <5>1, Monotone
          <5> QED BY <5>2, <4>3
        <4>5. Taking(m)'
          BY <3>4, <4>1, <4>3, <4>4, <1>1, <1>4 DEF Taking
        <4> QED BY <3>1, <3>2, <4>2, <4>5
      <3>6. CASE entry[pdpt][d] = None
        <4>1. pd = align(address, PageSize) /\ address' = pd + PageSize /\ taken' = taken \cup {pd}
          BY <3>6, <1>10 DEF Wrote
        <4>2. PICK y \in Nat : /\ y = pd /\ x <= y /\ s <= y /\ (y + Z) % Z = 0
                               /\ y + Z <= s + (m + 1) * Z /\ y + Z <= e
          BY <3>4, <4>1, <1>2, <1>3, <1>4, <1>5, <1>6, <1>11, NextFits
        <4>6. Taking(m)'
          BY <3>4, <4>1, <4>2, <1>1, <1>4 DEF Taking
        <4>8. Enough'
          <5>1. \A t \in taken' : tables[1] <= t /\ t + PageSize <= tables[2]
            <6>1. tables[1] <= pd /\ pd + PageSize <= tables[2]
              BY <3>4, <4>2, <1>4
            <6> QED BY <6>1, <4>1, <1>2 DEF Enough
          <5>2. Memory' = Memory
            BY <1>1 DEF Memory
          <5> QED BY <5>1, <5>2, <3>3, <1>1, <1>2 DEF Enough
        <4> QED BY <3>1, <3>2, <4>6, <4>8
      <3> QED BY <3>5, <3>6
    <2> QED BY <2>1, <2>2, <1>9
  <1> QED BY <1>1, <1>2, <1>11, <1>12 DEF PagingInv

\* init_kernel_mapping maps one more big page, where it was already.
LEMMA KernelStep ==
  ASSUME PagingInv, phase = "init_kernel_mapping", MakePaging(KERNEL_BASE, KernelSize)
  PROVE  PagingInv'
  <1>0. mapped < KernelSize
    BY Zenon DEF MakePaging
  <1>2. TablesInv /\ MappedTo(Memory) /\ Enough /\ phase \in Settled /\ phase \in Late
    BY DEF PagingInv, Settled, Late
  <1>3. PICK n \in Nat : mapped = n * BigPage
    BY DEF PagingInv
  <1>4. PICK P \in Nat \ {0}, B \in Nat \ {0}, T \in Nat, S \in Nat, K \in Nat :
          /\ P = PdEntries /\ B = BigPage /\ T = TableEntries /\ T >= 6 /\ P <= T
          /\ S = PdSpan /\ K = KernelSize /\ K <= 2 * S
    BY TableSizes, SizeAssumption, TablesAssumption
  <1>5. PICK k \in Nat, c \in Nat : k = In(n) /\ c = At(n) /\ c < P /\ k \in 0 .. 1
    <2>1. In(n) \in Nat /\ At(n) \in Nat /\ At(n) < PdEntries
          /\ (n * BigPage < 2 * PdSpan => In(n) < 2)
      BY BigPages
    <2>2. n * BigPage < 2 * PdSpan
      <3>1. n * B \in Int /\ 2 * S \in Int /\ n * B < K
        BY <1>0, <1>3, <1>4
      <3> QED BY <3>1, <1>4
    <2> QED BY <2>1, <2>2, <1>4
  <1>6. PICK d : d = (TableEntries - 2) + k /\ d \in Index \ Middle /\ BootEntry(pdpt, d) = PageDirectory(k)
    BY <1>5, BootTables
  <1>7. c \in Index /\ k \in 0 .. 3
    <2>1. c \in 0 .. T - 1
      BY <1>4, <1>5
    <2> QED BY <2>1, <1>4, <1>5 DEF Index
  <1>13. PICK a : /\ a = TableEntries - 1 /\ a \in {TableEntries \div 2, TableEntries - 1}
                  /\ pml4_i(KERNEL_BASE + mapped) = a
                  /\ pml3_i(KERNEL_BASE + mapped) = d /\ pml2_i(KERNEL_BASE + mapped) = c
    <2>1. PICK a : a = TableEntries - 1 /\ a \in {TableEntries \div 2, TableEntries - 1}
      OBVIOUS
    <2>2. PICK v : v = KERNEL_BASE + n * BigPage
      OBVIOUS
    <2>3. In(n) < 2
      BY <1>5
    <2>4. pml4_i(v) = TableEntries - 1 /\ pml3_i(v) = (TableEntries - 2) + In(n) /\ pml2_i(v) = At(n)
      BY <2>2, <2>3, KernelPlaces
    <2>5. v = KERNEL_BASE + mapped
      BY <2>2, <1>3
    <2> QED BY <2>1, <2>4, <2>5, <1>5, <1>6
  <1>14. phase' # "fault"
    <2> SUFFICES ASSUME phase' = "fault" PROVE FALSE
      OBVIOUS
    <2>1. ~ (Reached(Pdpte(a)) /\ Reached(Pde(a, d)))
      BY <1>13, Faulting
    <2>2. entry[pdpt][d] = PageDirectory(k) /\ PageDirectory(k) < 0 /\ pdpt < 0 /\ PageDirectory(k) \in Int
      BY <1>2, <1>6, <1>7, BootTables DEF TablesInv, PageDirectory
    <2>3. Pdpte(a) = pdpt /\ Pde(a, d) = PageDirectory(k)
      <3>1. entry[pdpt][d] # None
        BY <2>2, NoneAssumption
      <3> QED BY <3>1, <2>2, <1>2, <1>6, <1>13, NextDirectory
    <2> QED BY <2>1, <2>2, <2>3 DEF Reached
  <1>1. UNCHANGED <<phase, map, tables>> /\ mapped' = mapped + BigPage
    <2>1. mapped' = mapped + BigPage
      BY <1>14, Zenon DEF MakePaging
    <2> QED BY <2>1, <1>14, MakePagingOnly
  <1>8. PICK pd : Wrote(pd, d, c)
    <2>1. mapped \in Int
      <3>1. n * B \in Int
        OBVIOUS
      <3> QED BY <3>1, <1>3, <1>4
    <2> QED BY <2>1, <1>2, <1>6, <1>7, <1>13, <1>14, Written
  <1>9. UNCHANGED <<entry, address, taken>>
    <2>1. BootEntry(PageDirectory(k), c) = k * PdSpan + c * BigPage
      BY <1>4, <1>5, <1>7, BootTables
    <2>2. mapped = BootEntry(PageDirectory(k), c)
      BY <1>3, <1>5, <2>1, BigPages
    <2> QED BY <2>2, <1>2, <1>6, <1>7, <1>8, WrittenSame
  <1>10. \E m \in Nat : mapped' = m * BigPage
    <2>1. (n + 1) * B = n * B + B /\ n + 1 \in Nat
      OBVIOUS
    <2> QED BY <2>1, <1>1, <1>3, <1>4
  <1>11. TablesInv' /\ Enough' /\ Memory' = Memory
    BY <1>1, <1>2, <1>9 DEF TablesInv, Enough, Memory
  <1>12. MappedTo(Memory)'
    <2>1. \A m \in Nat : Leads(m)' <=> Leads(m)
      BY <1>9 DEF Leads
    <2> QED BY <2>1, <1>2, <1>11 DEF MappedTo
  <1> QED BY <1>1, <1>2, <1>10, <1>11, <1>12 DEF PagingInv

\* bootstrap_init: what is set aside is enough.
LEMMA SetAsideStep ==
  ASSUME BootInv, BootInv', PagingInv, SetAside
  PROVE  PagingInv'
  <1>1. /\ phase = "init_paging" /\ phase' = "init_after_canonical_hole_mapping"
        /\ UNCHANGED <<entry, taken, mapped>> /\ address' = tables'[1]
        /\ map' = AfterAllocate(map, (div_up(KernelSize, BigPage) + div_up(get_memory_size(map), BigPage))
                                        * PageSize * 2)
        /\ tables'[2] = tables'[1] + (div_up(KernelSize, BigPage) + div_up(get_memory_size(map), BigPage))
                                        * PageSize * 2
    BY DEF SetAside, init_paging
  <1>2. TablesInv /\ taken = {} /\ mapped = 0
    BY <1>1 DEF PagingInv, Settled
  <1>3. map \in Seq(Regions) /\ map' \in Seq(Regions) /\ tables' \in Nat \X Nat
    BY <1>1 DEF BootInv, Settled
  <1>4. PICK L \in Nat, M \in Nat : L = get_memory_size(map) /\ M = Memory'
    BY <1>3, MemorySize DEF Memory
  <1>5. M <= L
    <2>1. map \in Seq(Ending(L))
      BY <1>3, <1>4, SizeOfEnding
    <2>2. map' \in Seq(Ending(L))
      BY <1>1, <1>3, <2>1, Asked, AllocatedEnds
    <2>3. get_memory_size(map') <= L
      BY <1>3, <2>2, SizeOfEnding
    <2> QED BY <2>3, <1>4 DEF Memory
  <1>6. PICK Z \in Nat \ {0}, B \in Nat \ {0}, s \in Nat, e \in Nat :
          Z = PageSize /\ B = BigPage /\ s = tables'[1] /\ e = tables'[2]
    BY <1>3, TableSizes
  <1>7. PICK k \in Nat \ {0}, D \in Nat : k = div_up(KernelSize, BigPage) /\ D = div_up(L, B)
    BY <1>3, <1>4, <1>6, Asked
  <1>8. PICK d \in Nat : d = div_up(M, B) /\ d <= D
    <2>1. div_up(M, B) \in Nat /\ div_up(M, B) <= div_up(L, B)
      BY <1>5, Rounding, RoundingGrows
    <2> QED BY <2>1, <1>7
  <1>9. s + (d + 1) * Z <= e
    <2>1. e = s + (k + D) * Z * 2
      BY <1>1, <1>4, <1>6, <1>7
    <2>2. d + 1 <= k + D /\ d + 1 \in Int /\ k + D \in Int
      BY <1>8
    <2>3. (d + 1) * Z <= (k + D) * Z
      BY <2>2, Monotone
    <2>4. PICK x \in Nat, y \in Nat : x = (d + 1) * Z /\ y = (k + D) * Z
      OBVIOUS
    <2>5. e = s + y * 2 /\ x <= y
      BY <2>1, <2>3, <2>4
    <2> QED BY <2>4, <2>5
  <1>10. Enough'
    <2>1. tables'[1] + (div_up(Memory', BigPage) + 1) * PageSize <= tables'[2]
      BY <1>4, <1>6, <1>8, <1>9
    <2>2. taken' = {}
      BY <1>1, <1>2
    <2> QED BY <2>1, <2>2 DEF Enough
  <1>11. TablesInv'
    <2>1. address' \in Nat
      BY <1>1, <1>6
    <2> QED BY <2>1, <1>1, <1>2 DEF TablesInv
  <1>12. Taking(0)'
    BY <1>1, <1>2 DEF Taking
  <1>13. MappedTo(mapped)' /\ mapped' = 0 /\ 0 = 0 * BigPage
    <2>1. 0 = 0 * B
      OBVIOUS
    <2>2. MappedTo(0)'
      <3>1. \A n \in Nat : ~ (n * BigPage < 0)
        <4> SUFFICES ASSUME NEW n \in Nat PROVE ~ (n * BigPage < 0)
          OBVIOUS
        <4>1. n * B >= 0 /\ n * B \in Int
          OBVIOUS
        <4> QED BY <4>1, <1>6
      <3> QED BY <3>1 DEF MappedTo
    <2>3. mapped' = 0
      BY <1>1, <1>2
    <2> QED BY <2>1, <2>2, <2>3, <1>6 DEF MappedTo
  <1>14. 0 \in Nat /\ phase' \in Settled /\ phase' \notin Late
    BY <1>1 DEF Settled, Late
  <1> QED BY <1>1, <1>10, <1>11, <1>12, <1>13, <1>14 DEF PagingInv

LEMMA PagingStep ==
  ASSUME BootInv, EndsInv, PagingInv, [InterruptsNext]_<<vars, paging, interrupts>>
  PROVE  PagingInv'
  <1> DEFINE Rest == {"init_pit", "sti", "running"}
  <1>1. ASSUME UNCHANGED <<entry, address, taken, mapped, map, tables>>,
               phase' = phase \/ (phase \in Rest /\ phase' \in Rest)
        PROVE  PagingInv'
    <2>1. /\ TablesInv' = TablesInv /\ Enough' = Enough /\ MappedTo(mapped)' = MappedTo(mapped)
          /\ MappedTo(Memory)' = MappedTo(Memory) /\ \A n \in Nat : Taking(n)' = Taking(n)
      BY <1>1 DEF TablesInv, Enough, MappedTo, Memory, Leads, Taking
    <2>2. CASE phase' = phase
      BY <2>1, <2>2, <1>1 DEF PagingInv
    <2>3. CASE phase \in Rest /\ phase' \in Rest
      BY <2>1, <2>3, <1>1 DEF PagingInv, Settled, Late
    <2> QED BY <2>2, <2>3, <1>1
  <1>2. CASE Starting
    <2>1. /\ UNCHANGED <<entry, address, taken, mapped>> /\ phase \notin Settled /\ phase' \notin Settled
      BY <1>2 DEF Starting, get_memory_map, init_initramfs, init_buddy, paging, Settled
    <2>2. TablesInv' = TablesInv
      BY <2>1 DEF TablesInv
    <2> QED BY <2>1, <2>2 DEF PagingInv, Settled, Late
  <1>3. CASE SetAside
    <2>1. BootInv'
      BY BootStep
    <2> QED BY <1>3, <2>1, SetAsideStep
  <1>4. CASE init_after_canonical_hole_mapping
    <2>1. CASE MakePaging(HIGH_BASE, get_memory_size(map))
      <3>1. phase = "init_after_canonical_hole_mapping" /\ MakePaging(HIGH_BASE, Memory)
        BY <1>4, <2>1 DEF init_after_canonical_hole_mapping, Memory
      <3> QED BY <3>1, HighStep, HighFault
    <2>2. CASE ~ MakePaging(HIGH_BASE, get_memory_size(map))
      <3>1. /\ phase = "init_after_canonical_hole_mapping" /\ phase' = "init_kernel_mapping"
            /\ mapped = Memory /\ mapped' = 0 /\ UNCHANGED <<map, tables, entry, address, taken>>
        BY <1>4, <2>2 DEF init_after_canonical_hole_mapping, Mapping, Memory
      <3>2. TablesInv' = TablesInv /\ Enough' = Enough /\ MappedTo(Memory)' = MappedTo(Memory)
        BY <3>1 DEF TablesInv, Enough, MappedTo, Memory, Leads
      <3>3. 0 = 0 * BigPage /\ 0 \in Nat
        BY TableSizes
      <3>4. TablesInv /\ Enough /\ MappedTo(Memory)
        BY <3>1 DEF PagingInv, Settled
      <3>5. \E n \in Nat : mapped' = n * BigPage
        BY <3>1, <3>3
      <3> QED BY <3>1, <3>2, <3>4, <3>5 DEF PagingInv, Settled, Late
    <2> QED BY <2>1, <2>2
  <1>5. CASE init_kernel_mapping
    <2>1. CASE MakePaging(KERNEL_BASE, KernelSize)
      BY <1>5, <2>1, KernelStep DEF init_kernel_mapping
    <2>2. CASE ~ MakePaging(KERNEL_BASE, KernelSize)
      <3>1. /\ phase = "init_kernel_mapping" /\ phase' = "init_pit"
            /\ mapped' = 0 /\ UNCHANGED <<map, tables, entry, address, taken>>
        BY <1>5, <2>2 DEF init_kernel_mapping, Mapping
      <3>2. TablesInv' = TablesInv /\ Enough' = Enough /\ MappedTo(Memory)' = MappedTo(Memory)
        BY <3>1 DEF TablesInv, Enough, MappedTo, Memory, Leads
      <3>3. 0 = 0 * BigPage /\ 0 \in Nat
        BY TableSizes
      <3>4. TablesInv /\ Enough /\ MappedTo(Memory)
        BY <3>1 DEF PagingInv, Settled, Late
      <3>5. \E n \in Nat : mapped' = n * BigPage
        BY <3>1, <3>3
      <3> QED BY <3>1, <3>2, <3>4, <3>5 DEF PagingInv, Settled, Late
    <2> QED BY <2>1, <2>2
  <1>6. CASE init_pit \/ sti
    <2>1. UNCHANGED <<entry, address, taken, mapped, map, tables>> /\ phase \in Rest /\ phase' \in Rest
      BY <1>6 DEF init_pit, sti, paging
    <2> QED BY <2>1, <1>1
  <1>7. CASE Raise \/ Accept \/ Spurious \/ Exception \/ Handler \/ thread_yield
    <2>1. UNCHANGED <<vars, paging>>
      BY <1>7 DEF Raise, Accept, Spurious, Exception, Interrupt, Handler, empty_handler_w,
                  pop_handler_w, pit_handler, thread_schedule, Return, thread_yield
    <2>2. UNCHANGED <<entry, address, taken, mapped, map, tables>> /\ phase' = phase
      BY <2>1 DEF vars, paging
    <2> QED BY <2>2, <1>1
  <1>8. CASE UNCHANGED <<vars, paging, interrupts>>
    <2>1. UNCHANGED <<entry, address, taken, mapped, map, tables>> /\ phase' = phase
      BY <1>8 DEF vars, paging
    <2> QED BY <2>1, <1>1
  <1> QED BY <1>2, <1>3, <1>4, <1>5, <1>6, <1>7, <1>8 DEF InterruptsNext, main, PagingNext

LEMMA PagingAlways == InterruptsSpec => [](BootInv /\ EndsInv /\ PagingInv)
  <1>1. InterruptsInit => BootInv /\ EndsInv /\ PagingInv
    BY BootStart, EndsStart, PagingStart
  <1>2. BootInv /\ EndsInv /\ PagingInv /\ [InterruptsNext]_<<vars, paging, interrupts>> =>
          (BootInv /\ EndsInv /\ PagingInv)'
    BY BootStep, EndsStep, PagingStep
  <1> QED BY <1>1, <1>2, PTL DEF InterruptsSpec

\* The kernel and the memory it reaches stay mapped, and in the end all memory
\* is, however many entries the tables have and wherever memory ends below
\* the kernel's directories.
THEOREM WindowsStayMapped == InterruptsSpec => []WindowsMapped
  BY Windows, PagingAlways, PTL

LEMMA Apartness ==
  ASSUME BootInv, PagingInv
  PROVE  TablesApart
  <1>1. tables # None => phase \in Settled
    BY DEF BootInv
  <1>2. tables # None => \A t \in taken : tables[1] <= t /\ t + PageSize <= tables[2]
    BY <1>1 DEF PagingInv, Enough
  <1>3. get_memory_size(map) <= BootMapped => taken = {}
    BY DEF PagingInv, Enough, Memory
  <1>4. tables[2] <= BootMapped => phase # "fault"
    BY DEF PagingInv
  <1> QED BY <1>2, <1>3, <1>4 DEF TablesApart

\* The tables taken fit in the memory set aside for them, and no table is
\* taken unless there is more memory than bootstrap.S maps.
THEOREM TablesStayApart == InterruptsSpec => []TablesApart
  BY Apartness, PagingAlways, PTL
=============================================================================
