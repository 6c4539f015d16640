---------------------------- MODULE FileContents ----------------------------
(***************************************************************************)
(* What read() and write() of file_system.c do for their callers: a file   *)
(* is a sequence of bytes, and a descriptor reads on from where it stopped *)
(* before.  A write that gets no memory is short.                          *)
(***************************************************************************)
EXTENDS Integers, Sequences

CONSTANTS File, Descriptor, Buffer, Free, MaxRead

VARIABLES contents,   \* of each file
          opened,     \* the file of each descriptor, Free when it is closed
          offset, reply

Init ==
  /\ contents = [f \in File |-> <<>>]
  /\ opened = [d \in Descriptor |-> Free]
  /\ offset = [d \in Descriptor |-> 0]
  /\ reply = <<>>

Open(d, f) ==
  /\ opened[d] = Free
  /\ opened' = [opened EXCEPT ![d] = f]
  /\ offset' = [offset EXCEPT ![d] = 0]
  /\ reply' = <<>>
  /\ \/ UNCHANGED contents
     \/ contents' = [contents EXCEPT ![f] = <<>>]

Close(d) ==
  /\ opened' = [opened EXCEPT ![d] = Free]
  /\ offset' = [offset EXCEPT ![d] = 0]
  /\ reply' = <<>>
  /\ UNCHANGED contents

\* Between zero and n bytes, fewer than n only at the end of the file.
Read(d, n) ==
  /\ opened[d] # Free
  /\ LET end == Len(contents[opened[d]])
         last == IF offset[d] + n <= end THEN offset[d] + n
                 ELSE IF offset[d] <= end THEN end ELSE offset[d]
     IN /\ reply' = SubSeq(contents[opened[d]], offset[d] + 1, last)
        /\ offset' = [offset EXCEPT ![d] = last]
  /\ UNCHANGED <<contents, opened>>

Prefixes(buffer) == {SubSeq(buffer, 1, n) : n \in 0 .. Len(buffer)}

\* The file is what has been written, or that followed by what was there:
\* when no page is to be had the file keeps its length.
Overwrite(d, buffer) ==
  /\ opened[d] # Free
  /\ \E part \in Prefixes(buffer) :
       LET old == contents[opened[d]]
           new == {part} \cup (IF Len(part) < Len(old)
                               THEN {part \o SubSeq(old, Len(part) + 1, Len(old))} ELSE {})
       IN \E c \in new : contents' = [contents EXCEPT ![opened[d]] = c] /\ reply' = part
  /\ UNCHANGED <<opened, offset>>

AppendTo(d, buffer) ==
  /\ opened[d] # Free
  /\ \E part \in Prefixes(buffer) :
       /\ contents' = [contents EXCEPT ![opened[d]] = @ \o part]
       /\ reply' = part
  /\ UNCHANGED <<opened, offset>>

Next ==
  \E d \in Descriptor :
    \/ \E f \in File : Open(d, f)
    \/ Close(d)
    \/ \E n \in 1 .. MaxRead : Read(d, n)
    \/ \E b \in Buffer : Overwrite(d, b) \/ AppendTo(d, b)

Spec == Init /\ [][Next]_<<contents, opened, offset, reply>>
=============================================================================
