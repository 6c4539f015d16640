------------------------------- MODULE Files --------------------------------
(***************************************************************************)
(* The contents of regular files in file_system.c: open, close, read,      *)
(* write and resize_file, on blocks of 2^level pages from the page         *)
(* allocator.  read and write hold the lock of the file from their first   *)
(* access to it to the last, so each is one step.  So is open, although    *)
(* its O_TRUNC takes no lock: nobody is taken to be inside a call for the  *)
(* same file meanwhile, but others may have it open.                       *)
(*                                                                         *)
(* allocate_page may fail at any time and at any level, except for the     *)
(* first page of a file (a file without it has no data at all).            *)
(***************************************************************************)
EXTENDS Integers, Sequences

CONSTANTS
  PageSize,       \* SMALL_PAGE_SIZE
  File, Descriptor, Byte,
  Buffer,         \* bound: the buffers that are written
  Garbage,        \* what memory holds that nobody has written
  Flags,          \* the sets of flags open is called with
  Free,           \* the file of a descriptor that is closed
  MaxSize,        \* bound: the size of a file
  MaxRead,        \* bound: bytes per read
  PagesOf         \* PagesOf[l] = 1 << l

VARIABLES
  size, size_level, data,       \* fields of struct file
  opened, flags, offset,        \* fields of struct file_descriptor
  reply                         \* the bytes the last call has transferred

vars == <<size, size_level, data, opened, flags, offset, reply>>

Level == 0 .. MaxSize

ASSUME SizeAssumption == PageSize \in Nat \ {0} /\ MaxSize \in Nat /\ MaxRead \in Nat
ASSUME BufferAssumption == \A b \in Buffer : b \in Seq(Byte) /\ Len(b) <= MaxSize
ASSUME PagesOfAssumption ==
  /\ PagesOf \in [Level -> Nat]
  /\ PagesOf[0] = 1
  /\ \A l \in 0 .. MaxSize - 1 : PagesOf[l + 1] = 2 * PagesOf[l]

-----------------------------------------------------------------------------
(* Sizes *)

Smaller(a, b) == IF a < b THEN a ELSE b
Larger(a, b) == IF a > b THEN a ELSE b

\* SMALL_PAGE_SIZE << level
Capacity(level) == PageSize * PagesOf[level]

\* SMALL_PAGE_SIZE * (1ll << (level - 1)): at level 0 the processor shifts
\* by 63, and the product is 0 in 64 bits.
HalfCapacity(level) == IF level = 0 THEN 0 ELSE Capacity(level - 1)

\* The pages of n bytes, halved and rounded up k times
Halved(n) ==
  LET halved[k \in Level] == IF k = 0 THEN (n + PageSize - 1) \div PageSize
                            ELSE (halved[k - 1] + 1) \div 2
  IN halved

\* get_size_level: halvings until one page is left
get_size_level(n) ==
  LET halved == Halved(n)
  IN CHOOSE k \in Level : halved[k] <= 1 /\ \A j \in 0 .. k - 1 : halved[j] > 1

-----------------------------------------------------------------------------
(* resize_file, on a record of the fields of a file *)

Fields(f) == [size |-> size[f], level |-> size_level[f], data |-> data[f]]

\* Mutation: the test for the size in place forgets its lower bound.
InPlaceDown(s, n) == n <= Capacity(s.level)

InPlace(s, n) == n > HalfCapacity(s.level) /\ n <= Capacity(s.level)

\* Mutation: nothing is copied to the new block.
MovedEmpty(s, n) ==
  LET level == get_size_level(n)
  IN [size |-> n, level |-> level,
      data |-> [i \in 1 .. Capacity(level) |-> Garbage]]

\* The new block, with the bytes that are copied.
Moved(s, n) ==
  LET level == get_size_level(n)
  IN [size |-> n, level |-> level,
      data |-> [i \in 1 .. Capacity(level) |->
                  IF i <= Smaller(n, s.size) THEN s.data[i] ELSE Garbage]]

\* The outcomes when allocate_page succeeds, or not; resize_file returns 0
\* when there is none.
resize_file(s, n, memory) ==
  IF InPlace(s, n) THEN {[s EXCEPT !.size = n]}
  ELSE IF memory THEN {Moved(s, n)} ELSE {}

-----------------------------------------------------------------------------
(* The calls.  init_regular gives every file its first page. *)

Init ==
  /\ size = [f \in File |-> 0]
  /\ size_level = [f \in File |-> 0]
  /\ data = [f \in File |-> [i \in 1 .. PageSize |-> Garbage]]
  /\ opened = [d \in Descriptor |-> Free]
  /\ flags = [d \in Descriptor |-> {}]
  /\ offset = [d \in Descriptor |-> 0]
  /\ reply = <<>>

Assign(f, s) ==
  /\ size' = [size EXCEPT ![f] = s.size]
  /\ size_level' = [size_level EXCEPT ![f] = s.level]
  /\ data' = [data EXCEPT ![f] = s.data]

open(d, f, fl) ==
  /\ opened[d] = Free
  /\ IF "O_TRUNC" \in fl
     THEN \E memory \in BOOLEAN :
            LET after == resize_file(Fields(f), 0, memory)
            IN IF after = {} THEN Assign(f, Fields(f)) ELSE \E s \in after : Assign(f, s)
     ELSE Assign(f, Fields(f))
  /\ opened' = [opened EXCEPT ![d] = f]
  /\ flags' = [flags EXCEPT ![d] = fl]
  /\ offset' = [offset EXCEPT ![d] = 0]
  /\ reply' = <<>>

close(d) ==
  /\ opened[d] # Free
  /\ opened' = [opened EXCEPT ![d] = Free]
  /\ flags' = [flags EXCEPT ![d] = {}]
  /\ offset' = [offset EXCEPT ![d] = 0]
  /\ reply' = <<>>
  /\ UNCHANGED <<size, size_level, data>>

\* Mutation: the offset is not moved on.
read_again(d, n) ==
  /\ opened[d] # Free /\ "O_READ" \in flags[d]
  /\ LET f == opened[d]
         last == IF offset[d] < size[f] THEN Smaller(offset[d] + n, size[f]) ELSE offset[d]
     IN reply' = SubSeq(data[f], offset[d] + 1, last)
  /\ UNCHANGED <<size, size_level, data, opened, flags, offset>>

\* The loop ends after n bytes, or when offset reaches the size.
read(d, n) ==
  /\ opened[d] # Free /\ "O_READ" \in flags[d]
  /\ LET f == opened[d]
         last == IF offset[d] < size[f] THEN Smaller(offset[d] + n, size[f]) ELSE offset[d]
     IN /\ reply' = SubSeq(data[f], offset[d] + 1, last)
        /\ offset' = [offset EXCEPT ![d] = last]
  /\ UNCHANGED <<size, size_level, data, opened, flags>>

\* The loop of write over the levels from that of n down: memory[k] is
\* whether allocate_page succeeds when level k is tried.  The sizes it
\* may settle for, with the fields after that; when every level fails it
\* keeps the size it wanted and leaves the file as it is.
Settled(s, n, memory) ==
  LET tried(k) == Smaller(n, Capacity(k))
      works == {k \in 0 .. get_size_level(n) : resize_file(s, tried(k), memory[k]) # {}}
      best == CHOOSE k \in works : \A j \in works : j <= k
  IN IF works = {} THEN [size |-> n, fields |-> s]
     ELSE [size |-> tried(best),
           fields |-> CHOOSE r \in resize_file(s, tried(best), memory[best]) : TRUE]

\* The block with buffer written to it from index first on; nothing stops
\* the loops of write at the end of the block.
Written(s, first, buffer) ==
  [s EXCEPT !.data = [i \in 1 .. Larger(Len(s.data), first + Len(buffer) - 1) |->
     IF i \in first .. first + Len(buffer) - 1 THEN buffer[i - first + 1] ELSE s.data[i]]]

\* write() that appends, and the one that does not
write_append(d, buffer) ==
  LET f == opened[d]
      wanted == size[f] + Len(buffer)
  IN /\ f # Free /\ {"O_WRITE", "O_APPEND"} \subseteq flags[d]
     /\ wanted <= MaxSize
     /\ \E memory \in [0 .. get_size_level(wanted) -> BOOLEAN] :
          LET r == Settled(Fields(f), wanted, memory)
              part == SubSeq(buffer, 1, r.size - size[f])
          IN /\ reply' = part
             /\ Assign(f, Written(r.fields, size[f] + 1, part))
     /\ UNCHANGED <<opened, flags, offset>>

write(d, buffer) ==
  LET f == opened[d]
  IN /\ f # Free /\ "O_WRITE" \in flags[d] /\ "O_APPEND" \notin flags[d]
     /\ \E memory \in [0 .. get_size_level(Len(buffer)) -> BOOLEAN] :
          LET r == Settled(Fields(f), Len(buffer), memory)
              part == SubSeq(buffer, 1, r.size)
          IN /\ reply' = part
             /\ Assign(f, Written(r.fields, 1, part))
     /\ UNCHANGED <<opened, flags, offset>>

Next ==
  \E d \in Descriptor :
    \/ \E f \in File, fl \in Flags : open(d, f, fl)
    \/ close(d)
    \/ \E n \in 1 .. MaxRead : read(d, n)
    \/ \E b \in Buffer : write_append(d, b) \/ write(d, b)

Spec == Init /\ [][Next]_vars

-----------------------------------------------------------------------------
(* Properties *)

TypeOK ==
  /\ size \in [File -> 0 .. MaxSize]
  /\ size_level \in [File -> Level]
  /\ data \in [File -> Seq(Byte \cup {Garbage})]
  /\ opened \in [Descriptor -> File \cup {Free}]
  /\ flags \in [Descriptor -> Flags \cup {{}}]
  /\ offset \in [Descriptor -> 0 .. MaxSize]
  /\ reply \in Seq(Byte)

\* However resizing fails on the way, a file has the smallest block that holds
\* it, of the size that will be given back to the page allocator, and no
\* write goes past its end: an append always finds that the block it has will
\* do, and a write that finds no memory at all is one that makes the file
\* smaller.
BlockFits ==
  \A f \in File :
    /\ Len(data[f]) = Capacity(size_level[f])
    /\ size[f] <= Capacity(size_level[f])
    /\ size_level[f] = get_size_level(size[f])

Contents == INSTANCE FileContents WITH
  contents <- [f \in File |-> SubSeq(data[f], 1, size[f])]

\* Files keep what has been written, descriptors read it in order and once,
\* and no byte of memory that was not written ever shows.
ImplementsContents == Contents!Spec
=============================================================================
