-------------------------------- MODULE Slab --------------------------------
(***************************************************************************)
(* The slab allocators of slab_allocator.c.  Addresses are numbers, pages  *)
(* are numbered from 1 in the order allocate_empty_page returned them, and *)
(* a slab is named by its page: struct slab lies at the end of it, and     *)
(* set_slab and get_slab lead from an address in the page to it.           *)
(*                                                                         *)
(* A small slab keeps a list node in front of each object, and the nodes   *)
(* of its free objects are its list of descriptors.  The free objects of a *)
(* big slab have descriptors elsewhere: objects of the allocator           *)
(* Descriptors, taken and given back as objects become free and used.      *)
(*                                                                         *)
(* slab_allocator_allocate and slab_allocator_free hold                    *)
(* slab_allocator_lock throughout, so a call is one step.  No page is ever *)
(* given back.  allocate_empty_page is taken to succeed.                   *)
(***************************************************************************)
EXTENDS Integers, Sequences, SequencesExt, FiniteSets, FiniteSetsExt

CONSTANTS
  PageSize,      \* SMALL_PAGE_SIZE
  SlabSize,      \* sizeof(struct slab)
  NodeSize,      \* sizeof(struct small_slab_descriptor)
  BigObject,     \* BIG_SLAB_OBJECT_SIZE
  MaxPages,      \* bound: pages taken from the page allocator
  Allocator,     \* struct slab_allocator objects
  Descriptors,   \* big_slab_descriptor_allocator
  Structs,       \* slab_allocator_struct_allocator
  size, alignment

ASSUME SlabAssumption ==
  /\ PageSize \in Nat /\ SlabSize \in Nat \ {0} /\ SlabSize < PageSize
  /\ NodeSize \in Nat \ {0} /\ BigObject \in Nat
  /\ {Descriptors, Structs} \subseteq Allocator /\ Descriptors # Structs

\* The alignments that callers ask for divide a page.
ASSUME SizesAssumption ==
  /\ size \in [Allocator -> Nat \ {0}] /\ alignment \in [Allocator -> Nat \ {0}]
  /\ \A a \in Allocator : PageSize % alignment[a] = 0

\* init_slab_allocator: both structures are small.
ASSUME OwnAssumption ==
  \A a \in {Descriptors, Structs} :
    size[a] < BigObject /\ NodeSize + size[a] <= PageSize - SlabSize

VARIABLES
  heap,      \* pages' descriptors and kinds, and the slabs of each allocator
  created,   \* allocators that exist
  live,      \* <<allocator, address>> of the objects their users have
  result     \* what the last call returned, 0 for NULL

slab == <<heap, created, live, result>>

-----------------------------------------------------------------------------
(* Layout of a slab *)

align(address, a) ==
  IF address % a = 0 THEN address ELSE (address \div a) * a + a

get_slab(address) == address \div PageSize

SlabAddress(p) == (p + 1) * PageSize - SlabSize

\* Mutation: the loops stop at the end of the page.
BlocksToEnd(p, block, a) ==
  LET first == align(p * PageSize, a)
      step == align(block, a)
      count == Cardinality({k \in 0 .. PageSize :
                              first + k * step + block <= (p + 1) * PageSize})
  IN [i \in 1 .. count |-> first + (i - 1) * step]

\* The addresses the loops of create_small_slab and create_big_slab go over:
\* from an aligned address, align(address + block) is a step further.
Blocks(p, block, a) ==
  LET first == align(p * PageSize, a)
      step == align(block, a)
      count == Cardinality({k \in 0 .. PageSize :
                              first + k * step + block <= SlabAddress(p)})
  IN [i \in 1 .. count |-> first + (i - 1) * step]

IsBig(a) == size[a] >= BigObject

Descriptor(at, address) == [at |-> at, address |-> address]

-----------------------------------------------------------------------------
(* The functions on a heap h: h.free[p] is the list of descriptors of page  *)
(* p, h.small[p] its is_small, h.slabs[a] the list of slabs of a.           *)

NewPage(h) == Len(h.free) + 1

\* create_small_slab, and the list_add of create_new_slab_for_slab_allocator
CreateSmall(h, a) ==
  LET p == NewPage(h)
      blocks == Blocks(p, NodeSize + size[a], alignment[a])
  IN [h EXCEPT !.slabs[a] = <<p>> \o @,
               !.small = Append(@, TRUE),
               !.free = Append(@, [i \in DOMAIN blocks |->
                                     Descriptor(Reverse(blocks)[i],
                                                Reverse(blocks)[i] + NodeSize)])]

\* The first slab that has a free object; 0 when there is none.
Usable(h, a) ==
  LET usable == {i \in DOMAIN h.slabs[a] : h.free[h.slabs[a][i]] # <<>>}
  IN IF usable = {} THEN 0 ELSE h.slabs[a][Min(usable)]

Result(h, address) == [heap |-> h, address |-> address]

\* small_slab_allocate of the first slab of a that has a free object
small_slab_allocate(h, a) ==
  LET p == Usable(h, a)
  IN IF p = 0 THEN Result(h, 0)
     ELSE Result([h EXCEPT !.free[p] = Tail(@)], Head(h.free[p]).address)

\* slab_allocator_allocate_no_lock of an allocator with small slabs
SmallAllocate(h, a) ==
  small_slab_allocate(IF Usable(h, a) = 0 THEN CreateSmall(h, a) ELSE h, a)

\* Mutation: the node is taken to be at the address of the object.
small_slab_free_object(h, address) ==
  [h EXCEPT !.free[get_slab(address)] =
     <<Descriptor(address, address + NodeSize)>> \o @]

small_slab_free(h, address) ==
  [h EXCEPT !.free[get_slab(address)] =
     <<Descriptor(address - NodeSize, address)>> \o @]

\* big_slab_free: a descriptor for the object, at the head of the list
big_slab_free(h, address) ==
  LET d == SmallAllocate(h, Descriptors)
  IN [d.heap EXCEPT !.free[get_slab(address)] =
        <<Descriptor(d.address, address)>> \o @]

\* create_big_slab: a descriptor for every block
CreateBig(h, a) ==
  LET p == NewPage(h)
      blocks == Blocks(p, size[a], alignment[a])
      described[k \in 0 .. Len(blocks)] ==
        IF k = 0
        THEN [h EXCEPT !.slabs[a] = <<p>> \o @,
                       !.small = Append(@, FALSE),
                       !.free = Append(@, <<>>)]
        ELSE big_slab_free(described[k - 1], blocks[k])
  IN described[Len(blocks)]

\* Mutation: big_slab_allocate does not give the descriptor back.
big_slab_allocate_keeping(h, a) == small_slab_allocate(h, a)

big_slab_allocate(h, a) ==
  LET p == Usable(h, a)
  IN IF p = 0 THEN Result(h, 0)
     ELSE Result(small_slab_free([h EXCEPT !.free[p] = Tail(@)], Head(h.free[p]).at),
                 Head(h.free[p]).address)

\* slab_allocator_allocate_no_lock of an allocator with big slabs
BigAllocate(h, a) ==
  big_slab_allocate(IF Usable(h, a) = 0 THEN CreateBig(h, a) ELSE h, a)

Allocated(a) == IF IsBig(a) THEN BigAllocate(heap, a) ELSE SmallAllocate(heap, a)

Freed(address) ==
  IF heap.small[get_slab(address)]
  THEN small_slab_free(heap, address) ELSE big_slab_free(heap, address)

-----------------------------------------------------------------------------
(* The calls of the interface *)

init_slab_allocator ==
  /\ heap = [free |-> <<>>, small |-> <<>>, slabs |-> [a \in Allocator |-> <<>>]]
  /\ created = {Descriptors, Structs}
  /\ live = {}
  /\ result = 0

\* The users of the kernel's own allocators are the functions of this file.
slab_allocator_allocate(a) ==
  /\ a \in created \ {Descriptors, Structs}
  /\ LET r == Allocated(a)
     IN /\ Len(r.heap.free) <= MaxPages
        /\ heap' = r.heap
        /\ result' = r.address
        /\ live' = IF r.address = 0 THEN live ELSE live \cup {<<a, r.address>>}
  /\ UNCHANGED created

slab_allocator_free(o) ==
  /\ o \in live /\ o[1] # Structs
  /\ Len(Freed(o[2]).free) <= MaxPages
  /\ heap' = Freed(o[2])
  /\ live' = live \ {o}
  /\ result' = 0
  /\ UNCHANGED created

create_slab_allocator(a) ==
  /\ a \notin created
  /\ LET r == Allocated(Structs)
     IN /\ Len(r.heap.free) <= MaxPages
        /\ heap' = r.heap
        /\ result' = r.address
        /\ live' = live \cup {<<Structs, r.address>>}
  /\ created' = created \cup {a}

SlabNext ==
  \/ \E a \in Allocator : slab_allocator_allocate(a) \/ create_slab_allocator(a)
  \/ \E o \in live : slab_allocator_free(o)

SlabSpec == init_slab_allocator /\ [][SlabNext]_slab

-----------------------------------------------------------------------------
(* Properties *)

SlabPages(a) == {heap.slabs[a][i] : i \in DOMAIN heap.slabs[a]}

FreeIn(p) == {heap.free[p][i] : i \in DOMAIN heap.free[p]}

BigPages == {p \in DOMAIN heap.free : ~heap.small[p]}

\* The objects in use, the descriptors of free big objects among them.
Taken ==
  live \cup UNION {{<<Descriptors, d.at>> : d \in FreeIn(p)} : p \in BigPages}

\* A name and the bytes of everything the allocators or their users write.
Areas ==
  {<<"slab", p, SlabAddress(p) .. (p + 1) * PageSize - 1>> : p \in DOMAIN heap.free}
  \cup {<<"object", o, (IF IsBig(o[1]) THEN o[2] ELSE o[2] - NodeSize) ..
                         o[2] + size[o[1]] - 1>> : o \in Taken}
  \cup UNION {{<<"node", d.at, d.at .. d.at + NodeSize - 1>> : d \in FreeIn(p)} :
                p \in DOMAIN heap.free \ BigPages}

\* Objects, the list nodes in front of them, descriptors and slab structures
\* never overlap, and none reaches over the end of its page.
WellLaidOut ==
  \A x \in Areas :
    /\ \A y \in Areas : x # y => x[3] \cap y[3] = {}
    /\ \A b, c \in x[3] : get_slab(b) = get_slab(c) /\ get_slab(b) \in DOMAIN heap.free

\* Every block of every slab is either free, once on its slab's list, or in
\* use: neither objects nor descriptors of big slabs are lost, however their
\* allocations are nested.
BlocksAccounted ==
  \A a \in Allocator : \A p \in SlabPages(a) :
    LET used == {o \in Taken : get_slab(o[2]) = p}
        all == IF IsBig(a) THEN Blocks(p, size[a], alignment[a])
               ELSE Blocks(p, NodeSize + size[a], alignment[a])
    IN /\ \A o \in used : o[1] = a
       /\ {o[2] : o \in used} \cap {d.address : d \in FreeIn(p)} = {}
       /\ Cardinality(used) + Len(heap.free[p]) = Len(all)
       /\ Cardinality({d.at : d \in FreeIn(p)}) = Len(heap.free[p])

Pool == INSTANCE ObjectPool WITH
  reply <- result,
  TooLarge <- {a \in Allocator :
                 (IF IsBig(a) THEN size[a] ELSE NodeSize + size[a]) > PageSize - SlabSize}

\* The slabs implement a pool of objects.
ImplementsPool == Pool!Spec
=============================================================================
