------------------------------- MODULE Buddy --------------------------------
(***************************************************************************)
(* The page allocator of buddy_allocator.c.  allocate_page and free_page   *)
(* hold buddy_allocator_lock from their first access to their last; each   *)
(* iteration of their loops is a step, and `call' is the function that     *)
(* holds the lock.  init_buddy adds the available pages one at a time      *)
(* before anyone allocates.  A level's list is the set of the descriptors  *)
(* in it: which block of a level a request gets is left open.              *)
(***************************************************************************)
EXTENDS Integers

CONSTANTS
  descriptors_size,   \* pages of memory, available or not
  Memories,           \* the sets of pages the memory map may call AVAILABLE
  PagesOf,            \* PagesOf[l] = 1 << l
  Garbage,            \* what the levels of the descriptors may start with
  MaxRequest          \* bound: the highest level requested

Page == 0 .. descriptors_size - 1

ASSUME SizeAssumption == descriptors_size \in Nat \ {0}
ASSUME MemoriesAssumption == Memories \subseteq SUBSET Page
ASSUME GarbageAssumption == Garbage \subseteq [Page -> Nat]
ASSUME PagesOfAssumption ==
  /\ PagesOf \in [0 .. descriptors_size + 1 -> Nat]
  /\ PagesOf[0] = 1
  /\ \A l \in 0 .. descriptors_size : PagesOf[l + 1] = 2 * PagesOf[l]

\* The smallest level, at least 1, whose block holds all the memory.
TopLevel ==
  CHOOSE n \in 1 .. descriptors_size :
    /\ PagesOf[n] >= descriptors_size
    /\ \A m \in 1 .. n - 1 : PagesOf[m] < descriptors_size

\* Mutation: the level of the whole memory is missing.
level_number_short == TopLevel

level_number == TopLevel + 1

Level == 0 .. level_number - 1

ASSUME RequestAssumption == MaxRequest \in Level

Block == Page \X Level

Pages(b) == b[1] .. b[1] + PagesOf[b[2]] - 1

VARIABLES
  available,              \* the pages in AVAILABLE regions
  is_free, level,         \* the fields of descriptors
  free,                   \* free[l]: the descriptors in the list level_head[l]
  unadded,                \* available pages init_buddy has not added yet
  owned,                  \* blocks the callers own
  reply,                  \* what the last call returned; <<>> stands for 0
  call,                   \* "allocate", "free" or "none"
  id, current_level,      \* local variables of the call
  wanted                  \* the argument of allocate_page

descriptors == <<is_free, level>>
locals == <<call, id, current_level, wanted>>
vars == <<available, descriptors, free, unadded, owned, reply, locals>>

\* Mutation: the buddy is always the block after.
get_buddy_after(i, l) == i + PagesOf[l]

\* id ^ (1 << l)
get_buddy(i, l) ==
  IF (i \div PagesOf[l]) % 2 = 0 THEN i + PagesOf[l] ELSE i - PagesOf[l]

-----------------------------------------------------------------------------

\* init_buddy with all lists empty.  The memory of the descriptors is not
\* cleared: level starts with any values.
Init ==
  /\ available \in Memories
  /\ is_free = [p \in Page |-> FALSE]
  /\ level \in Garbage
  /\ free = [l \in Level |-> {}]
  /\ unadded = available
  /\ owned = {}
  /\ reply = <<>>
  /\ call = "none" /\ id = 0 /\ current_level = 0 /\ wanted = 0

\* A call enters its loop at level l with block i, and returns.
Start(name, i, l, want) ==
  /\ call = "none"
  /\ call' = name /\ id' = i /\ current_level' = l /\ wanted' = want

Return == call' = "none" /\ id' = 0 /\ current_level' = 0 /\ wanted' = 0

-----------------------------------------------------------------------------
(* allocate_page *)

\* The first loop: the lowest list from level l up that is not empty.
AllocatePage(l) ==
  /\ unadded = {}
  /\ \E up \in l .. level_number - 1 :
       /\ \A k \in l .. up - 1 : free[k] = {}
       /\ \E i \in free[up] :
            /\ free' = [free EXCEPT ![up] = @ \ {i}]
            /\ Start("allocate", i, up, l)
  /\ UNCHANGED <<available, descriptors, unadded, owned, reply>>

\* Every list from level l up is empty.
AllocateNone(l) ==
  /\ unadded = {} /\ call = "none"
  /\ \A k \in l .. level_number - 1 : free[k] = {}
  /\ reply' = <<>>
  /\ UNCHANGED <<available, descriptors, free, unadded, owned, locals>>

\* Puts block i on the list of level l.
Listed(i, l) ==
  /\ free' = [free EXCEPT ![l] = @ \cup {i}]
  /\ is_free' = [is_free EXCEPT ![i] = TRUE]
  /\ level' = [level EXCEPT ![i] = l]

\* The second loop: the upper half of the block goes back.
Split ==
  /\ call = "allocate" /\ current_level > wanted
  /\ Listed(get_buddy(id, current_level - 1), current_level - 1)
  /\ current_level' = current_level - 1
  /\ UNCHANGED <<available, unadded, owned, reply, call, id, wanted>>

\* Mutation: is_free of the block is left set.
KeepMark(i) == UNCHANGED is_free

ClearMark(i) == is_free' = [is_free EXCEPT ![i] = FALSE]

HandOver ==
  /\ call = "allocate" /\ current_level = wanted
  /\ ClearMark(id)
  /\ level' = [level EXCEPT ![id] = wanted]
  /\ owned' = owned \cup {<<id, wanted>>}
  /\ reply' = <<id, wanted>>
  /\ Return
  /\ UNCHANGED <<available, free, unadded>>

-----------------------------------------------------------------------------
(* free_page *)

\* init_buddy sets is_free of the page before it calls add_page, which only
\* reads that of its buddies.  The regions of the memory map, which may be a
\* page long, come in any order.
AddPage ==
  /\ \E i \in unadded :
       /\ is_free' = [is_free EXCEPT ![i] = TRUE]
       /\ unadded' = unadded \ {i}
       /\ Start("free", i, 0, 0)
  /\ UNCHANGED <<available, level, free, owned, reply>>

\* free_page of a block, at the level it was allocated at
FreePage(b) ==
  /\ b \in owned
  /\ owned' = owned \ {b}
  /\ reply' = <<>>
  /\ Start("free", b[1], b[2], 0)
  /\ UNCHANGED <<available, descriptors, free, unadded>>

\* Mutations: the level of the buddy is not compared; is_free is not read.
CanMergeAnyLevel(i, l) ==
  LET buddy_id == get_buddy(i, l) IN buddy_id < descriptors_size /\ is_free[buddy_id]

CanMergeOwned(i, l) ==
  LET buddy_id == get_buddy(i, l) IN buddy_id < descriptors_size /\ level[buddy_id] = l

CanMerge(i, l) ==
  LET buddy_id == get_buddy(i, l)
  IN buddy_id < descriptors_size /\ is_free[buddy_id] /\ level[buddy_id] = l

\* One level up: the buddy leaves its list; its descriptor stays as it is.
Merge ==
  /\ call = "free" /\ current_level < level_number
  /\ CanMerge(id, current_level)
  /\ LET buddy_id == get_buddy(id, current_level)
     IN /\ free' = [free EXCEPT ![current_level] = @ \ {buddy_id}]
        /\ id' = IF id < buddy_id THEN id ELSE buddy_id
  /\ current_level' = current_level + 1
  /\ UNCHANGED <<available, descriptors, unadded, owned, reply, call, wanted>>

\* The break of the loop.  When the loop ends without it the block is lost:
\* there is no step for that, so that it would show as a deadlock.
PutBack ==
  /\ call = "free" /\ current_level < level_number
  /\ ~CanMerge(id, current_level)
  /\ Listed(id, current_level)
  /\ Return
  /\ UNCHANGED <<available, unadded, owned, reply>>

Next ==
  \/ AddPage
  \/ \E l \in 0 .. MaxRequest : AllocatePage(l) \/ AllocateNone(l)
  \/ Split \/ HandOver
  \/ \E b \in owned : FreePage(b)
  \/ Merge \/ PutBack

Spec == Init /\ [][Next]_vars

-----------------------------------------------------------------------------
(* Properties *)

TypeOK ==
  /\ available \subseteq Page
  /\ is_free \in [Page -> BOOLEAN]
  /\ level \in [Page -> Nat]
  /\ free \in [Level -> SUBSET Page]
  /\ unadded \subseteq available
  /\ owned \subseteq Block
  /\ reply \in Block \cup {<<>>}
  /\ call \in {"none", "allocate", "free"}
  /\ id \in Page /\ current_level \in Level /\ wanted \in Level

Free == {b \in Block : b[1] \in free[b[2]]}

FreePages == UNION {Pages(b) : b \in Free}

\* The block a call has in its hands.
InHand == IF call = "none" THEN {} ELSE {<<id, current_level>>}

\* Every available page is in exactly one block, free, owned or in the hands
\* of a call: no interleaving of splits and merges loses a page or hands it
\* out twice.
Conserved ==
  /\ \A b, c \in Free \cup owned \cup InHand : b # c => Pages(b) \cap Pages(c) = {}
  /\ Free \cap owned = {} /\ InHand \cap (Free \cup owned) = {}
  /\ UNION {Pages(b) : b \in Free \cup owned \cup InHand} = available \ unadded

\* free_page decides from a descriptor that may be stale whether the buddy of
\* its block is free as a whole: in every iteration of its loop it is right.
BuddyKnown ==
  call = "free" =>
    (CanMerge(id, current_level) <=> get_buddy(id, current_level) \in free[current_level])

\* Between calls free memory is merged as far as it can be: an aligned run of
\* free pages is part of one free block.
Coalesced ==
  call = "none" =>
    \A l \in Level : \A i \in Page :
      /\ i % PagesOf[l] = 0
      /\ Pages(<<i, l>>) \subseteq FreePages
      => \E b \in Free : Pages(<<i, l>>) \subseteq Pages(b)

Promise == INSTANCE PageAllocator

\* The free lists implement an allocator that serves every request that can
\* be served at all.
ImplementsPageAllocator == Promise!Spec
=============================================================================
