---------------------------- MODULE ThreadStacks ----------------------------
(***************************************************************************)
(* The stacks of threads.c on the allocator of Buddy.  thread_create asks  *)
(* for a stack with                                                        *)
(*    allocate_page(THREAD_STACK_SIZE_LOG / SMALL_PAGE_BITS)               *)
(* and thread_yield gives it back with                                     *)
(*    free_page(page_address, THREAD_STACK_SIZE_LOG).                      *)
(* With the values of threads.h and memory.h these are the levels 1 and    *)
(* 12.  Other callers free a block at the level they allocated it at.      *)
(***************************************************************************)
EXTENDS Buddy

CONSTANTS StackLevel,     \* THREAD_STACK_SIZE_LOG / SMALL_PAGE_BITS
          StackSizeLog    \* THREAD_STACK_SIZE_LOG

VARIABLE stacks    \* blocks that are stacks

StackInit == Init /\ stacks = {}

\* thread_create; the other callers ask for blocks of level 0.
CreateStack == AllocatePage(StackLevel) /\ UNCHANGED stacks

CreatedStack ==
  /\ HandOver
  /\ stacks' = IF wanted = StackLevel THEN stacks \cup {reply'} ELSE stacks

\* thread_yield
ReleaseStack(b) ==
  /\ b \in stacks
  /\ owned' = owned \ {b}
  /\ stacks' = stacks \ {b}
  /\ reply' = <<>>
  /\ Start("free", b[1], StackSizeLog, 0)
  /\ UNCHANGED <<available, descriptors, free, unadded>>

StackNext ==
  \/ CreateStack \/ CreatedStack
  \/ \E b \in stacks : ReleaseStack(b)
  \/ /\ \/ AddPage \/ AllocatePage(0) \/ Split \/ Merge \/ PutBack
        \/ \E b \in owned \ stacks : FreePage(b)
     /\ UNCHANGED stacks

StackSpec == StackInit /\ [][StackNext]_<<vars, stacks>>

\* A block is given back as it was allocated, so that no page is on a free
\* list while someone owns it.
StacksDisjoint == \A b, c \in owned : b # c => Pages(b) \cap Pages(c) = {}
=============================================================================
