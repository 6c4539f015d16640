----------------------------- MODULE ObjectPool -----------------------------
(***************************************************************************)
(* What the users of slab_allocator.c are promised: an object is memory    *)
(* nobody else has, and only an object too large for a page is refused.    *)
(***************************************************************************)
EXTENDS Integers

CONSTANTS Allocator, size,
          TooLarge    \* allocators whose objects do not fit into a slab

VARIABLES created,    \* allocators that can be used
          live,       \* <<allocator, address>> of the objects in use
          reply       \* the last address returned, 0 for NULL

Bytes(o) == o[2] .. o[2] + size[o[1]] - 1

Init == created \subseteq Allocator /\ live = {} /\ reply = 0

Give(a) ==
  /\ a \in created
  /\ reply' > 0
  /\ live' = live \cup {<<a, reply'>>}
  /\ \A o \in live : Bytes(o) \cap Bytes(<<a, reply'>>) = {}

Allocate(a) == Give(a) /\ UNCHANGED created

Refuse(a) == a \in TooLarge \cap created /\ reply' = 0 /\ UNCHANGED <<created, live>>

\* The structure of a new allocator is an object of another one.
Create(structs) ==
  /\ Give(structs)
  /\ \E a \in Allocator \ created : created' = created \cup {a}

Free == \E o \in live : live' = live \ {o} /\ reply' = 0 /\ UNCHANGED created

Next ==
  \/ \E a \in Allocator : Allocate(a) \/ Refuse(a) \/ Create(a)
  \/ Free

Spec == Init /\ [][Next]_<<created, live, reply>>
=============================================================================
