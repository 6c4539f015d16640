----------------------------- MODULE LinkedList -----------------------------
(***************************************************************************)
(* The circular doubly linked lists of list.c.  A list is a head and the   *)
(* nodes its next pointers lead through back to the head; the head is a    *)
(* node like the others.  The callers hold the lock that protects the      *)
(* list, so an operation is one step.                                      *)
(***************************************************************************)
EXTENDS Integers, FiniteSets, FiniteSetsExt

CONSTANTS ListHead,    \* nodes used as list heads
          Node     \* nodes embedded in objects

ASSUME NodeAssumption == ListHead \cap Node = {} /\ IsFiniteSet(ListHead \cup Node)

AnyNode == ListHead \cup Node

VARIABLES next, prev,
          linked   \* nodes the callers have added and not deleted again

vars == <<next, prev, linked>>

-----------------------------------------------------------------------------
(* The functions of list.c on a heap of nodes *)

list_empty(h) == next[h] = h

list_first(h) == next[h]

\* The node n steps after h.
Walk(h) ==
  LET step[n \in 0 .. Cardinality(AnyNode)] == IF n = 0 THEN h ELSE next[step[n - 1]]
  IN step

\* The number of steps list_size counts (-1 when it would count for ever).
list_size(h) ==
  LET ends == {n \in 1 .. Cardinality(AnyNode) : Walk(h)[n] = h}
  IN IF ends = {} THEN -1 ELSE (CHOOSE n \in ends : \A m \in ends : n <= m) - 1

\* The four assignments of list_insert, in their order.
list_insert(new, before, after) ==
  /\ prev' = [prev EXCEPT ![new] = before, ![after] = new]
  /\ next' = [next EXCEPT ![new] = after, ![before] = new]

-----------------------------------------------------------------------------
(* Their calls.  A node is added when it is in no list and deleted when it  *)
(* is in one; list_add_tail may be given a node in the place of the head,   *)
(* as thread_create does.                                                   *)

\* list_init of every head, and of every node before its first use
Init ==
  /\ next = [n \in AnyNode |-> n]
  /\ prev = [n \in AnyNode |-> n]
  /\ linked = {}

list_init(n) ==
  /\ n \in Node \ linked
  /\ next' = [next EXCEPT ![n] = n]
  /\ prev' = [prev EXCEPT ![n] = n]
  /\ UNCHANGED linked

list_add(new, h) ==
  /\ new \in Node \ linked
  /\ h \in ListHead
  /\ list_insert(new, h, next[h])
  /\ linked' = linked \cup {new}

list_add_tail(new, h) ==
  /\ new \in Node \ linked
  /\ h \in ListHead \cup linked
  /\ list_insert(new, prev[h], h)
  /\ linked' = linked \cup {new}

\* Mutation: list_del of the entry's own pointers.
list_del_self(entry) ==
  /\ entry \in linked
  /\ next' = [next EXCEPT ![entry] = entry]
  /\ prev' = [prev EXCEPT ![entry] = entry]
  /\ linked' = linked \ {entry}

\* list_del leaves the pointers of the entry as they are.
list_del(entry) ==
  /\ entry \in linked
  /\ next' = [next EXCEPT ![prev[entry]] = next[entry]]
  /\ prev' = [prev EXCEPT ![next[entry]] = prev[entry]]
  /\ linked' = linked \ {entry}

\* Mutation: the spliced list is not emptied.
list_splice_shared(list, h) ==
  /\ {list, h} \subseteq ListHead /\ list # h
  /\ ~list_empty(list)
  /\ LET first == next[list]
         last == prev[list]
     IN /\ next' = [next EXCEPT ![h] = first, ![last] = next[h]]
        /\ prev' = [prev EXCEPT ![first] = h, ![next[h]] = last]
  /\ UNCHANGED linked

\* Mutation: the spliced list goes to the end.
list_splice_last(list, h) ==
  /\ {list, h} \subseteq ListHead /\ list # h
  /\ ~list_empty(list)
  /\ LET first == next[list]
         last == prev[list]
     IN /\ next' = [next EXCEPT ![prev[h]] = first, ![last] = h, ![list] = list]
        /\ prev' = [prev EXCEPT ![first] = prev[h], ![h] = last, ![list] = list]
  /\ UNCHANGED linked

\* list_splice, with __list_splice and the list_init that ends it
list_splice(list, h) ==
  /\ {list, h} \subseteq ListHead /\ list # h
  /\ ~list_empty(list)
  /\ LET first == next[list]
         last == prev[list]
     IN /\ next' = [next EXCEPT ![h] = first, ![last] = next[h], ![list] = list]
        /\ prev' = [prev EXCEPT ![first] = h, ![next[h]] = last, ![list] = list]
  /\ UNCHANGED linked

Next ==
  \/ \E n \in Node : list_init(n) \/ list_del(n)
  \/ \E n \in Node, h \in ListHead : list_add(n, h)
  \/ \E n \in Node, h \in AnyNode : list_add_tail(n, h)
  \/ \E g, h \in ListHead : list_splice(g, h)

Spec == Init /\ [][Next]_vars

-----------------------------------------------------------------------------
(* Properties *)

\* The two directions agree on everything that is in a list, however stale
\* the pointers of deleted nodes are: no list leads into a deleted node.
WellLinked ==
  \A n \in ListHead \cup linked :
    /\ next[n] \in ListHead \cup linked /\ prev[next[n]] = n
    /\ prev[n] \in ListHead \cup linked /\ next[prev[n]] = n

\* The loops over the lists end and count every node once, and list_empty
\* and list_first agree with them.
SizesAddUp ==
  /\ MapThenSumSet(list_size, ListHead) = Cardinality(linked)
  /\ \A h \in ListHead : list_empty(h) <=> list_size(h) = 0
  /\ \A h \in ListHead : list_first(h) \in linked <=> list_size(h) > 0

Contents ==
  [h \in ListHead |-> [i \in 1 .. list_size(h) |-> Walk(h)[i]]]

Sequence == INSTANCE ListSequence WITH content <- Contents

\* The pointers implement sequences.
ImplementsSequence == Sequence!Spec
=============================================================================
