------------------------------ MODULE Listing -------------------------------
(***************************************************************************)
(* print_file_system of file_system.c, which main calls before the threads *)
(* of Initramfs start and test_file_system while they make files and       *)
(* directories: it follows the links of list.c without the locks of the    *)
(* directories.  Each read of a pointer is a step.                         *)
(*                                                                         *)
(* Of list_insert's four assignments only prev->next = new is seen from    *)
(* there: nothing leads to the new node before, and prev is read by a      *)
(* holder of the lock only.  So add_to_directory is one step here as well. *)
(***************************************************************************)
EXTENDS Initramfs

VARIABLES
  next, prev,  \* the pointers of the files' list_node
  stack,       \* the calls of print_directory, their local variables
  printed,     \* the files whose names have been printed, in this order
  before       \* which were in the tree when print_file_system was called

links == <<next, prev>>
listing == <<stack, printed, before>>

\* Mutation: new->next = next is missing.
InsertOpen(l, new, p, n) ==
  [next |-> [l.next EXCEPT ![p] = new], prev |-> [l.prev EXCEPT ![new] = p, ![n] = new]]

list_insert(l, new, p, n) ==
  [next |-> [l.next EXCEPT ![new] = n, ![p] = new], prev |-> [l.prev EXCEPT ![new] = p, ![n] = new]]

list_add_tail(l, new, head) == list_insert(l, new, l.prev[head], head)

\* The pointer children of struct file
first(d) == IF children[d] = <<>> THEN None ELSE Head(children[d])

\* add_to_directory, for the pointers: a first child is a list of its own.
AddLinks(t) ==
  LET l == [next |-> next, prev |-> prev]
      added == IF first(directory[t]) = None THEN l
               ELSE list_add_tail(l, file[t], first(directory[t]))
  IN next' = added.next /\ prev' = added.prev

Adding == {t \in Thread : pc[t] = "add" /\ pc'[t] = "idle"}

\* init_file has called list_init before anyone sees a file.
ListingInit ==
  /\ LoadInit
  /\ next = [f \in File |-> f] /\ prev = [f \in File |-> f]
  /\ stack = <<>> /\ printed = <<>> /\ before = {}

\* The root and whatever a directory has as a child.
InTree == {Root} \cup UNION {Linked(d) : d \in File}

Frame(d) == [directory |-> d, first |-> None, current |-> None]

\* print_directory(d): its name is printed first.
PrintName(calls, d) ==
  /\ stack' = Append(calls, Frame(d))
  /\ printed' = Append(printed, d)
  /\ UNCHANGED before

print_file_system ==
  /\ loading = "done" /\ stack = <<>> /\ printed = <<>>
  /\ stack' = <<Frame(Root)>> /\ printed' = <<Root>> /\ before' = InTree

Caller == SubSeq(stack, 1, Len(stack) - 1)

\* directory->children is read.
ReadChildren ==
  /\ stack # <<>> /\ Last(stack).first = None
  /\ LET d == Last(stack).directory
     IN IF first(d) = None
        THEN stack' = Caller /\ UNCHANGED <<printed, before>>
        ELSE PrintName(Append(Caller, [directory |-> d, first |-> first(d), current |-> first(d)]), first(d))

\* The call for current has returned: current->next is read.
ReadNext ==
  /\ stack # <<>> /\ Last(stack).first # None
  /\ LET n == next[Last(stack).current]
     IN IF n = Last(stack).first
        THEN stack' = Caller /\ UNCHANGED <<printed, before>>
        ELSE PrintName(Append(Caller, [Last(stack) EXCEPT !.current = n]), n)

Printed ==
  /\ stack = <<>> /\ printed # <<>>
  /\ printed' = <<>> /\ before' = {}
  /\ UNCHANGED stack

Printing ==
  /\ print_file_system \/ ReadChildren \/ ReadNext \/ Printed
  /\ UNCHANGED <<vars, load, links>>

Others ==
  /\ LoadNext
  /\ IF Adding = {} THEN UNCHANGED links ELSE \E t \in Adding : AddLinks(t)
  /\ UNCHANGED listing

ListingNext == Others \/ Printing

ListingSpec == ListingInit /\ [][ListingNext]_<<vars, load, links, listing>>

-----------------------------------------------------------------------------

\* However the calls of other threads come between its steps,
\* print_file_system prints no file twice, none that is not in the tree, each
\* after its directory, and in the end all that were there when it began.
PrintsTree ==
  /\ IsInjective(printed)
  /\ \A i \in DOMAIN printed :
       printed[i] \in InTree /\ (i > 1 => \E j \in 1 .. i - 1 : printed[i] \in Linked(printed[j]))
  /\ stack = <<>> /\ printed # <<>> => before \subseteq ToSet(printed)
=============================================================================
