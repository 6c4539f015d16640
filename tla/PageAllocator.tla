--------------------------- MODULE PageAllocator ----------------------------
(***************************************************************************)
(* What allocate_page and free_page promise: a request for 2^level pages   *)
(* gets an aligned block of available pages that nobody owns, and fails    *)
(* only when there is none.                                                *)
(***************************************************************************)
EXTENDS Integers

CONSTANTS Level, PagesOf

VARIABLES available,   \* numbers of the pages of available memory
          owned,       \* blocks <<first page, level>> handed out
          reply        \* what the last call returned; <<>> stands for 0

vars == <<available, owned, reply>>

Pages(b) == b[1] .. b[1] + PagesOf[b[2]] - 1

Taken == UNION {Pages(b) : b \in owned}

\* The blocks a request for 2^l pages can be given.
Candidates(l) ==
  {<<id, l>> : id \in {i \in available :
     /\ i % PagesOf[l] = 0
     /\ i .. i + PagesOf[l] - 1 \subseteq available \ Taken}}

Init == owned = {} /\ reply = <<>>

Allocate(l) ==
  \E b \in Candidates(l) : owned' = owned \cup {b} /\ reply' = b /\ UNCHANGED available

Fail(l) ==
  /\ Candidates(l) = {}
  /\ reply' = <<>>
  /\ UNCHANGED <<available, owned>>

Free(b) ==
  /\ b \in owned
  /\ owned' = owned \ {b}
  /\ reply' = <<>>
  /\ UNCHANGED available

Next ==
  \/ \E l \in Level : Allocate(l) \/ Fail(l)
  \/ \E b \in owned : Free(b)

Spec == Init /\ [][Next]_vars
=============================================================================
