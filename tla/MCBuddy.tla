------------------------------ MODULE MCBuddy -------------------------------
(* Eight pages, all of which are available, so that all memory merges into  *)
(* one block, or with a hole and an end that no power of two has.           *)
EXTENDS Buddy

MCMemories == {0 .. 7, (0 .. 6) \ {1}}
MCPagesOf == [l \in 0 .. 9 |-> 2 ^ l]
\* Descriptors that look right, wrong and each different.
MCGarbage == {[p \in Page |-> 0], [p \in Page |-> 7], [p \in Page |-> p % level_number]}
=============================================================================
