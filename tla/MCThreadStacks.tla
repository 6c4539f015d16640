--------------------------- MODULE MCThreadStacks ---------------------------
(* Eight pages stand for the memory, and level 2 for level 12: a stack has  *)
(* level 1, and both are levels of the allocator, as on a machine with more *)
(* than 16 MB.                                                              *)
EXTENDS ThreadStacks

MCMemories == {0 .. 7}
MCPagesOf == [l \in 0 .. 9 |-> 2 ^ l]
MCGarbage == {[p \in Page |-> p % level_number]}
=============================================================================
