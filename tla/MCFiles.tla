------------------------------ MODULE MCFiles -------------------------------
(* One file, read and written through two descriptors; blocks of one, two   *)
(* and four pages of two bytes.                                             *)
EXTENDS Files

CONSTANTS a, b

MCBuffer == {<<>>, <<a>>, <<b, a>>, <<b, b, a>>}

MCFlags == {{"O_READ"}, {"O_WRITE"}, {"O_WRITE", "O_APPEND"}, {"O_READ", "O_WRITE", "O_TRUNC"}}
MCPagesOf == [l \in 0 .. 5 |-> 2 ^ l]
=============================================================================
