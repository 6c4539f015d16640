---------------------------- MODULE MCLinkedList ----------------------------
(* Two lists and three nodes: one can be added and spliced before, between *)
(* and after others, with deleted nodes around that still point at them.     *)
EXTENDS LinkedList
=============================================================================
