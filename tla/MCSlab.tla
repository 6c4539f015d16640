------------------------------- MODULE MCSlab -------------------------------
(* Pages of eight bytes: three descriptors, two small or two big objects    *)
(* with a gap between them fit into a slab, and a huge object does not.     *)
EXTENDS Slab

MCsize == [descriptors |-> 1, structs |-> 1, small |-> 2, big |-> 3, huge |-> 8]
MCalignment == [descriptors |-> 1, structs |-> 1, small |-> 1, big |-> 4, huge |-> 1]
=============================================================================
