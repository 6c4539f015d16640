----------------------------- MODULE MCThreads ------------------------------
(* Three threads.  In the safety run Main and another thread create, join   *)
(* and re-create the others and call the allocators themselves; wherever    *)
(* interrupts are on, a timer handler that yields may come.  The values     *)
(* threads return are only stored, passed on and compared with NoValue.     *)
EXTENDS ThreadsInvariant, TLC

MCSymmetry == Permutations(Value)
=============================================================================
