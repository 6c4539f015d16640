------------------------------ MODULE FifoLock ------------------------------
(***************************************************************************)
(* What a lock of lock.c promises its callers: the threads that called     *)
(* lock() get it one at a time, in the order in which they called, and     *)
(* every caller gets it eventually as long as holders give it back.        *)
(* SpinLock, the ticket lock itself, is shown to implement this module.    *)
(***************************************************************************)
EXTENDS Sequences, SequencesExt

CONSTANT Thread

VARIABLES queue,    \* callers that have not unlocked yet, in order of call
          granted   \* whether the caller at the head of queue holds the lock

vars == <<queue, granted>>

Init == queue = <<>> /\ granted = FALSE

Request(t) ==
  /\ t \notin ToSet(queue)
  /\ queue' = Append(queue, t)
  /\ UNCHANGED granted

Grant ==
  /\ queue # <<>>
  /\ ~granted
  /\ granted' = TRUE
  /\ UNCHANGED queue

Leave ==
  /\ granted
  /\ queue' = Tail(queue)
  /\ granted' = FALSE

Next == Grant \/ Leave \/ \E t \in Thread : Request(t)

Spec == Init /\ [][Next]_vars /\ WF_vars(Grant) /\ WF_vars(Leave)
=============================================================================
