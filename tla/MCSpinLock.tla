----------------------------- MODULE MCSpinLock -----------------------------
(* Four threads share a lock whose counters have four values, so that the  *)
(* counters wrap and as many waiters as they can tell apart occur at once. *)
EXTENDS SpinLock

=============================================================================
