--------------------------- MODULE ThreadService ---------------------------
(***************************************************************************)
(* What thread_create, thread_exit and thread_join promise, without the    *)
(* ring, the switching and the locks: a thread ends once, with a value;    *)
(* the one thread that joins it gets that value, after it has ended; the   *)
(* thread object is reused only after that; and a join of a thread that    *)
(* has ended returns.                                                      *)
(***************************************************************************)
CONSTANTS Thread, Main, Value, NoThread, NoValue

VARIABLES phase,    \* none, live, exited, collected
          result,   \* the value each thread ended with
          joiner,   \* the thread that joins each thread
          seen      \* the value each thread got from its last join

vars == <<phase, result, joiner, seen>>

Init ==
  /\ phase = [t \in Thread |-> IF t = Main THEN "live" ELSE "none"]
  /\ result = [t \in Thread |-> NoValue]
  /\ joiner = [t \in Thread |-> NoThread]
  /\ seen = [t \in Thread |-> NoValue]

Create(t) ==
  /\ phase[t] = "none"
  /\ phase' = [phase EXCEPT ![t] = "live"]
  /\ UNCHANGED <<result, joiner, seen>>

Exit(t, v) ==
  /\ phase[t] = "live" /\ t # Main
  /\ phase' = [phase EXCEPT ![t] = "exited"]
  /\ result' = [result EXCEPT ![t] = v]
  /\ UNCHANGED <<joiner, seen>>

Join(s, t) ==
  /\ phase[s] = "live" /\ phase[t] \in {"live", "exited"}
  /\ joiner[t] = NoThread
  /\ joiner' = [joiner EXCEPT ![t] = s]
  /\ UNCHANGED <<phase, result, seen>>

\* The joiner gets the value.
Collect(t) ==
  /\ phase[t] = "exited" /\ joiner[t] # NoThread
  /\ phase' = [phase EXCEPT ![t] = "collected"]
  /\ seen' = [seen EXCEPT ![joiner[t]] = result[t]]
  /\ UNCHANGED <<result, joiner>>

\* The thread object is free for another thread.
Dispose(t) ==
  /\ phase[t] = "collected"
  /\ phase' = [phase EXCEPT ![t] = "none"]
  /\ result' = [result EXCEPT ![t] = NoValue]
  /\ joiner' = [joiner EXCEPT ![t] = NoThread]
  /\ UNCHANGED seen

Next == \E t \in Thread : \/ Create(t) \/ Collect(t) \/ Dispose(t)
                          \/ \E v \in Value : Exit(t, v)
                          \/ \E s \in Thread : Join(s, t)

Fairness == \A t \in Thread \ {Main} : WF_vars(Collect(t) \/ Dispose(t))

Safety == Init /\ [][Next]_vars

Spec == Safety /\ Fairness
=============================================================================
