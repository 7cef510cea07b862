----------------------------- MODULE TaskService -----------------------------
(***************************************************************************)
(* What a flow session promises its server: tasks are taken one at a time, *)
(* and the task taken is answered before the next, unless the tracer goes  *)
(* down, which it may do at any moment and for good.                       *)
(***************************************************************************)
EXTENDS Naturals, Sequences

VARIABLES
  taken,     \* number of tasks taken
  answered,  \* the tasks answered, in order
  up

service == <<taken, answered, up>>

Init == taken = 0 /\ answered = <<>> /\ up = TRUE

Idle == up /\ Len(answered) = taken

\* The tracer may go down while it takes the task.
Take == Idle /\ taken' = taken + 1 /\ up' \in BOOLEAN /\ UNCHANGED answered

Answer ==
  /\ up /\ ~Idle
  /\ answered' = Append(answered, taken)
  /\ UNCHANGED <<taken, up>>

Stop == up /\ up' = FALSE /\ UNCHANGED <<taken, answered>>

Next == Take \/ Answer \/ Stop

\* The part of the promise that a single step can break.
Safety == Init /\ [][Next]_service

Spec == Safety /\ WF_service(Answer)
=============================================================================
