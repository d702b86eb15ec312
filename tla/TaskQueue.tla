----------------------------- MODULE TaskQueue -----------------------------
(***************************************************************************)
(* What the server expects of the thread pool: submitted tasks are taken   *)
(* in order, each by one idle thread, none is lost, and once the pool is   *)
(* gone all of them have been run.                                         *)
(***************************************************************************)
EXTENDS Naturals, Sequences

CONSTANTS Thread, MaxTask
VARIABLES
  submitted,  \* number of tasks submitted; tasks are numbered from 1
  tasks,      \* tasks that wait, in order
  running,    \* running[w]: the task of thread w, or 0
  closed      \* no task will be submitted any more, and none is left

vars == <<submitted, tasks, running, closed>>

Init ==
  /\ submitted = 0
  /\ tasks = <<>>
  /\ running = [w \in Thread |-> 0]
  /\ closed = FALSE

Submit ==
  /\ ~closed /\ submitted < MaxTask
  /\ submitted' = submitted + 1
  /\ tasks' = Append(tasks, submitted + 1)
  /\ UNCHANGED <<running, closed>>

Take(w) ==
  /\ running[w] = 0 /\ tasks # <<>>
  /\ running' = [running EXCEPT ![w] = Head(tasks)]
  /\ tasks' = Tail(tasks)
  /\ UNCHANGED <<submitted, closed>>

End(w) ==
  /\ running[w] # 0
  /\ running' = [running EXCEPT ![w] = 0]
  /\ UNCHANGED <<submitted, tasks, closed>>

Shut ==
  /\ ~closed
  /\ tasks = <<>> /\ \A w \in Thread : running[w] = 0
  /\ closed' = TRUE
  /\ UNCHANGED <<submitted, tasks, running>>

Next == Submit \/ Shut \/ \E w \in Thread : Take(w) \/ End(w)

Spec == Init /\ [][Next]_vars

(* A task does not wait while a thread is idle. *)
FairSpec ==
  /\ Spec
  /\ WF_vars(\E w \in Thread : Take(w))
  /\ \A w \in Thread : WF_vars(End(w))
=============================================================================
