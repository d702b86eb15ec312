----------------------------- MODULE ThreadPool -----------------------------
(***************************************************************************)
(* BS::thread_pool<BS::tp::none> as the server uses it, at the level of    *)
(* tasks_mutex and its two condition variables.  A critical section is one *)
(* step.  The loop thread is the only caller: it submits tasks, and, when  *)
(* the globals are destructed, runs ~thread_pool.  The threads are         *)
(* std::jthreads (the build is C++20).                                     *)
(***************************************************************************)
EXTENDS Naturals, Sequences, FiniteSets

CONSTANTS
  N,        \* thread_count
  MaxTask   \* bound on the number of tasks

(* determine_thread_count never returns 0. *)
ASSUME PoolAssumption == N \in Nat \ {0} /\ MaxTask \in Nat

Thread == 1 .. N

VARIABLES
  tasks,          \* thread_pool::tasks
  tasks_running,  \* thread_pool::tasks_running
  waiting,        \* thread_pool::waiting
  worker,         \* where each thread is: at the top of its loop, in a
                  \* task, waiting on task_available_cv, woken, or gone
  stop,           \* threads whose stop_token has stop_requested()
  caller,         \* the loop thread, in detach_task or ~thread_pool
  submitted       \* number of tasks submitted so far

vars == <<tasks, tasks_running, waiting, worker, stop, caller, submitted>>

TypeOK ==
  /\ tasks \in Seq(1 .. MaxTask)
  /\ tasks_running \in 0 .. N
  /\ waiting \in BOOLEAN
  /\ worker \in [Thread -> [at : {"top", "asleep", "woken", "gone"}]
                             \cup [at : {"task"}, task : 1 .. MaxTask]]
  /\ stop \subseteq Thread
  /\ caller \in [at : {"free", "notify", "asleep", "woken", "done"}]
                  \cup [at : {"stop", "join"}, i : Thread]
  /\ submitted \in 0 .. MaxTask

(* create_threads: the threads exist and count as running until each has   *)
(* reached its first wait.                                                 *)
Init ==
  /\ tasks = <<>>
  /\ tasks_running = N
  /\ waiting = FALSE
  /\ worker = [w \in Thread |-> [at |-> "top"]]
  /\ stop = {}
  /\ caller = [at |-> "free"]
  /\ submitted = 0

----------------------------------------------------------------------------
(* detach_task: push under the lock, ... *)
Detach ==
  /\ caller.at = "free"
  /\ submitted < MaxTask
  /\ submitted' = submitted + 1
  /\ tasks' = Append(tasks, submitted + 1)
  /\ caller' = [at |-> "notify"]
  /\ UNCHANGED <<tasks_running, waiting, worker, stop>>

(* ... then notify_one without it. *)
NotifyOne ==
  /\ caller.at = "notify"
  /\ \/ /\ \A w \in Thread : worker[w].at # "asleep"
        /\ UNCHANGED worker
     \/ \E w \in Thread :
          /\ worker[w].at = "asleep"
          /\ worker' = [worker EXCEPT ![w] = [at |-> "woken"]]
  /\ caller' = [at |-> "free"]
  /\ UNCHANGED <<tasks, tasks_running, waiting, stop, submitted>>

----------------------------------------------------------------------------
(* Slips: a popped task is not counted; the first wait does not look at    *)
(* the queue.                                                              *)
WaitForTaskUncounted(w, n) ==
  /\ tasks_running' = n
  /\ \/ /\ w \in stop
        /\ worker' = [worker EXCEPT ![w] = [at |-> "gone"]]
        /\ UNCHANGED tasks
     \/ /\ w \notin stop /\ tasks # <<>>
        /\ worker' = [worker EXCEPT ![w] = [at |-> "task", task |-> Head(tasks)]]
        /\ tasks' = Tail(tasks)
     \/ /\ w \notin stop /\ tasks = <<>>
        /\ worker' = [worker EXCEPT ![w] = [at |-> "asleep"]]
        /\ UNCHANGED tasks

WorkerTopBlind(w) ==
  /\ worker[w].at = "top"
  /\ caller' = IF waiting /\ tasks_running - 1 = 0 /\ tasks = <<>> /\ caller.at = "asleep"
               THEN [at |-> "woken"] ELSE caller
  /\ worker' = [worker EXCEPT ![w] = [at |-> "asleep"]]
  /\ tasks_running' = tasks_running - 1
  /\ UNCHANGED <<tasks, waiting, stop, submitted>>

(* The wait of worker() with tasks_mutex held and tasks_running at n: a    *)
(* thread asked to stop leaves, one that finds a task pops it, any other   *)
(* goes to sleep.                                                          *)
WaitForTask(w, n) ==
  \/ /\ w \in stop
     /\ worker' = [worker EXCEPT ![w] = [at |-> "gone"]]
     /\ tasks_running' = n
     /\ UNCHANGED tasks
  \/ /\ w \notin stop /\ tasks # <<>>
     /\ worker' = [worker EXCEPT ![w] = [at |-> "task", task |-> Head(tasks)]]
     /\ tasks' = Tail(tasks)
     /\ tasks_running' = n + 1
  \/ /\ w \notin stop /\ tasks = <<>>
     /\ worker' = [worker EXCEPT ![w] = [at |-> "asleep"]]
     /\ tasks_running' = n
     /\ UNCHANGED tasks

(* Slip: wait() is not notified. *)
WorkerTopSilent(w) ==
  /\ worker[w].at = "top"
  /\ WaitForTask(w, tasks_running - 1)
  /\ UNCHANGED <<waiting, stop, caller, submitted>>

(* Top of the loop of worker(): the thread counts itself out, notifies     *)
(* wait() if nothing is left, and waits.                                   *)
WorkerTop(w) ==
  /\ worker[w].at = "top"
  /\ caller' = IF waiting /\ tasks_running - 1 = 0 /\ tasks = <<>> /\ caller.at = "asleep"
               THEN [at |-> "woken"] ELSE caller
  /\ WaitForTask(w, tasks_running - 1)
  /\ UNCHANGED <<waiting, stop, submitted>>

(* Slip: a woken thread counts itself out once more. *)
WorkerWokenCounts(w) ==
  /\ worker[w].at = "woken"
  /\ WaitForTask(w, IF tasks_running > 0 THEN tasks_running - 1 ELSE 0)
  /\ UNCHANGED <<waiting, stop, caller, submitted>>

(* A woken thread has the lock again. *)
WorkerWoken(w) ==
  /\ worker[w].at = "woken"
  /\ WaitForTask(w, tasks_running)
  /\ UNCHANGED <<waiting, stop, caller, submitted>>

(* The task returns or throws, which is all the same to the pool. *)
TaskEnds(w) ==
  /\ worker[w].at = "task"
  /\ worker' = [worker EXCEPT ![w] = [at |-> "top"]]
  /\ UNCHANGED <<tasks, tasks_running, waiting, stop, caller, submitted>>

----------------------------------------------------------------------------
(* Nothing is queued and nothing runs: what wait() waits for. *)
AllDone == tasks_running = 0 /\ tasks = <<>>

(* wait() with tasks_mutex held: the destructor goes on to the threads,    *)
(* last one first, or the caller sleeps on tasks_done_cv.                  *)
WaitForAll ==
  \/ /\ AllDone
     /\ waiting' = FALSE
     /\ caller' = [at |-> "stop", i |-> N]
  \/ /\ ~AllDone
     /\ waiting' = TRUE
     /\ caller' = [at |-> "asleep"]

(* ~thread_pool begins. *)
Destruct ==
  /\ caller.at = "free"
  /\ WaitForAll
  /\ UNCHANGED <<tasks, tasks_running, worker, stop, submitted>>

CallerWoken ==
  /\ caller.at = "woken"
  /\ WaitForAll
  /\ UNCHANGED <<tasks, tasks_running, worker, stop, submitted>>

(* ~jthread of threads[i - 1]: request_stop, which wakes a thread that     *)
(* waits with its stop_token, ...                                          *)
RequestStop ==
  /\ caller.at = "stop"
  /\ stop' = stop \cup {caller.i}
  /\ worker' = IF worker[caller.i].at = "asleep"
               THEN [worker EXCEPT ![caller.i] = [at |-> "woken"]] ELSE worker
  /\ caller' = [at |-> "join", i |-> caller.i]
  /\ UNCHANGED <<tasks, tasks_running, waiting, submitted>>

(* ... and join. *)
Join ==
  /\ caller.at = "join"
  /\ worker[caller.i].at = "gone"
  /\ caller' = IF caller.i = 1 THEN [at |-> "done"]
               ELSE [at |-> "stop", i |-> caller.i - 1]
  /\ UNCHANGED <<tasks, tasks_running, waiting, worker, stop, submitted>>

----------------------------------------------------------------------------
(* A condition variable may wake a thread for no reason. *)
SpuriousWake ==
  \/ \E w \in Thread :
       /\ worker[w].at = "asleep"
       /\ worker' = [worker EXCEPT ![w] = [at |-> "woken"]]
       /\ UNCHANGED <<tasks, tasks_running, waiting, stop, caller, submitted>>
  \/ /\ caller.at = "asleep"
     /\ caller' = [at |-> "woken"]
     /\ UNCHANGED <<tasks, tasks_running, waiting, worker, stop, submitted>>

ThreadStep(w) == WorkerTop(w) \/ WorkerWoken(w) \/ TaskEnds(w)

CallerStep == NotifyOne \/ CallerWoken \/ RequestStop \/ Join

(* The process ends after the destructor. *)
Finished == caller.at = "done" /\ UNCHANGED vars

Next ==
  \/ Detach \/ Destruct \/ CallerStep
  \/ \E w \in Thread : ThreadStep(w)
  \/ SpuriousWake
  \/ Finished

Spec == Init /\ [][Next]_vars

(* Threads run, and tasks end.  Nothing obliges the loop thread to submit  *)
(* anything or to shut down.                                               *)
FairSpec ==
  /\ Spec
  /\ WF_vars(CallerStep)
  /\ \A w \in Thread : WF_vars(ThreadStep(w))

----------------------------------------------------------------------------
(* tasks_running is the number of threads that are in a task or on their   *)
(* way to the queue: the size_t never wraps below 0, and 0 means that no   *)
(* task runs, which is all wait() looks at.                                *)
RunningExact ==
  tasks_running = Cardinality({w \in Thread : worker[w].at \in {"top", "task"}})

(* The pool is the queue the server expects, lost wakeups and the return   *)
(* of ~thread_pool before the last task included.                          *)
Queue == INSTANCE TaskQueue WITH
  running <- [w \in Thread |-> IF worker[w].at = "task" THEN worker[w].task ELSE 0],
  closed  <- caller.at \in {"stop", "join", "done"}

Implements == Queue!FairSpec

(* ~thread_pool comes to its end if tasks do: wait() is notified, and every *)
(* thread learns that it should stop.                                      *)
DestructorReturns == caller.at \in {"asleep", "stop"} ~> caller.at = "done"
=============================================================================
