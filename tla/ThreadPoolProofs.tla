-------------------------- MODULE ThreadPoolProofs --------------------------
(***************************************************************************)
(* For any number of threads and tasks: the counter of the pool is exact,  *)
(* and the pool implements the queue the server expects.  For any number   *)
(* of indices, blocks and threads: BS::blocks divides every range, and the *)
(* parallel loops pass every index to the function once and wait for the   *)
(* last of them.                                                           *)
(***************************************************************************)
EXTENDS ParallelLoop, FiniteSetTheorems, SequenceTheorems, TLAPS

(* The threads that tasks_running counts. *)
Counted == {w \in Thread : worker[w].at \in {"top", "task"}}

ThreadState == [at : {"top", "asleep", "woken", "gone"}]
                 \cup [at : {"task"}, task : 1 .. MaxTask]

(* There are finitely many threads, and at most N of them count. *)
LEMMA CountedFinite ==
  /\ IsFiniteSet(Counted) /\ Cardinality(Counted) \in Nat /\ Cardinality(Counted) <= N
  /\ IsFiniteSet(Counted')
<1>1. IsFiniteSet(Thread) /\ Cardinality(Thread) = N
  BY PoolAssumption, FS_Interval DEF Thread
<1>2. Counted \in SUBSET Thread /\ Counted' \in SUBSET Thread
  BY DEF Counted, Thread
<1>. QED  BY <1>1, <1>2, FS_Subset, FS_CardinalityType

(* A thread that moves enters or leaves the counted set, or neither. *)
LEMMA CountedMoves ==
  ASSUME TypeOK, NEW w \in Thread, NEW v, worker' = [worker EXCEPT ![w] = v]
  PROVE  Counted' = IF v.at \in {"top", "task"} THEN Counted \cup {w} ELSE Counted \ {w}
<1>1. \A x \in Thread : worker'[x] = IF x = w THEN v ELSE worker[x]
  BY DEF TypeOK
<1>2. Thread' = Thread
  BY DEF Thread
<1>. QED  BY <1>1, <1>2 DEF Counted

(* A thread outside the count that takes the lock, with the count of the   *)
(* others at n, leaves the counter exact and everything well-typed.        *)
LEMMA WaitForTaskKeeps ==
  ASSUME TypeOK, NEW w \in Thread, NEW n, n = Cardinality(Counted \ {w}),
         WaitForTask(w, n)
  PROVE  /\ RunningExact'
         /\ tasks' \in Seq(1 .. MaxTask) /\ worker' \in [Thread -> ThreadState]
         /\ tasks_running' \in 0 .. N
<1>1. RunningExact' /\ worker' \in [Thread -> ThreadState] /\ tasks' \in Seq(1 .. MaxTask)
  <2>1. CASE tasks # <<>> /\ w \notin stop
    <3>1. /\ worker' = [worker EXCEPT ![w] = [at |-> "task", task |-> Head(tasks)]]
          /\ tasks' = Tail(tasks) /\ tasks_running' = n + 1
      BY <2>1 DEF WaitForTask
    <3>2. Head(tasks) \in 1 .. MaxTask /\ Tail(tasks) \in Seq(1 .. MaxTask)
      BY <2>1, HeadTailProperties DEF TypeOK
    <3>3. Counted' = (Counted \ {w}) \cup {w}
      <4>1. PICK v : v = [at |-> "task", task |-> Head(tasks)]
        OBVIOUS
      <4>2. v.at = "task" /\ worker' = [worker EXCEPT ![w] = v]
        BY <3>1, <4>1
      <4>3. Counted' = Counted \cup {w}
        BY <4>2, CountedMoves
      <4>. QED  BY <4>3
    <3>4. Cardinality(Counted') = n + 1
      BY <3>3, CountedFinite, FS_RemoveElement, FS_AddElement
    <3>. QED  BY <3>1, <3>2, <3>4 DEF RunningExact, Counted, TypeOK, ThreadState
  <2>2. CASE ~(tasks # <<>> /\ w \notin stop)
    <3>1. PICK a \in {"gone", "asleep"} :
            /\ worker' = [worker EXCEPT ![w] = [at |-> a]]
            /\ tasks' = tasks /\ tasks_running' = n
      BY <2>2 DEF WaitForTask
    <3>2. Counted' = Counted \ {w}
      BY <3>1, CountedMoves
    <3>. QED  BY <3>1, <3>2 DEF RunningExact, Counted, TypeOK, ThreadState
  <2>. QED  BY <2>1, <2>2
<1>2. tasks_running' \in 0 .. N
  <2>1. IsFiniteSet(Thread') /\ Cardinality(Thread') = N
    BY PoolAssumption, FS_Interval DEF Thread
  <2>2. Counted' \in SUBSET Thread'
    BY DEF Counted, Thread
  <2>3. Cardinality(Counted') \in Nat /\ Cardinality(Counted') <= N
    BY <2>1, <2>2, FS_Subset, FS_CardinalityType
  <2>. QED  BY <1>1, <2>3, PoolAssumption DEF RunningExact, Counted
<1>. QED  BY <1>1, <1>2

(* Threads that are not counted may move without being counted. *)
LEMMA Uncounted ==
  ASSUME TypeOK, RunningExact, UNCHANGED tasks_running, NEW w \in Thread,
         worker[w].at \notin {"top", "task"}, worker' = [worker EXCEPT ![w] = [at |-> "woken"]]
  PROVE  RunningExact' /\ worker' \in [Thread -> ThreadState]
<1>1. Counted' = Counted
  <2>1. Counted' = Counted \ {w}
    BY CountedMoves
  <2>2. w \notin Counted
    BY DEF Counted
  <2>. QED  BY <2>1, <2>2
<1>. QED  BY <1>1 DEF RunningExact, Counted, TypeOK, ThreadState

(* Every step keeps the types and the count. *)
LEMMA PoolStep ==
  ASSUME TypeOK, RunningExact, Next
  PROVE  TypeOK' /\ RunningExact'
<1> USE PoolAssumption
<1>1. CASE Detach
  <2>1. submitted + 1 \in 1 .. MaxTask
    BY <1>1 DEF Detach, TypeOK
  <2>2. tasks' \in Seq(1 .. MaxTask)
    BY <1>1, <2>1, AppendProperties DEF Detach, TypeOK
  <2>3. RunningExact'
    BY <1>1 DEF Detach, RunningExact, Thread
  <2>. QED  BY <1>1, <2>1, <2>2, <2>3 DEF Detach, TypeOK
<1>2. CASE Destruct \/ CallerWoken
  <2>1. WaitForAll /\ UNCHANGED <<tasks, tasks_running, worker, stop, submitted>>
    BY <1>2, Zenon DEF Destruct, CallerWoken
  <2>2. caller' \in [at : {"asleep"}] \cup [at : {"stop"}, i : Thread]
    BY <2>1 DEF WaitForAll, Thread
  <2>3. waiting' \in BOOLEAN
    BY <2>1, Zenon DEF WaitForAll
  <2>4. RunningExact'
    BY <2>1 DEF RunningExact, Thread
  <2>5. caller' \in [at : {"free", "notify", "asleep", "woken", "done"}]
                      \cup [at : {"stop", "join"}, i : Thread]
    BY <2>2
  <2>. QED  BY <2>1, <2>3, <2>4, <2>5, Zenon DEF TypeOK
<1>3. CASE NotifyOne
  <2>1. CASE UNCHANGED worker
    BY <1>3, <2>1 DEF NotifyOne, TypeOK, RunningExact
  <2>2. CASE \E w \in Thread :
               worker[w].at = "asleep" /\ worker' = [worker EXCEPT ![w] = [at |-> "woken"]]
    BY <1>3, <2>2, Uncounted DEF NotifyOne, TypeOK, ThreadState
  <2>. QED  BY <1>3, <2>1, <2>2 DEF NotifyOne
<1>4. CASE RequestStop
  <2>1. caller.i \in Thread
    BY <1>4 DEF RequestStop, TypeOK
  <2>2. CASE worker[caller.i].at = "asleep"
    BY <1>4, <2>1, <2>2, Uncounted DEF RequestStop, TypeOK, ThreadState
  <2>3. CASE worker[caller.i].at # "asleep"
    BY <1>4, <2>1, <2>3 DEF RequestStop, TypeOK, RunningExact
  <2>. QED  BY <2>2, <2>3
<1>5. CASE Join
  <2>1. caller.i \in Thread
    BY <1>5 DEF Join, TypeOK
  <2>. QED  BY <1>5, <2>1 DEF Join, TypeOK, RunningExact, Thread
<1>6. CASE SpuriousWake
  <2>1. CASE UNCHANGED worker
    BY <1>6, <2>1 DEF SpuriousWake, TypeOK, RunningExact
  <2>2. CASE \E w \in Thread :
               /\ worker[w].at = "asleep" /\ worker' = [worker EXCEPT ![w] = [at |-> "woken"]]
               /\ UNCHANGED <<tasks, tasks_running, waiting, stop, caller, submitted>>
    BY <2>2, Uncounted DEF TypeOK, ThreadState
  <2>. QED  BY <1>6, <2>1, <2>2 DEF SpuriousWake
<1>7. ASSUME NEW w \in Thread, ThreadStep(w)
      PROVE  TypeOK' /\ RunningExact'
  <2>1. CASE WorkerTop(w)
    <3>1. w \in Counted
      BY <2>1 DEF WorkerTop, Counted
    <3>2. tasks_running - 1 = Cardinality(Counted \ {w})
      BY <3>1, CountedFinite, FS_RemoveElement DEF RunningExact, Counted
    <3>3. WaitForTask(w, tasks_running - 1)
      BY <2>1 DEF WorkerTop
    <3>4. /\ RunningExact' /\ tasks' \in Seq(1 .. MaxTask)
          /\ worker' \in [Thread -> ThreadState] /\ tasks_running' \in 0 .. N
      BY <3>2, <3>3, WaitForTaskKeeps
    <3>5. UNCHANGED <<waiting, stop, submitted>> /\ caller' \in {caller, [at |-> "woken"]}
      BY <2>1 DEF WorkerTop
    <3>. QED  BY <3>4, <3>5 DEF TypeOK, ThreadState
  <2>2. CASE WorkerWoken(w)
    <3>1. Counted \ {w} = Counted
      BY <2>2 DEF WorkerWoken, Counted
    <3>2. tasks_running = Cardinality(Counted \ {w})
      BY <3>1 DEF RunningExact, Counted
    <3>3. WaitForTask(w, tasks_running) /\ UNCHANGED <<waiting, stop, caller, submitted>>
      BY <2>2 DEF WorkerWoken
    <3>4. /\ RunningExact' /\ tasks' \in Seq(1 .. MaxTask)
          /\ worker' \in [Thread -> ThreadState] /\ tasks_running' \in 0 .. N
      BY <3>2, <3>3, WaitForTaskKeeps
    <3>. QED  BY <3>3, <3>4 DEF TypeOK, ThreadState
  <2>3. CASE TaskEnds(w)
    <3>1. Counted' = Counted
      <4>1. Counted' = Counted \cup {w}
        <5>1. PICK v : v = [at |-> "top"]
          OBVIOUS
        <5>2. v.at = "top" /\ worker' = [worker EXCEPT ![w] = v]
          BY <2>3, <5>1 DEF TaskEnds
        <5>. QED  BY <5>2, CountedMoves
      <4>. QED  BY <2>3, <4>1 DEF TaskEnds, Counted
    <3>. QED  BY <2>3, <3>1 DEF TaskEnds, TypeOK, RunningExact, Counted
  <2>. QED  BY <1>7, <2>1, <2>2, <2>3 DEF ThreadStep
<1>8. CASE Finished
  BY <1>8 DEF Finished, vars, TypeOK, RunningExact
<1>. QED  BY <1>1, <1>2, <1>3, <1>4, <1>5, <1>6, <1>7, <1>8 DEF Next, CallerStep

(* A new pool is well-typed, and all of its threads count. *)
LEMMA PoolInit == Init => TypeOK /\ RunningExact
<1> SUFFICES ASSUME Init PROVE TypeOK /\ RunningExact
  OBVIOUS
<1>1. TypeOK
  <2>1. tasks \in Seq(1 .. MaxTask)
    BY EmptySeq DEF Init
  <2>2. worker \in [Thread -> ThreadState]
    BY DEF Init, ThreadState
  <2>3. tasks_running \in 0 .. N /\ submitted \in 0 .. MaxTask
    BY PoolAssumption DEF Init
  <2>4. caller \in [at : {"free", "notify", "asleep", "woken", "done"}]
    BY DEF Init
  <2>5. waiting \in BOOLEAN /\ stop \subseteq Thread
    BY Zenon DEF Init
  <2>. QED  BY <2>1, <2>2, <2>3, <2>4, <2>5, Zenon DEF TypeOK, ThreadState
<1>2. {w \in Thread : worker[w].at \in {"top", "task"}} = Thread
  BY DEF Init
<1>3. Cardinality(Thread) = N
  BY PoolAssumption, FS_Interval DEF Thread
<1>. QED  BY <1>1, <1>2, <1>3 DEF Init, RunningExact

(* tasks_running counts exactly the threads that are in a task or on their *)
(* way to the queue, so it never wraps; for any number of threads.         *)
THEOREM PoolCounts == Spec => [](TypeOK /\ RunningExact)
<1>1. TypeOK /\ RunningExact /\ UNCHANGED vars => TypeOK' /\ RunningExact'
  BY DEF vars, TypeOK, RunningExact
<1>. QED  BY <1>1, PoolInit, PoolStep, PTL DEF Spec

(* The counters, the queue and the places of all threads and of the caller *)
(* keep their types; in particular tasks_running stays within 0 .. N.      *)
THEOREM PoolTypes == Spec => []TypeOK
BY PoolCounts, PTL

----------------------------------------------------------------------------
(* A thread takes a task from the queue as the abstract one does, or does  *)
(* nothing the queue can tell.                                             *)
LEMMA WaitIsTake ==
  ASSUME TypeOK, NEW w \in Thread, NEW n, worker[w].at \in {"top", "woken"},
         WaitForTask(w, n), UNCHANGED submitted,
         caller'.at \in {"stop", "join", "done"} <=> caller.at \in {"stop", "join", "done"}
  PROVE  Queue!Take(w) \/ UNCHANGED Queue!vars
<1> DEFINE run(f) == [x \in Thread |-> IF f[x].at = "task" THEN f[x].task ELSE 0]
<1>1. \A x \in Thread : \A v :
        worker' = [worker EXCEPT ![w] = v] => worker'[x] = IF x = w THEN v ELSE worker[x]
  BY DEF TypeOK
<1>2. CASE tasks # <<>> /\ w \notin stop
  <2>1. /\ worker' = [worker EXCEPT ![w] = [at |-> "task", task |-> Head(tasks)]]
        /\ tasks' = Tail(tasks)
    BY <1>2 DEF WaitForTask
  <2>2. run(worker') = [run(worker) EXCEPT ![w] = Head(tasks)]
    <3>1. ASSUME NEW x \in Thread
          PROVE  (IF worker'[x].at = "task" THEN worker'[x].task ELSE 0)
                   = IF x = w THEN Head(tasks)
                     ELSE IF worker[x].at = "task" THEN worker[x].task ELSE 0
      <4>1. worker'[x] = IF x = w THEN [at |-> "task", task |-> Head(tasks)] ELSE worker[x]
        BY <1>1, <2>1
      <4>. QED  BY <4>1
    <3>. QED  BY <3>1
  <2>3. run(worker)[w] = 0
    OBVIOUS
  <2>. QED  BY <1>2, <2>1, <2>2, <2>3 DEF Queue!Take
<1>3. CASE ~(tasks # <<>> /\ w \notin stop)
  <2>1. PICK a \in {"gone", "asleep"} : worker' = [worker EXCEPT ![w] = [at |-> a]] /\ tasks' = tasks
    BY <1>3 DEF WaitForTask
  <2>2. run(worker') = run(worker)
    BY <1>1, <2>1
  <2>. QED  BY <2>1, <2>2 DEF Queue!vars
<1>. QED  BY <1>2, <1>3

(* A thread that only wakes up takes and ends nothing. *)
LEMMA WakeIsNothing ==
  ASSUME TypeOK, NEW w \in Thread, worker[w].at = "asleep",
         worker' = [worker EXCEPT ![w] = [at |-> "woken"]],
         UNCHANGED <<tasks, submitted>>,
         caller'.at \in {"stop", "join", "done"} <=> caller.at \in {"stop", "join", "done"}
  PROVE  UNCHANGED Queue!vars
<1>1. \A x \in Thread : worker'[x] = IF x = w THEN [at |-> "woken"] ELSE worker[x]
  BY DEF TypeOK
<1>. QED  BY <1>1 DEF Queue!vars

(* Every step of the pool is a step of the queue, or nothing to it. *)
LEMMA PoolStepImplements ==
  ASSUME TypeOK, RunningExact, [Next]_vars
  PROVE  [Queue!Next]_(Queue!vars)
<1> USE PoolAssumption
<1>1. CASE Detach
  BY <1>1 DEF Detach, Queue!Next, Queue!Submit
<1>2. CASE Destruct \/ CallerWoken
  <2>1. CASE AllDone
    <3>1. Counted = {}
      BY <2>1, CountedFinite, FS_EmptySet DEF AllDone, RunningExact, Counted
    <3>2. \A w \in Thread : worker[w].at # "task"
      BY <3>1 DEF Counted
    <3>3. Queue!Shut
      BY <1>2, <2>1, <3>2 DEF Destruct, CallerWoken, WaitForAll, AllDone, Queue!Shut
    <3>. QED  BY <3>3 DEF Queue!Next
  <2>2. CASE ~AllDone
    BY <1>2, <2>2 DEF Destruct, CallerWoken, WaitForAll, Queue!vars
  <2>. QED  BY <2>1, <2>2
<1>3. CASE NotifyOne
  <2>1. CASE UNCHANGED worker
    BY <1>3, <2>1 DEF NotifyOne, Queue!vars
  <2>2. CASE \E w \in Thread :
               worker[w].at = "asleep" /\ worker' = [worker EXCEPT ![w] = [at |-> "woken"]]
    BY <1>3, <2>2, WakeIsNothing DEF NotifyOne
  <2>. QED  BY <1>3, <2>1, <2>2 DEF NotifyOne
<1>4. CASE RequestStop
  <2>1. caller.i \in Thread
    BY <1>4 DEF RequestStop, TypeOK
  <2>2. CASE worker[caller.i].at = "asleep"
    BY <1>4, <2>1, <2>2, WakeIsNothing DEF RequestStop
  <2>3. CASE worker[caller.i].at # "asleep"
    BY <1>4, <2>3 DEF RequestStop, Queue!vars
  <2>. QED  BY <2>2, <2>3
<1>5. CASE Join
  BY <1>5 DEF Join, Queue!vars
<1>6. CASE SpuriousWake
  BY <1>6, WakeIsNothing DEF SpuriousWake, Queue!vars
<1>7. ASSUME NEW w \in Thread, ThreadStep(w)
      PROVE  [Queue!Next]_(Queue!vars)
  <2>1. CASE WorkerTop(w)
    BY <2>1, WaitIsTake DEF WorkerTop, Queue!Next
  <2>2. CASE WorkerWoken(w)
    BY <2>2, WaitIsTake DEF WorkerWoken, Queue!Next
  <2>3. CASE TaskEnds(w)
    <3>1. \A x \in Thread : worker'[x] = IF x = w THEN [at |-> "top"] ELSE worker[x]
      BY <2>3 DEF TaskEnds, TypeOK
    <3>2. worker[w].at = "task" /\ worker[w].task # 0
      BY <2>3 DEF TaskEnds, TypeOK
    <3> DEFINE run(f) == [x \in Thread |-> IF f[x].at = "task" THEN f[x].task ELSE 0]
    <3>3. run(worker') = [run(worker) EXCEPT ![w] = 0]
      <4>1. ASSUME NEW x \in Thread
            PROVE  (IF worker'[x].at = "task" THEN worker'[x].task ELSE 0)
                     = IF x = w THEN 0
                       ELSE IF worker[x].at = "task" THEN worker[x].task ELSE 0
        BY <3>1
      <4>. QED  BY <4>1
    <3>4. Queue!End(w)
      BY <2>3, <3>2, <3>3 DEF TaskEnds, Queue!End
    <3>. QED  BY <3>4 DEF Queue!Next
  <2>. QED  BY <1>7, <2>1, <2>2, <2>3 DEF ThreadStep
<1>8. CASE UNCHANGED vars
  BY <1>8 DEF vars, Queue!vars
<1>. QED  BY <1>1, <1>2, <1>3, <1>4, <1>5, <1>6, <1>7, <1>8 DEF Next, CallerStep, Finished

(* The pool implements the queue: tasks are taken in order, each by one    *)
(* thread, and ~thread_pool gets past its wait() only when every task has  *)
(* run.                                                                    *)
THEOREM PoolIsQueue == Spec => Queue!Spec
<1>1. Init => Queue!Init
  BY DEF Init, Queue!Init
<1>. QED  BY <1>1, PoolStepImplements, PoolCounts, PTL DEF Spec, Queue!Spec

----------------------------------------------------------------------------
(* The parallel loops.                                                     *)

(* The length of the range, taken apart by the division in BS::blocks. *)
LEMMA Division ==
  ASSUME NEW total \in Nat, NEW num \in Nat \ {0}
  PROVE  /\ total \div num \in Nat /\ total % num \in 0..(num - 1)
         /\ total = num * (total \div num) + (total % num)
  BY SMT

(* One more block is one more block_size. *)
LEMMA Successor ==
  ASSUME NEW k \in Nat, NEW size \in Nat
  PROVE  (k + 1) * size = k * size + size
  BY SMT

(* What BS::blocks computes of a range that is not empty. *)
LEMMA BlocksOf ==
  ASSUME NEW f \in Int, NEW a \in Int, NEW n \in Nat \ {0}, a > f
  PROVE  \E num \in Nat \ {0}, size \in Nat \ {0}, rem \in Nat :
           /\ num <= n /\ rem < num /\ a = f + num * size + rem
           /\ blocks(f, a, n) = [first_index |-> f, index_after_last |-> a,
                                 num_blocks |-> num, block_size |-> size,
                                 remainder |-> rem]
<1> DEFINE total == a - f
           num == IF n < total THEN n ELSE total
           size == total \div num
           rem == total % num
<1>1. total \in Nat /\ total > 0 /\ num \in Nat \ {0} /\ num <= n /\ num <= total
  OBVIOUS
<1>2. size \in Nat /\ rem \in 0..(num - 1) /\ total = num * size + rem
  <2> HIDE DEF total, num
  <2> QED BY <1>1, Division
<1>3. size # 0
  <2> HIDE DEF total, num, size, rem
  <2> SUFFICES ASSUME size = 0 PROVE FALSE
    OBVIOUS
  <2>1. num * size = 0
    BY <1>1, SMT
  <2> QED BY <2>1, <1>1, <1>2, SMT
<1>4. blocks(f, a, n) = [first_index |-> f, index_after_last |-> a, num_blocks |-> num,
                         block_size |-> size, remainder |-> rem]
  BY Zenon DEF blocks
<1>5. a = f + num * size + rem
  <2>1. a = f + total
    OBVIOUS
  <2> HIDE DEF total, num, size, rem
  <2>2. num * size \in Int
    BY <1>1, <1>2, SMT
  <2> QED BY <2>1, <2>2, <1>1, <1>2, SMT
<1> HIDE DEF total, num, size, rem
<1> QED BY <1>1, <1>2, <1>3, <1>4, <1>5

(* The blocks of any range follow each other without gap or overlap, none  *)
(* is empty, and their lengths differ by at most one.                      *)
THEOREM BlocksDivide ==
  ASSUME NEW f \in Int, NEW a \in Int, NEW n \in Nat \ {0}
  PROVE  Divides(blocks(f, a, n), n)
<1>1. CASE ~(a > f)
  <2>1. blocks(f, a, n).num_blocks = 0
    BY <1>1 DEF blocks
  <2> QED BY <2>1, SMT DEF Divides
<1>2. CASE a > f
  <2>1. PICK num \in Nat \ {0}, size \in Nat \ {0}, rem \in Nat :
           /\ num <= n /\ rem < num /\ a = f + num * size + rem
           /\ blocks(f, a, n) = [first_index |-> f, index_after_last |-> a,
                                 num_blocks |-> num, block_size |-> size,
                                 remainder |-> rem]
    BY <1>2, BlocksOf
  <2> DEFINE b == blocks(f, a, n)
  <2>2. /\ b.num_blocks = num /\ b.first_index = f /\ b.index_after_last = a
        /\ b.block_size = size /\ b.remainder = rem
    BY <2>1
  <2> HIDE DEF b
  <2>3. start(b, 0) = f
    BY <2>1, <2>2, SMT DEF start
  <2>4. ASSUME NEW k \in 0..(num - 1)
        PROVE  /\ end(b, k) - start(b, k) \in {size, size + 1}
               /\ end(b, k) > start(b, k)
               /\ end(b, k) = IF k + 1 < num THEN start(b, k + 1) ELSE a
    <3>1. /\ k \in Nat /\ k * size \in Nat /\ num * size \in Nat
          /\ (k + 1) * size = k * size + size
      BY <2>1, Successor, SMT
    <3>2. start(b, k) = f + k * size + (IF k < rem THEN k ELSE rem)
      BY <2>2 DEF start
    <3>3. start(b, k + 1) = f + (k * size + size) + (IF k + 1 < rem THEN k + 1 ELSE rem)
      BY <2>2, <3>1 DEF start
    <3>4. CASE k + 1 < num
      <4>1. end(b, k) = start(b, k + 1)
        BY <3>4, <2>1, <2>2, SMT DEF end
      <4> QED BY <4>1, <3>1, <3>2, <3>3, <3>4, <2>1, SMT
    <3>5. CASE ~(k + 1 < num)
      <4>1. k + 1 = num
        BY <3>5, <2>1, SMT
      <4>2. end(b, k) = a
        BY <4>1, <2>1, <2>2, SMT DEF end
      <4>3. num * size = k * size + size
        BY <4>1, <3>1
      <4>4. k >= rem
        BY <4>1, <2>1, SMT
      <4> QED BY <4>2, <4>3, <4>4, <3>1, <3>2, <3>5, <2>1, SMT
    <3> QED BY <3>4, <3>5
  <2>5. Divides(b, n)
    BY <2>1, <2>2, <2>3, <2>4, SMT DEF Divides
  <2> QED BY <2>5 DEF b
<1> QED BY <1>1, <1>2

(* The division under way is always one that BS::blocks made. *)
Made == \E f, a \in Int, n \in Nat \ {0} : call.blks = blocks(f, a, n) /\ call.asked = n

LEMMA MadeKept == Made /\ [LoopNext]_allVars => Made'
<1> SUFFICES ASSUME Made, [LoopNext]_allVars PROVE Made'
  OBVIOUS
<1> USE LoopAssumption, PoolAssumption DEF LoopAssumption, PoolAssumption
<1>1. ASSUME NEW first \in First, NEW after \in Index, NEW futures \in BOOLEAN,
             NEW n \in 0..MaxBlocks, Loop(first, after, n, futures)
      PROVE  Made'
  <2> DEFINE asked == IF n # 0 THEN n ELSE N
  <2>1. asked \in Nat \ {0} /\ first \in Int /\ after \in Int
    OBVIOUS
  <2>2. call' = [blks |-> blocks(first, after, asked), asked |-> asked, futures |-> futures]
    BY <1>1, Zenon DEF Loop, Start
  <2> HIDE DEF asked
  <2> QED BY <2>1, <2>2 DEF Made
<1>2. ASSUME NEW first \in First, NEW after \in Index, NEW futures \in BOOLEAN,
             Sequence(first, after, futures)
      PROVE  Made'
  <2> DEFINE asked == IF after > first THEN after - first ELSE 1
  <2>1. asked \in Nat \ {0} /\ first \in Int /\ after \in Int
    OBVIOUS
  <2>2. call' = [blks |-> blocks(first, after, asked), asked |-> asked, futures |-> futures]
    BY <1>2, Zenon DEF Sequence, Start
  <2> HIDE DEF asked
  <2> QED BY <2>1, <2>2 DEF Made
<1>3. CASE UNCHANGED call
  BY <1>3 DEF Made
<1>4. ASSUME UserStep \/ \E w \in Thread : TaskStep(w) PROVE UNCHANGED call
  BY <1>4, Zenon DEF UserStep, TaskStep, Submit, WaitNext, WaitEnds, WaitForPool,
     PoolWaitEnds, Await, CallIndex, Finish, Throw, Ends, Unmoved
<1>5. ASSUME UNCHANGED loopVars PROVE UNCHANGED call
  BY <1>5 DEF loopVars
<1>6. ASSUME UNCHANGED allVars PROVE UNCHANGED call
  BY <1>6 DEF allVars, loopVars
<1> QED BY <1>1, <1>2, <1>3, <1>4, <1>5, <1>6, Zenon
        DEF LoopNext, QueueStep, detach_blocks, submit_blocks, detach_sequence, submit_sequence

LEMMA MadeInit == LoopInit => Made
<1> SUFFICES ASSUME LoopInit PROVE Made
  OBVIOUS
<1>1. call = [blks |-> blocks(0, 0, 1), asked |-> 1, futures |-> FALSE]
  BY DEF LoopInit, Nothing
<1>2. call.blks = blocks(0, 0, 1) /\ call.asked = 1
  BY <1>1, Zenon
<1> QED BY <1>2 DEF Made

(* Every call of submit_blocks, submit_loop, submit_sequence and of their  *)
(* detach_ counterparts divides its range, whatever the indices, the       *)
(* number of blocks and the number of threads.                             *)
THEOREM RangesAreDivided == LoopSpec => []Divided
<1>1. Made => Divided
  BY BlocksDivide, Zenon DEF Made, Divided
<1> QED BY <1>1, MadeInit, MadeKept, PTL DEF LoopSpec

(* Every step of a loop is one of the pool, or leaves it alone. *)
LEMMA LoopPoolStep == [LoopNext]_allVars => [Next]_vars
<1> SUFFICES ASSUME [LoopNext]_allVars PROVE [Next]_vars
  OBVIOUS
<1>1. ASSUME NEW first, NEW after, NEW n, NEW futures,
             Loop(first, after, n, futures) \/ Sequence(first, after, futures)
      PROVE  UNCHANGED vars
  BY <1>1, Zenon DEF Loop, Sequence, Start, pool
<1>2. ASSUME UserStep PROVE Detach \/ Destruct \/ UNCHANGED vars
  BY <1>2, Zenon DEF UserStep, Submit, WaitNext, WaitEnds, WaitForPool, PoolWaitEnds,
     Await, Unmoved, pool
<1>3. ASSUME NEW w \in Thread, TaskStep(w) \/ QueueStep(w)
      PROVE  ThreadStep(w) \/ UNCHANGED vars
  BY <1>3, Zenon DEF TaskStep, QueueStep, ThreadStep, CallIndex, Finish, Throw, Ends, pool
<1>4. ASSUME UNCHANGED allVars PROVE UNCHANGED vars
  BY <1>4 DEF allVars, pool
<1> QED BY <1>1, <1>2, <1>3, <1>4, Zenon
        DEF LoopNext, Next, detach_blocks, submit_blocks, detach_sequence, submit_sequence

(* The loops use the pool as ThreadPool describes it: every step is one of *)
(* the pool's or leaves it alone.  What is proved of the pool holds here.  *)
THEOREM LoopsUsePool == LoopSpec => Spec
<1>1. LoopInit => Init
  BY DEF LoopInit
<1> QED BY <1>1, LoopPoolStep, PTL DEF LoopSpec, Spec

----------------------------------------------------------------------------
(* Every index is passed to the function once.                             *)

(* Products grow with their factors. *)
LEMMA Monotone ==
  ASSUME NEW j \in Nat, NEW k \in Nat, NEW size \in Nat, j < k
  PROVE  j * size + size <= k * size
<1>1. PICK d \in Nat : k = j + 1 + d
  <2>1. k - j - 1 \in Nat /\ k = j + 1 + (k - j - 1)
    OBVIOUS
  <2> QED BY <2>1
<1>2. k * size = j * size + size + d * size
  BY <1>1, SMT
<1>3. d * size \in Nat /\ j * size \in Nat
  BY SMT
<1> QED BY <1>2, <1>3, SMT

(* What lies below a product lies below one of its factors. *)
LEMMA Quotient ==
  ASSUME NEW x \in Nat, NEW k \in Nat, NEW size \in Nat \ {0}, x < k * size
  PROVE  \E q \in Nat : q < k /\ q * size <= x /\ x < q * size + size
<1> DEFINE q == x \div size
           r == x % size
<1>1. q \in Nat /\ r \in 0..(size - 1) /\ x = size * q + r
  BY Division
<1> HIDE DEF q, r
<1>2. size * q = q * size /\ q * size \in Nat /\ k * size \in Nat
  BY <1>1, SMT
<1>3. q * size <= x /\ x < q * size + size
  BY <1>1, <1>2, SMT
<1>4. q < k
  <2> SUFFICES ASSUME k <= q PROVE FALSE
    BY <1>1
  <2>1. CASE k = q
    BY <1>3, <2>1, SMT
  <2>2. CASE k < q
    <3>1. k * size + size <= q * size
      BY <1>1, <2>2, Monotone
    <3> QED BY <1>2, <1>3, <3>1, SMT
  <2> QED BY <1>1, <2>1, <2>2
<1> QED BY <1>1, <1>3, <1>4

(* The blocks of a division are disjoint and cover its range. *)
LaidOut(b) ==
  /\ b.num_blocks \in Nat /\ b.first_index \in Int /\ b.index_after_last \in Int
  /\ \A k \in 0..(b.num_blocks - 1) :
       /\ start(b, k) \in Int /\ end(b, k) \in Int
       /\ b.first_index <= start(b, k) /\ start(b, k) < end(b, k)
       /\ end(b, k) <= b.index_after_last
       /\ \A j \in 0..(b.num_blocks - 1) : k < j => end(b, k) <= start(b, j)
  /\ \A i \in b.first_index..(b.index_after_last - 1) :
       \E k \in 0..(b.num_blocks - 1) : start(b, k) <= i /\ i < end(b, k)

LEMMA Layout ==
  ASSUME NEW f \in Int, NEW a \in Int, NEW n \in Nat \ {0}
  PROVE  LaidOut(blocks(f, a, n))
<1> PICK b : b = blocks(f, a, n)
  OBVIOUS
<1>1. CASE ~(a > f)
  <2>1. b.first_index = f /\ b.index_after_last = a /\ b.num_blocks = 0
    BY <1>1 DEF blocks
  <2> QED BY <1>1, <2>1, SMT DEF LaidOut
<1>2. CASE a > f
  <2>1. PICK num \in Nat \ {0}, size \in Nat \ {0}, rem \in Nat :
           /\ num <= n /\ rem < num /\ a = f + num * size + rem
           /\ blocks(f, a, n) = [first_index |-> f, index_after_last |-> a,
                                 num_blocks |-> num, block_size |-> size,
                                 remainder |-> rem]
    BY <1>2, BlocksOf
  <2>2. /\ b.num_blocks = num /\ b.first_index = f /\ b.index_after_last = a
        /\ b.block_size = size /\ b.remainder = rem
    BY <2>1
  <2> DEFINE least(k) == IF k < rem THEN k ELSE rem
  <2>3. ASSUME NEW k \in 0..(num - 1)
        PROVE  /\ k \in Nat /\ k * size \in Nat /\ k * size + size <= num * size
               /\ start(b, k) = f + k * size + least(k)
               /\ end(b, k) = f + (k * size + size) + least(k + 1)
    <3>1. k \in Nat /\ k < num /\ k * size \in Nat /\ (k + 1) * size = k * size + size
      BY <2>1, Successor, SMT
    <3>2. k * size + size <= num * size
      BY <3>1, <2>1, Monotone
    <3>3. start(b, k) = f + k * size + least(k)
      BY <2>2 DEF start
    <3>4. CASE k = num - 1
      <4>1. end(b, k) = a /\ num * size = k * size + size /\ least(k + 1) = rem
        <5>1. k + 1 = num
          BY <3>1, <3>4, <2>1, SMT
        <5>2. num * size = k * size + size
          BY <5>1, <3>1
        <5>3. least(k + 1) = rem
          BY <5>1, <2>1, SMT
        <5>4. end(b, k) = a
          BY <3>4, <2>2 DEF end
        <5> QED BY <5>2, <5>3, <5>4
      <4> QED BY <2>1, <3>1, <3>2, <3>3, <4>1
    <3>5. CASE k # num - 1
      <4>1. end(b, k) = start(b, k + 1)
        BY <3>5, <2>2 DEF end
      <4>2. start(b, k + 1) = f + (k * size + size) + least(k + 1)
        BY <2>2, <3>1 DEF start
      <4> QED BY <3>1, <3>2, <3>3, <4>1, <4>2
    <3> QED BY <3>4, <3>5
  <2>4. ASSUME NEW k \in 0..(num - 1)
        PROVE  /\ start(b, k) \in Int /\ end(b, k) \in Int
               /\ f <= start(b, k) /\ start(b, k) < end(b, k) /\ end(b, k) <= a
    <3>1. num * size \in Nat
      BY <2>1, SMT
    <3>2. /\ least(k) \in Nat /\ least(k + 1) \in Nat /\ least(k) <= least(k + 1)
          /\ least(k + 1) <= rem
      BY <2>1, SMT
    <3>3. PICK here \in Nat, all \in Nat : here = k * size /\ all = num * size
      BY <2>3, <3>1
    <3> HIDE DEF least
    <3>4. /\ start(b, k) = f + here + least(k) /\ end(b, k) = f + (here + size) + least(k + 1)
          /\ here + size <= all /\ a = f + all + rem
      BY <2>1, <2>3, <3>3
    <3> QED BY <3>2, <3>4
  <2>5. ASSUME NEW k \in 0..(num - 1), NEW j \in 0..(num - 1), k < j
        PROVE  end(b, k) <= start(b, j)
    <3>1. k * size + size <= j * size
      BY <2>1, <2>5, Monotone
    <3>2. least(k + 1) \in Nat /\ least(j) \in Nat /\ least(k + 1) <= least(j)
      BY <2>1, <2>5, SMT
    <3>3. PICK here \in Nat, there \in Nat : here = k * size /\ there = j * size
      BY <2>3
    <3> HIDE DEF least
    <3>4. /\ end(b, k) = f + (here + size) + least(k + 1) /\ start(b, j) = f + there + least(j)
          /\ here + size <= there
      BY <2>3, <3>1, <3>3
    <3> QED BY <3>2, <3>4
  <2>6. ASSUME NEW i \in f..(a - 1)
        PROVE  \E k \in 0..(num - 1) : start(b, k) <= i /\ i < end(b, k)
    <3> DEFINE x == i - f
               edge == rem * (size + 1)
    <3>1. /\ x \in Nat /\ x < num * size + rem /\ i = f + x
          /\ num * size \in Nat /\ rem * size \in Nat /\ edge = rem * size + rem
      BY <2>1, SMT
    <3>2. CASE x < edge
      <4>1. PICK q \in Nat : q < rem /\ q * (size + 1) <= x /\ x < q * (size + 1) + (size + 1)
        <5>1. size + 1 \in Nat \ {0}
          BY <2>1
        <5> HIDE DEF x
        <5> QED BY <2>1, <3>1, <3>2, <5>1, Quotient, Zenon
      <4>2. q \in 0..(num - 1) /\ q * (size + 1) = q * size + q /\ q * size \in Nat
        BY <2>1, <4>1, SMT
      <4>3. start(b, q) = f + q * size + q /\ end(b, q) = f + (q * size + size) + (q + 1)
        <5>1. least(q) = q /\ least(q + 1) = q + 1
          BY <2>1, <4>1, SMT
        <5> QED BY <2>3, <4>2, <5>1
      <4>4. start(b, q) <= i /\ i < end(b, q)
        <5> HIDE DEF x
        <5> QED BY <2>1, <3>1, <4>1, <4>2, <4>3, SMT
      <4> QED BY <4>2, <4>4
    <3>3. CASE ~(x < edge)
      <4> DEFINE y == x - edge
      <4>1. /\ y \in Nat /\ num - rem \in Nat
            /\ (num - rem) * size = num * size - rem * size /\ i = f + y + rem * size + rem
        BY <2>1, <3>1, <3>3, SMT
      <4>2. y < (num - rem) * size
        <5> HIDE DEF x, edge
        <5> QED BY <2>1, <3>1, <4>1, SMT
      <4>3. PICK q \in Nat : q < num - rem /\ q * size <= y /\ y < q * size + size
        <5> HIDE DEF y
        <5> QED BY <2>1, <4>1, <4>2, Quotient
      <4>4. /\ rem + q \in 0..(num - 1) /\ (rem + q) * size = rem * size + q * size
            /\ q * size \in Nat
        BY <2>1, <4>3, SMT
      <4>5. start(b, rem + q) = f + (rem * size + q * size) + rem
        <5>1. least(rem + q) = rem
          BY <2>1, <4>3, SMT
        <5> QED BY <2>3, <4>4, <5>1
      <4>6. end(b, rem + q) = f + (rem * size + q * size + size) + rem
        <5>1. least(rem + q + 1) = rem
          BY <2>1, <4>3, SMT
        <5> QED BY <2>3, <4>4, <5>1
      <4>7. start(b, rem + q) <= i /\ i < end(b, rem + q)
        <5> HIDE DEF x, y, edge
        <5> QED BY <2>1, <3>1, <4>1, <4>3, <4>4, <4>5, <4>6, SMT
      <4> QED BY <4>4, <4>7
    <3> QED BY <3>2, <3>3
  <2> QED BY <2>2, <2>4, <2>5, <2>6 DEF LaidOut
<1> QED BY <1>1, <1>2

----------------------------------------------------------------------------
(* The inductive invariant.                                                *)

LoopShape ==
  /\ user \in [at : {"idle", "submit", "wait", "returned"}, how : {"none", "get", "wait", "pool"},
               block : Nat, result : {"none", "true", "exception"}]
  /\ progress \in [Block -> Nat]
  /\ future \in [Block -> {"pending", "value", "exception"}]
  /\ called \in [Index -> Nat]
  /\ Indices \subseteq Index

(* The function has been called with the indices that the blocks are past, *)
(* no block is past its end, and one with a value is at its end.           *)
OnceEach ==
  /\ \A b \in Block : NextIndex(b) <= end(call.blks, b)
  /\ \A b \in Block : future[b] = "value" => NextIndex(b) = end(call.blks, b)
  /\ \A i \in Index :
       called[i] = IF \E b \in Block : start(call.blks, b) <= i /\ i < NextIndex(b) THEN 1 ELSE 0

(* How many tasks have been taken from the queue. *)
Taken == submitted - Len(tasks)

(* The queue holds the last tasks in order, those taken are with one       *)
(* thread each, and a future is pending as long as its block is to come,   *)
(* in the queue or with a thread.                                          *)
Accounted ==
  /\ \A k \in DOMAIN tasks : tasks[k] = Taken + k
  /\ \A w \in Thread : worker[w].at = "task" => worker[w].task <= Taken
  /\ \A v, w \in Thread :
       worker[v].at = "task" /\ worker[w].at = "task" /\ worker[v].task = worker[w].task => v = w
  /\ \A b \in Block : future[b] = "pending" <=> b >= Taken \/ \E w \in Thread : Runs(w, b)

(* What the caller has seen to at each point of its way. *)
Awaited ==
  /\ submitted <= call.blks.num_blocks
  /\ user.at = "idle" => submitted = 0 /\ call.blks.num_blocks = 0 /\ user.block = 0 /\ user.how = "none"
  /\ user.at = "submit" => user.block = submitted /\ user.how = "none"
  /\ user.at \in {"wait", "returned"} => submitted = call.blks.num_blocks /\ user.how # "none"
  /\ user.how \in {"get", "wait"} =>
       /\ user.block <= call.blks.num_blocks
       /\ \A b \in Block : b < user.block =>
            future[b] # "pending" /\ (user.how = "get" => future[b] = "value")
       /\ user.at = "returned" /\ user.result = "true" => user.block = call.blks.num_blocks

Closed == caller.at \in {"stop", "join", "done"}

(* The pool is destructed by the last wait, and closed without tasks. *)
Shut ==
  /\ caller.at \notin {"free", "notify"} => user.how = "pool"
  /\ user.how = "pool" /\ user.at = "returned" => Closed
  /\ Closed => tasks = <<>> /\ \A w \in Thread : worker[w].at # "task"

InPlace == LaidOut(call.blks)

LEMMA MadeInPlace == Made => InPlace
BY Layout, Zenon DEF Made, InPlace

LEMMA InPlaceKept == Made' => InPlace'
BY MadeInPlace, PTL

----------------------------------------------------------------------------
(* Steps of the pool. *)

(* Threads that run the same tasks as before. *)
SameRuns ==
  \A w \in Thread : /\ worker'[w].at = "task" <=> worker[w].at = "task"
                    /\ worker[w].at = "task" => worker'[w].task = worker[w].task

LEMMA AccountedSame ==
  ASSUME Accounted, SameRuns, UNCHANGED <<tasks, submitted, call, future>>
  PROVE  Accounted'
<1>1. Block' = Block /\ Taken' = Taken /\ Thread' = Thread
  BY DEF Block, Taken, Thread
<1>2. \A w \in Thread, b \in Block : Runs(w, b)' <=> Runs(w, b)
  BY DEF SameRuns, Runs
<1> QED BY <1>1, <1>2 DEF Accounted, SameRuns

(* A thread takes the first task, or none. *)
LEMMA Takes ==
  ASSUME TypeOK, Accounted, InPlace, submitted <= call.blks.num_blocks, NEW w \in Thread, NEW n,
         worker[w].at \in {"top", "woken"}, WaitForTask(w, n), UNCHANGED <<submitted, call, future>>
  PROVE  Accounted'
<1>1. CASE tasks # <<>> /\ w \notin stop
  <2> PICK t : t = Head(tasks)
    OBVIOUS
  <2>1. worker' = [worker EXCEPT ![w] = [at |-> "task", task |-> t]] /\ tasks' = Tail(tasks)
    BY <1>1 DEF WaitForTask
  <2>2. /\ t = tasks[1] /\ 1 \in DOMAIN tasks /\ tasks \in Seq(1..MaxTask)
        /\ Len(tasks) \in Nat /\ Len(tasks') = Len(tasks) - 1 /\ submitted \in Nat
        /\ DOMAIN tasks' = 1..(Len(tasks) - 1) /\ DOMAIN tasks = 1..Len(tasks)
        /\ \A k \in 1..(Len(tasks) - 1) : tasks'[k] = tasks[k + 1]
    BY <1>1, <2>1 DEF TypeOK
  <2>3. t = Taken + 1 /\ Taken' = Taken + 1 /\ Taken \in Int
    BY <2>2 DEF Accounted, Taken
  <2>4. \A x \in Thread : worker'[x] = IF x = w THEN [at |-> "task", task |-> t] ELSE worker[x]
    BY <2>1 DEF TypeOK
  <2>5. \A x \in Thread : worker[x].at = "task" => worker[x].task \in Int
    BY DEF TypeOK
  <2>6. \A k \in DOMAIN tasks' : tasks'[k] = Taken' + k
    <3> SUFFICES ASSUME NEW k \in 1..(Len(tasks) - 1) PROVE tasks'[k] = Taken' + k
      BY <2>2
    <3>1. k + 1 \in DOMAIN tasks /\ tasks'[k] = tasks[k + 1]
      BY <2>2
    <3>2. tasks[k + 1] = Taken + (k + 1)
      BY <3>1 DEF Accounted
    <3> QED BY <2>3, <3>1, <3>2
  <2>7. \A x \in Thread : worker'[x].at = "task" => worker'[x].task <= Taken'
    <3> SUFFICES ASSUME NEW x \in Thread, worker'[x].at = "task" PROVE worker'[x].task <= Taken'
      OBVIOUS
    <3>1. CASE x = w
      BY <2>3, <2>4, <3>1
    <3>2. CASE x # w
      BY <2>3, <2>4, <2>5, <3>2 DEF Accounted
    <3> QED BY <3>1, <3>2
  <2>8. \A x \in Thread : x # w /\ worker[x].at = "task" => worker[x].task # t
    BY <2>3, <2>5 DEF Accounted
  <2>9. \A v, x \in Thread :
          worker'[v].at = "task" /\ worker'[x].at = "task" /\ worker'[v].task = worker'[x].task => v = x
    <3> SUFFICES ASSUME NEW v \in Thread, NEW x \in Thread, v # x,
                        worker'[v].at = "task", worker'[x].at = "task"
                 PROVE  worker'[v].task # worker'[x].task
      OBVIOUS
    <3>1. CASE v = w
      BY <2>4, <2>8, <3>1
    <3>2. CASE x = w
      BY <2>4, <2>8, <3>2
    <3>3. CASE v # w /\ x # w
      BY <2>4, <3>3 DEF Accounted
    <3> QED BY <3>1, <3>2, <3>3
  <2>10. ASSUME NEW b \in Block
         PROVE  future[b] = "pending" <=> b >= Taken' \/ \E x \in Thread : Runs(x, b)'
    <3>1. b \in Int
      BY DEF Block, InPlace, LaidOut
    <3>2. future[b] = "pending" <=> b >= Taken \/ \E x \in Thread : Runs(x, b)
      BY DEF Accounted
    <3>3. ASSUME NEW x \in Thread, x # w PROVE Runs(x, b)' <=> Runs(x, b)
      BY <2>4, <3>3 DEF Runs
    <3>4. ~Runs(w, b) /\ (Runs(w, b)' <=> b = Taken)
      BY <2>3, <2>4, <3>1 DEF Runs
    <3>5. b >= Taken <=> b >= Taken' \/ b = Taken
      BY <2>3, <3>1
    <3>6. (\E x \in Thread : Runs(x, b)') <=> b = Taken \/ \E x \in Thread : Runs(x, b)
      BY <3>3, <3>4
    <3> QED BY <3>2, <3>5, <3>6
  <2>11. Block' = Block /\ Thread' = Thread
    BY DEF Block, Thread
  <2> QED BY <2>6, <2>7, <2>9, <2>10, <2>11 DEF Accounted
<1>2. CASE ~(tasks # <<>> /\ w \notin stop)
  <2>1. PICK a \in {"gone", "asleep"} : worker' = [worker EXCEPT ![w] = [at |-> a]] /\ tasks' = tasks
    BY <1>2 DEF WaitForTask
  <2>2. SameRuns
    BY <2>1 DEF SameRuns, TypeOK
  <2> QED BY <2>1, <2>2, AccountedSame
<1> QED BY <1>1, <1>2

(* A thread that is asleep only wakes up. *)
LEMMA WakeSame ==
  ASSUME TypeOK, NEW w \in Thread, worker[w].at = "asleep", worker' = [worker EXCEPT ![w] = [at |-> "woken"]]
  PROVE  SameRuns
BY DEF SameRuns, TypeOK

(* The caller's own steps in the pool, and a spurious wake-up. *)
LEMMA QuietPool ==
  ASSUME TypeOK, CallerStep \/ SpuriousWake \/ Destruct
  PROVE  SameRuns /\ UNCHANGED <<tasks, submitted>>
<1>1. UNCHANGED <<tasks, submitted>>
  BY Zenon DEF CallerStep, SpuriousWake, Destruct, NotifyOne, CallerWoken, RequestStop, Join
<1>2. ASSUME UNCHANGED worker PROVE SameRuns
  BY <1>2 DEF SameRuns
<1>3. ASSUME \E w \in Thread :
               worker[w].at = "asleep" /\ worker' = [worker EXCEPT ![w] = [at |-> "woken"]]
      PROVE  SameRuns
  BY <1>3, WakeSame
<1>4. ASSUME RequestStop PROVE SameRuns
  <2>1. caller.i \in Thread
    BY <1>4 DEF RequestStop, TypeOK
  <2> QED BY <1>2, <1>3, <1>4, <2>1 DEF RequestStop
<1>5. UNCHANGED worker \/ RequestStop \/ \E w \in Thread :
        worker[w].at = "asleep" /\ worker' = [worker EXCEPT ![w] = [at |-> "woken"]]
  BY Zenon DEF CallerStep, SpuriousWake, Destruct, NotifyOne, CallerWoken, Join
<1> QED BY <1>1, <1>2, <1>3, <1>4, <1>5

(* Once the pool is closed it stays so, and without tasks. *)
LEMMA ClosedStep ==
  ASSUME TypeOK, RunningExact, [Next]_vars,
         Closed => tasks = <<>> /\ \A w \in Thread : worker[w].at # "task"
  PROVE  /\ Closed => Closed'
         /\ Closed' => tasks' = <<>> /\ \A w \in Thread : worker'[w].at # "task"
<1> DEFINE run(f) == [x \in Thread |-> IF f[x].at = "task" THEN f[x].task ELSE 0]
<1>1. [Queue!Next]_(Queue!vars)
  BY PoolStepImplements
<1>2. \/ /\ ~Closed /\ Closed' = Closed
      \/ /\ ~Closed /\ tasks = <<>> /\ tasks' = tasks /\ run(worker') = run(worker)
         /\ \A w \in Thread : run(worker)[w] = 0
      \/ UNCHANGED tasks /\ run(worker') = run(worker) /\ Closed' = Closed
      \/ tasks # <<>> /\ Closed' = Closed
      \/ (\E w \in Thread : run(worker)[w] # 0) /\ Closed' = Closed
  BY <1>1, Zenon DEF Queue!Next, Queue!vars, Queue!Submit, Queue!Take, Queue!End, Queue!Shut, Closed
<1>3. (\A w \in Thread : run(worker)[w] = 0) <=> \A w \in Thread : worker[w].at # "task"
  BY DEF TypeOK
<1>4. TypeOK'
  BY PoolStep DEF vars, TypeOK
<1>5. (\A w \in Thread : run(worker')[w] = 0) <=> \A w \in Thread : worker'[w].at # "task"
  <2>1. worker' \in [Thread -> ThreadState]
    BY <1>4 DEF TypeOK, ThreadState, Thread
  <2>2. \A w \in Thread : run(worker')[w] = IF worker'[w].at = "task" THEN worker'[w].task ELSE 0
    BY Zenon
  <2> HIDE DEF run
  <2> QED BY <2>1, <2>2 DEF ThreadState
<1> HIDE DEF run
<1> QED BY <1>2, <1>3, <1>5

----------------------------------------------------------------------------
(* Steps of the loops. *)

LoopInv == LoopShape /\ OnceEach /\ Accounted /\ Awaited /\ Shut

(* What holds of every state before a step. *)
Before == TypeOK /\ RunningExact /\ InPlace /\ LoopInv

LEMMA ShutStep ==
  ASSUME TypeOK, RunningExact, Shut, [Next]_vars,
         caller'.at \notin {"free", "notify"} => caller.at \notin {"free", "notify"} \/ user'.how = "pool",
         user.how = "pool" => user'.how = "pool",
         user'.how = "pool" /\ user'.at = "returned" => Closed \/ (user.how = "pool" /\ user.at = "returned")
  PROVE  Shut'
<1>1. /\ Closed => Closed'
      /\ Closed' => tasks' = <<>> /\ \A w \in Thread : worker'[w].at # "task"
  BY ClosedStep DEF Shut
<1>2. Thread' = Thread
  BY DEF Thread
<1> QED BY <1>1, <1>2 DEF Shut

(* The pool moves and the loop does not. *)
LEMMA PoolMoves ==
  ASSUME Before, [Next]_vars, UNCHANGED loopVars,
         (CallerStep \/ SpuriousWake) \/ \E w \in Thread : WorkerTop(w) \/ WorkerWoken(w)
  PROVE  LoopInv'
<1>1. UNCHANGED <<call, user, progress, future, called>>
  BY DEF loopVars
<1>2. submitted' = submitted
  BY Zenon DEF CallerStep, SpuriousWake, NotifyOne, CallerWoken, RequestStop, Join, WorkerTop, WorkerWoken
<1>3. LoopShape' /\ OnceEach' /\ Awaited'
  BY <1>1, <1>2, Zenon DEF Before, LoopInv, LoopShape, OnceEach, Awaited, Block, Indices, NextIndex
<1>4. Accounted'
  <2>1. CASE CallerStep \/ SpuriousWake
    BY <1>1, <2>1, QuietPool, AccountedSame DEF Before, LoopInv
  <2>2. ASSUME NEW w \in Thread, WorkerTop(w) \/ WorkerWoken(w) PROVE Accounted'
    <3>1. PICK n : WaitForTask(w, n) /\ worker[w].at \in {"top", "woken"}
      BY <2>2 DEF WorkerTop, WorkerWoken
    <3> QED BY <1>1, <1>2, <3>1, Takes DEF Before, LoopInv, Awaited
  <2> QED BY <2>1, <2>2
<1>5. caller'.at \notin {"free", "notify"} => caller.at \notin {"free", "notify"}
  <2>1. CASE UNCHANGED caller
    BY <2>1
  <2>2. CASE caller'.at = "free"
    BY <2>2
  <2>3. CASE caller.at \in {"asleep", "woken", "stop", "join"}
    BY <2>3
  <2>4. ASSUME NotifyOne PROVE caller'.at = "free"
    BY <2>4 DEF NotifyOne
  <2>5. ASSUME NEW w \in Thread, WorkerTop(w) PROVE UNCHANGED caller \/ caller.at = "asleep"
    BY <2>5, Zenon DEF WorkerTop
  <2>6. ASSUME SpuriousWake PROVE UNCHANGED caller \/ caller.at = "asleep"
    BY <2>6, Zenon DEF SpuriousWake
  <2> QED BY <2>1, <2>2, <2>3, <2>4, <2>5, <2>6
          DEF CallerStep, CallerWoken, RequestStop, Join, WorkerWoken
<1>6. Shut'
  BY <1>1, <1>5, ShutStep DEF Before, LoopInv
<1> QED BY <1>3, <1>4, <1>6 DEF LoopInv

(* The caller waits for futures, or for the pool. *)
LEMMA UserWaits ==
  ASSUME Before, Unmoved,
         WaitNext \/ WaitEnds \/ PoolWaitEnds \/ \E how \in {"get", "wait"} : Await(how)
  PROVE  LoopInv'
<1>1. UNCHANGED <<call, progress, future, called, tasks, submitted, worker, caller, vars>>
  BY DEF Unmoved, pool, vars
<1>2. /\ user \in [at : {"idle", "submit", "wait", "returned"}, how : {"none", "get", "wait", "pool"},
                   block : Nat, result : {"none", "true", "exception"}]
      /\ call.blks.num_blocks \in Nat /\ submitted \in Nat /\ Block = 0..(call.blks.num_blocks - 1)
  BY DEF Before, LoopInv, LoopShape, InPlace, LaidOut, TypeOK, Block
<1>3. OnceEach' /\ Accounted'
  BY <1>1, Zenon DEF Before, LoopInv, OnceEach, Accounted, Block, NextIndex, Taken, Runs, Thread
<1>4. /\ user' \in [at : {"wait", "returned"}, how : {"get", "wait", "pool"},
                    block : Nat, result : {"none", "true", "exception"}]
      /\ Awaited' /\ (user.how = "pool" <=> user'.how = "pool")
      /\ user'.how = "pool" /\ user'.at = "returned" => Closed
  <2>1. ASSUME NEW how \in {"get", "wait"}, Await(how) PROVE <1>4!:
    <3>1. /\ user.at = "submit" /\ user.block \notin Block
          /\ user' = [user EXCEPT !.at = "wait", !.how = how, !.block = 0]
      BY <2>1, Zenon DEF Await, Submitted
    <3>2. /\ user'.at = "wait" /\ user'.how = how /\ user'.block = 0 /\ user'.result = user.result
          /\ user' \in [at : {"wait", "returned"}, how : {"get", "wait", "pool"},
                        block : Nat, result : {"none", "true", "exception"}]
      BY <1>2, <3>1
    <3>3. user.block = submitted /\ user.how = "none" /\ submitted <= call.blks.num_blocks
      BY <3>1 DEF Before, LoopInv, Awaited
    <3>4. submitted = call.blks.num_blocks
      BY <1>2, <3>1, <3>3
    <3>5. Awaited'
      BY <1>1, <1>2, <3>2, <3>4 DEF Awaited, Block
    <3> QED BY <3>2, <3>3, <3>5
  <2>2. CASE WaitNext \/ WaitEnds \/ PoolWaitEnds
    <3>1. user.at = "wait"
      BY <2>2, Zenon DEF WaitNext, WaitEnds, PoolWaitEnds, InWait
    <3>2. submitted = call.blks.num_blocks /\ user.how # "none"
      BY <3>1 DEF Before, LoopInv, Awaited
    <3>3. CASE Further /\ user.block \in Block /\ user.how \in {"get", "wait"}
               /\ future[user.block] # "pending"
               /\ (user.how = "get" => future[user.block] # "exception")
      <4>1. /\ user'.at = "wait" /\ user'.how = user.how /\ user'.block = user.block + 1
            /\ user' \in [at : {"wait", "returned"}, how : {"get", "wait", "pool"},
                          block : Nat, result : {"none", "true", "exception"}]
        BY <1>2, <3>1, <3>2, <3>3 DEF Further
      <4>2. future[user.block] \in {"pending", "value", "exception"}
        BY <3>3 DEF Before, LoopInv, LoopShape
      <4>3. ASSUME NEW b \in Block, b < user.block + 1
            PROVE  future[b] # "pending" /\ (user.how = "get" => future[b] = "value")
        <5>1. CASE b = user.block
          BY <3>3, <4>2, <5>1
        <5>2. CASE b # user.block
          <6>1. b < user.block
            BY <1>2, <4>3, <5>2
          <6> QED BY <3>3, <6>1 DEF Before, LoopInv, Awaited
        <5> QED BY <5>1, <5>2
      <4>4. Awaited'
        BY <1>1, <1>2, <3>2, <3>3, <4>1, <4>3 DEF Awaited, Block
      <4> QED BY <3>3, <4>1, <4>4
    <3>4. ASSUME NEW result \in {"true", "exception"}, Returns(result),
                 user.how = "pool" => Closed,
                 user.how # "pool" /\ result = "true" => user.block \notin Block
          PROVE  <1>4!:
      <4>1. /\ user'.at = "returned" /\ user'.how = user.how /\ user'.block = user.block
            /\ user'.result = result
            /\ user' \in [at : {"wait", "returned"}, how : {"get", "wait", "pool"},
                          block : Nat, result : {"none", "true", "exception"}]
        BY <1>2, <3>1, <3>2, <3>4 DEF Returns
      <4>2. user.how \in {"get", "wait"} /\ result = "true" => user.block = call.blks.num_blocks
        <5>1. user.how \in {"get", "wait"} => user.block <= call.blks.num_blocks
          BY DEF Before, LoopInv, Awaited
        <5> QED BY <1>2, <3>4, <5>1
      <4>3. Awaited'
        BY <1>1, <1>2, <3>2, <4>1, <4>2 DEF Before, LoopInv, Awaited, Block
      <4> QED BY <3>4, <4>1, <4>3
    <3>5. CASE WaitNext
      <4>1. /\ user.how \in {"get", "wait"} /\ user.block \in Block /\ future[user.block] # "pending"
            /\ \/ user.how = "get" /\ future[user.block] = "exception" /\ Returns("exception")
               \/ ~(user.how = "get" /\ future[user.block] = "exception") /\ Further
        BY <3>5, Zenon DEF WaitNext, InWait
      <4>2. CASE Returns("exception")
        BY <3>4, <4>1, <4>2
      <4> QED BY <3>3, <4>1, <4>2
    <3>6. CASE WaitEnds
      BY <3>4, <3>6 DEF WaitEnds, InWait
    <3>7. CASE PoolWaitEnds
      BY <3>4, <3>7 DEF PoolWaitEnds, InWait, Closed
    <3> QED BY <2>2, <3>5, <3>6, <3>7
  <2> QED BY <2>1, <2>2
<1>5. LoopShape'
  <2>1. user' \in [at : {"idle", "submit", "wait", "returned"}, how : {"none", "get", "wait", "pool"},
                   block : Nat, result : {"none", "true", "exception"}]
    BY <1>4
  <2> QED BY <1>1, <2>1 DEF Before, LoopInv, LoopShape, Block, Indices
<1>6. Shut'
  BY <1>1, <1>4, ShutStep DEF Before, LoopInv
<1> QED BY <1>3, <1>4, <1>5, <1>6 DEF LoopInv

(* One more block is queued. *)
LEMMA Submits ==
  ASSUME Before, Submit, [Next]_vars
  PROVE  LoopInv'
<1>1. /\ UNCHANGED <<call, progress, future, called, worker>> /\ user.at = "submit" /\ user.block \in Block
      /\ user' = [user EXCEPT !.block = @ + 1]
      /\ submitted' = submitted + 1 /\ tasks' = Append(tasks, submitted + 1)
      /\ caller.at = "free" /\ caller' = [at |-> "notify"]
  BY Zenon DEF Submit, Detach
<1>2. /\ user \in [at : {"idle", "submit", "wait", "returned"}, how : {"none", "get", "wait", "pool"},
                   block : Nat, result : {"none", "true", "exception"}]
      /\ call.blks.num_blocks \in Nat /\ submitted \in Nat /\ Block = 0..(call.blks.num_blocks - 1)
      /\ tasks \in Seq(1..MaxTask)
  BY DEF Before, LoopInv, LoopShape, InPlace, LaidOut, TypeOK, Block
<1>3. /\ user' \in [at : {"submit"}, how : {user.how}, block : {user.block + 1}, result : {user.result}]
      /\ user.block = submitted /\ user.how = "none"
  BY <1>1, <1>2 DEF Before, LoopInv, Awaited
<1>4. LoopShape' /\ OnceEach'
  <2>1. user' \in [at : {"idle", "submit", "wait", "returned"}, how : {"none", "get", "wait", "pool"},
                   block : Nat, result : {"none", "true", "exception"}]
    BY <1>2, <1>3
  <2> QED BY <1>1, <2>1 DEF Before, LoopInv, LoopShape, OnceEach, Block, Indices, NextIndex
<1>5. Accounted'
  <2>1. Taken' = Taken /\ Taken \in Int /\ Thread' = Thread /\ Block' = Block
    BY <1>1, <1>2 DEF Taken, Thread, Block
  <2>2. \A k \in DOMAIN tasks' : tasks'[k] = Taken + k
    <3>1. ASSUME NEW k \in DOMAIN tasks', k \in DOMAIN tasks PROVE tasks'[k] = Taken + k
      <4>1. tasks'[k] = tasks[k]
        BY <1>1, <1>2, <3>1
      <4> QED BY <3>1, <4>1 DEF Before, LoopInv, Accounted
    <3>2. ASSUME NEW k \in DOMAIN tasks', k \notin DOMAIN tasks PROVE tasks'[k] = Taken + k
      BY <1>1, <1>2, <3>2 DEF Taken
    <3> QED BY <3>1, <3>2
  <2>3. \A w \in Thread, b \in Block : Runs(w, b)' <=> Runs(w, b)
    BY <1>1 DEF Runs
  <2> QED BY <1>1, <2>1, <2>2, <2>3 DEF Before, LoopInv, Accounted
<1>6. Awaited'
  BY <1>1, <1>2, <1>3 DEF Before, LoopInv, Awaited, Block
<1>7. Shut'
  BY <1>1, <1>3, ShutStep DEF Before, LoopInv
<1> QED BY <1>4, <1>5, <1>6, <1>7 DEF LoopInv

(* ~thread_pool begins. *)
LEMMA Destructs ==
  ASSUME Before, WaitForPool, [Next]_vars
  PROVE  LoopInv'
<1>1. /\ UNCHANGED <<call, progress, future, called>> /\ Destruct
      /\ user' = [user EXCEPT !.at = "wait", !.how = "pool"]
      /\ (user.at = "submit" /\ user.block \notin Block) \/ (user.at = "returned" /\ user.how # "pool")
  BY Zenon DEF WaitForPool, Submitted
<1>2. /\ user \in [at : {"idle", "submit", "wait", "returned"}, how : {"none", "get", "wait", "pool"},
                   block : Nat, result : {"none", "true", "exception"}]
      /\ call.blks.num_blocks \in Nat /\ submitted \in Nat /\ Block = 0..(call.blks.num_blocks - 1)
  BY DEF Before, LoopInv, LoopShape, InPlace, LaidOut, TypeOK, Block
<1>3. user' \in [at : {"wait"}, how : {"pool"}, block : Nat, result : {"none", "true", "exception"}]
  BY <1>1, <1>2
<1>4. LoopShape' /\ OnceEach'
  <2>1. user' \in [at : {"idle", "submit", "wait", "returned"}, how : {"none", "get", "wait", "pool"},
                   block : Nat, result : {"none", "true", "exception"}]
    BY <1>3
  <2> QED BY <1>1, <2>1 DEF Before, LoopInv, LoopShape, OnceEach, Block, Indices, NextIndex
<1>5. SameRuns /\ UNCHANGED <<tasks, submitted>>
  BY <1>1, QuietPool DEF Before
<1>6. submitted = call.blks.num_blocks
  BY <1>1, <1>2 DEF Before, LoopInv, Awaited
<1>7. Awaited'
  BY <1>1, <1>2, <1>3, <1>5, <1>6 DEF Awaited
<1>8. Shut'
  BY <1>3, ShutStep DEF Before, LoopInv
<1> QED BY <1>1, <1>4, <1>5, <1>7, <1>8, AccountedSame DEF Before, LoopInv

(* The function is called with the next index of a block: no other block   *)
(* has it, and this block has not been past it.                            *)
LEMMA Calls ==
  ASSUME Before, NEW w \in Thread, NEW b \in Block, CallIndex(w, b)
  PROVE  LoopInv'
<1> DEFINE blks == call.blks
<1> PICK i : i = NextIndex(b)
  OBVIOUS
<1>1. /\ i < end(blks, b) /\ called' = [called EXCEPT ![i] = @ + 1]
      /\ progress' = [progress EXCEPT ![b] = @ + 1] /\ UNCHANGED <<pool, call, user, future>>
  BY Zenon DEF CallIndex
<1>2. UNCHANGED <<vars, tasks, submitted, worker, caller>> /\ Block' = Block /\ Thread' = Thread
  BY <1>1 DEF pool, vars, Block, Thread
<1>3. /\ progress \in [Block -> Nat] /\ called \in [Index -> Nat] /\ Indices \subseteq Index
      /\ future \in [Block -> {"pending", "value", "exception"}]
  BY DEF Before, LoopInv, LoopShape
<1>4. /\ \A k \in Block : progress'[k] = IF k = b THEN progress[k] + 1 ELSE progress[k]
      /\ \A j \in Index : called'[j] = IF j = i THEN called[j] + 1 ELSE called[j]
      /\ progress' \in [Block -> Nat] /\ called' \in [Index -> Nat]
  <2>1. \A k \in Block : progress'[k] = IF k = b THEN progress[k] + 1 ELSE progress[k]
    BY <1>1, <1>3
  <2>2. \A j \in Index : called'[j] = IF j = i THEN called[j] + 1 ELSE called[j]
    BY <1>1, <1>3
  <2>3. progress' \in [Block -> Nat]
    BY <1>1, <1>3
  <2>4. DOMAIN called' = Index /\ called' = [j \in Index |-> called'[j]]
    BY <1>1, <1>3, Zenon
  <2>5. \A j \in Index : called'[j] \in Nat
    BY <1>3, <2>2
  <2> QED BY <2>1, <2>2, <2>3, <2>4, <2>5
<1>5. LoopShape'
  BY <1>1, <1>2, <1>4 DEF Before, LoopInv, LoopShape, Indices
<1>6. \A k \in Block : /\ start(blks, k) \in Int /\ end(blks, k) \in Int
                       /\ NextIndex(k) \in Int /\ start(blks, k) <= NextIndex(k)
                       /\ NextIndex(k) <= end(blks, k)
  <2> SUFFICES ASSUME NEW k \in Block
               PROVE  /\ start(blks, k) \in Int /\ end(blks, k) \in Int
                      /\ NextIndex(k) \in Int /\ start(blks, k) <= NextIndex(k)
                      /\ NextIndex(k) <= end(blks, k)
    OBVIOUS
  <2>1. start(blks, k) \in Int /\ end(blks, k) \in Int /\ progress[k] \in Nat
    BY <1>3 DEF Before, InPlace, LaidOut, Block
  <2>2. NextIndex(k) <= end(blks, k)
    BY DEF Before, LoopInv, OnceEach
  <2> QED BY <2>1, <2>2 DEF NextIndex
<1>7. \A k \in Block : NextIndex(k)' = IF k = b THEN NextIndex(k) + 1 ELSE NextIndex(k)
  <2> SUFFICES ASSUME NEW k \in Block
               PROVE  start(blks, k) + progress'[k] = IF k = b THEN NextIndex(k) + 1 ELSE NextIndex(k)
    BY <1>1 DEF NextIndex
  <2> QED BY <1>3, <1>4, <1>6 DEF NextIndex
<1>8. \A k \in Block : k # b => ~(start(blks, k) <= i /\ i < end(blks, k))
  <2> SUFFICES ASSUME NEW k \in Block, k # b, start(blks, k) <= i, i < end(blks, k) PROVE FALSE
    OBVIOUS
  <2>1. k \in Int /\ b \in Int /\ (k < b \/ b < k)
    BY DEF Block, Before, InPlace, LaidOut
  <2>2. (k < b => end(blks, k) <= start(blks, b)) /\ (b < k => end(blks, b) <= start(blks, k))
    BY DEF Block, Before, InPlace, LaidOut
  <2>3. start(blks, b) <= i /\ i < end(blks, b) /\ i \in Int
    BY <1>1, <1>6
  <2> QED BY <1>6, <2>1, <2>2, <2>3
<1>9. OnceEach'
  <2>1. ASSUME NEW k \in Block
        PROVE  NextIndex(k)' <= end(blks, k) /\ (future[k] = "value" => NextIndex(k)' = end(blks, k))
    <3>1. future[k] = "value" => NextIndex(k) = end(blks, k)
      BY DEF Before, LoopInv, OnceEach
    <3> QED BY <1>1, <1>6, <1>7, <3>1
  <2>2. ASSUME NEW j \in Index
        PROVE  called'[j] = IF \E k \in Block : start(blks, k) <= j /\ j < NextIndex(k)' THEN 1 ELSE 0
    <3>1. called[j] = IF \E k \in Block : start(blks, k) <= j /\ j < NextIndex(k) THEN 1 ELSE 0
      BY DEF Before, LoopInv, OnceEach
    <3>2. j \in Int
      BY LoopAssumption
    <3>3. CASE j = i
      <4>1. ASSUME NEW k \in Block PROVE ~(start(blks, k) <= j /\ j < NextIndex(k))
        BY <1>6, <1>8, <3>2, <3>3
      <4>2. start(blks, b) <= j /\ j < NextIndex(b)'
        BY <1>6, <1>7, <3>3
      <4>3. called[j] = 0 /\ called'[j] = 1
        BY <1>4, <3>1, <3>3, <4>1
      <4> QED BY <4>2, <4>3
    <3>4. CASE j # i
      <4>1. ASSUME NEW k \in Block PROVE j < NextIndex(k)' <=> j < NextIndex(k)
        BY <1>6, <1>7, <3>2, <3>4
      <4>2. called'[j] = called[j]
        BY <1>4, <3>4
      <4> QED BY <3>1, <4>1, <4>2
    <3> QED BY <3>3, <3>4
  <2> QED BY <1>1, <1>2, <2>1, <2>2 DEF OnceEach
<1>10. Accounted' /\ Awaited' /\ Shut'
  BY <1>1, <1>2, Zenon DEF Before, LoopInv, Accounted, Awaited, Shut, Closed, Taken, Runs
<1> QED BY <1>5, <1>9, <1>10 DEF LoopInv

(* A block returns or throws: its thread was the only one to run it, so    *)
(* the future changes once.                                                *)
LEMMA Ending ==
  ASSUME Before, NEW w \in Thread, NEW b \in Block, NEW how \in {"value", "exception"}, Ends(w, b, how),
         how = "value" => NextIndex(b) = end(call.blks, b), [Next]_vars
  PROVE  LoopInv'
<1>1. /\ worker[w].at = "task" /\ b = worker[w].task - 1
      /\ worker' = [worker EXCEPT ![w] = [at |-> "top"]] /\ future' = [future EXCEPT ![b] = how]
      /\ UNCHANGED <<tasks, caller, submitted, call, user, progress, called>>
  BY Zenon DEF Ends, Runs, TaskEnds
<1>2. /\ Block' = Block /\ Thread' = Thread /\ Taken' = Taken /\ Taken \in Int
      /\ \A k \in Block : NextIndex(k)' = NextIndex(k)
  BY <1>1 DEF Block, Thread, Taken, Before, TypeOK, NextIndex
<1>3. future \in [Block -> {"pending", "value", "exception"}]
  BY DEF Before, LoopInv, LoopShape
<1>4. /\ \A k \in Block : future'[k] = IF k = b THEN how ELSE future[k]
      /\ future' \in [Block -> {"pending", "value", "exception"}]
  BY <1>1, <1>3
<1>5. \A x \in Thread : worker'[x] = IF x = w THEN [at |-> "top"] ELSE worker[x]
  BY <1>1 DEF Before, TypeOK
<1>6. worker[w].task \in Int /\ worker[w].task = b + 1 /\ b \in Int
  BY <1>1 DEF Before, TypeOK
<1>7. future[b] = "pending"
  BY <1>1 DEF Before, LoopInv, Accounted, Runs
<1>8. LoopShape'
  BY <1>1, <1>2, <1>4 DEF Before, LoopInv, LoopShape, Indices
<1>9. OnceEach'
  <2>1. ASSUME NEW k \in Block, future'[k] = "value" PROVE NextIndex(k) = end(call.blks, k)
    BY <1>4, <2>1 DEF Before, LoopInv, OnceEach
  <2> QED BY <1>1, <1>2, <2>1 DEF Before, LoopInv, OnceEach
<1>10. Accounted'
  <2>1. \A x \in Thread : worker'[x].at = "task" => x # w /\ worker'[x] = worker[x]
    BY <1>5
  <2>2. ASSUME NEW k \in Block
        PROVE  future'[k] = "pending" <=> k >= Taken \/ \E x \in Thread : Runs(x, k)'
    <3>1. ASSUME NEW x \in Thread PROVE Runs(x, k)' <=> x # w /\ Runs(x, k)
      BY <1>5 DEF Runs
    <3>2. future[k] = "pending" <=> k >= Taken \/ \E x \in Thread : Runs(x, k)
      BY DEF Before, LoopInv, Accounted
    <3>3. CASE k = b
      <4>1. ~(k >= Taken)
        <5>1. worker[w].task <= Taken
          BY <1>1 DEF Before, LoopInv, Accounted
        <5> QED BY <1>2, <1>6, <3>3, <5>1
      <4>2. ASSUME NEW x \in Thread, Runs(x, k) PROVE x = w
        <5>1. worker[x].at = "task" /\ worker[x].task \in Int /\ worker[x].task = worker[w].task
          BY <1>6, <3>3, <4>2 DEF Runs, Before, TypeOK
        <5> QED BY <1>1, <5>1 DEF Before, LoopInv, Accounted
      <4>3. future'[k] # "pending"
        BY <1>4, <3>3
      <4> QED BY <3>1, <4>1, <4>2, <4>3
    <3>4. CASE k # b
      <4>1. ~Runs(w, k) /\ future'[k] = future[k]
        BY <1>1, <1>4, <3>4 DEF Runs
      <4> QED BY <3>1, <3>2, <4>1
    <3> QED BY <3>3, <3>4
  <2> QED BY <1>1, <1>2, <2>1, <2>2 DEF Before, LoopInv, Accounted
<1>11. Awaited'
  <2>1. \A k \in Block : future[k] # "pending" => future'[k] = future[k]
    BY <1>4, <1>7
  <2> QED BY <1>1, <1>2, <2>1 DEF Before, LoopInv, Awaited
<1>12. Shut'
  BY <1>1, ShutStep DEF Before, LoopInv
<1> QED BY <1>8, <1>9, <1>10, <1>11, <1>12 DEF LoopInv

(* A call begins: nothing has been called, submitted or taken before.      *)
LEMMA Begins ==
  ASSUME Before, NEW blks, NEW asked, NEW futures, Start(blks, asked, futures), LaidOut(blks),
         blks.first_index..(blks.index_after_last - 1) \subseteq Index
  PROVE  LoopInv'
<1> DEFINE B == 0..(blks.num_blocks - 1)
<1>1. /\ user.at = "idle" /\ user' = [user EXCEPT !.at = "submit"]
      /\ call' = [blks |-> blks, asked |-> asked, futures |-> futures]
      /\ future' = [b \in B |-> "pending"] /\ progress' = [b \in B |-> 0]
      /\ UNCHANGED <<pool, called>>
  BY Zenon DEF Start
<1>2. UNCHANGED <<vars, tasks, submitted, worker, caller>> /\ Thread' = Thread
  BY <1>1 DEF pool, vars, Thread
<1>3. call'.blks = blks /\ Block' = B /\ Indices' = blks.first_index..(blks.index_after_last - 1)
  BY <1>1, Zenon DEF Block, Indices
<1>4. /\ user \in [at : {"idle", "submit", "wait", "returned"}, how : {"none", "get", "wait", "pool"},
                   block : Nat, result : {"none", "true", "exception"}]
      /\ submitted = 0 /\ call.blks.num_blocks = 0 /\ user.block = 0 /\ user.how = "none"
  BY <1>1 DEF Before, LoopInv, LoopShape, Awaited
<1>5. /\ user' \in [at : {"submit"}, how : {"none"}, block : {0}, result : {"none", "true", "exception"}]
  BY <1>1, <1>4
<1>6. \A i \in Index : called[i] = 0
  <2>1. Block = {}
    BY <1>4, SMT DEF Block
  <2> QED BY <2>1 DEF Before, LoopInv, OnceEach
<1>7. LoopShape'
  <2>1. user' \in [at : {"idle", "submit", "wait", "returned"}, how : {"none", "get", "wait", "pool"},
                   block : Nat, result : {"none", "true", "exception"}]
    BY <1>5
  <2> QED BY <1>1, <1>3, <2>1 DEF Before, LoopInv, LoopShape
<1>8. OnceEach'
  <2>1. \A b \in B : start(blks, b) \in Int /\ end(blks, b) \in Int /\ start(blks, b) < end(blks, b)
    BY DEF LaidOut
  <2>2. \A b \in B : NextIndex(b)' = start(blks, b) /\ future'[b] # "value"
    <3> SUFFICES ASSUME NEW b \in B PROVE start(blks, b) + progress'[b] = start(blks, b) /\ future'[b] # "value"
      BY <1>3 DEF NextIndex
    <3>1. progress'[b] = 0 /\ future'[b] = "pending"
      BY <1>1
    <3> QED BY <2>1, <3>1
  <2>3. \A i \in Index : \A b \in B : ~(start(blks, b) <= i /\ i < NextIndex(b)')
    BY <2>1, <2>2, LoopAssumption
  <2> HIDE DEF B
  <2> QED BY <1>1, <1>3, <1>6, <2>1, <2>2, <2>3 DEF OnceEach
<1>9. Accounted'
  <2>1. Taken' = Taken /\ Taken \in Int /\ Taken <= 0
    BY <1>2, <1>4 DEF Taken, Before, TypeOK
  <2>2. \A x \in Thread : worker[x].at # "task"
    <3> SUFFICES ASSUME NEW x \in Thread, worker[x].at = "task" PROVE FALSE
      OBVIOUS
    <3>1. worker[x].task \in 1..MaxTask /\ worker[x].task <= Taken
      BY DEF Before, LoopInv, Accounted, TypeOK
    <3> QED BY <2>1, <3>1, PoolAssumption
  <2>3. \A b \in B : b >= Taken /\ future'[b] = "pending"
    BY <1>1, <2>1
  <2> QED BY <1>2, <1>3, <2>1, <2>2, <2>3 DEF Before, LoopInv, Accounted
<1>10. Awaited'
  <2>1. blks.num_blocks \in Nat
    BY DEF LaidOut
  <2> QED BY <1>2, <1>3, <1>4, <1>5, <2>1 DEF Awaited
<1>11. Shut'
  BY <1>2, <1>4, <1>5, ShutStep DEF Before, LoopInv
<1> QED BY <1>7, <1>8, <1>9, <1>10, <1>11 DEF LoopInv

LEMMA LoopInvStep ==
  ASSUME TypeOK, RunningExact, Made, LoopInv, [LoopNext]_allVars
  PROVE  LoopInv'
<1> USE LoopAssumption, PoolAssumption
<1>1. Before /\ [Next]_vars
  BY MadeInPlace, LoopPoolStep DEF Before
<1>2. ASSUME NEW first \in First, NEW after \in Index, NEW asked \in Nat \ {0}, NEW futures,
             Start(blocks(first, after, asked), asked, futures)
      PROVE  LoopInv'
  <2> PICK blks : blks = blocks(first, after, asked)
    OBVIOUS
  <2>1. first \in Int /\ after \in Int /\ first \in Index
    OBVIOUS
  <2>2. LaidOut(blks)
    BY <2>1, Layout, Zenon
  <2>3. blks.first_index = first /\ blks.index_after_last = after
    BY DEF blocks
  <2>4. first..(after - 1) \subseteq Index
    BY <2>1
  <2> QED BY <1>1, <1>2, <2>2, <2>3, <2>4, Begins
<1>3. ASSUME NEW first \in First, NEW after \in Index, NEW n \in 0..MaxBlocks, NEW futures,
             Loop(first, after, n, futures)
      PROVE  LoopInv'
  <2> DEFINE asked == IF n # 0 THEN n ELSE N
  <2>1. asked \in Nat \ {0}
    OBVIOUS
  <2>2. Start(blocks(first, after, asked), asked, futures)
    BY <1>3, Zenon DEF Loop
  <2> HIDE DEF asked
  <2> QED BY <1>2, <2>1, <2>2
<1>4. ASSUME NEW first \in First, NEW after \in Index, NEW futures, Sequence(first, after, futures)
      PROVE  LoopInv'
  <2> DEFINE asked == IF after > first THEN after - first ELSE 1
  <2>1. asked \in Nat \ {0}
    OBVIOUS
  <2>2. Start(blocks(first, after, asked), asked, futures)
    BY <1>4, Zenon DEF Sequence
  <2> HIDE DEF asked
  <2> QED BY <1>2, <2>1, <2>2
<1>5. ASSUME UserStep PROVE LoopInv'
  <2>1. ASSUME WaitNext \/ WaitEnds \/ PoolWaitEnds \/ \E how \in {"get", "wait"} : Await(how) PROVE Unmoved
    BY <2>1, Zenon DEF WaitNext, WaitEnds, PoolWaitEnds, Await
  <2>2. CASE WaitNext \/ WaitEnds \/ PoolWaitEnds \/ \E how \in {"get", "wait"} : Await(how)
    BY <1>1, <2>1, <2>2, UserWaits
  <2>3. CASE Submit
    BY <1>1, <2>3, Submits
  <2>4. CASE WaitForPool
    BY <1>1, <2>4, Destructs
  <2> QED BY <1>5, <2>2, <2>3, <2>4, Zenon DEF UserStep
<1>6. ASSUME NEW w \in Thread, TaskStep(w) PROVE LoopInv'
  <2>1. PICK b \in Block : CallIndex(w, b) \/ Finish(w, b) \/ Throw(w, b)
    BY <1>6, Zenon DEF TaskStep
  <2>2. CASE CallIndex(w, b)
    BY <1>1, <2>2, Calls
  <2>3. CASE Finish(w, b)
    BY <1>1, <2>3, Ending DEF Finish
  <2>4. CASE Throw(w, b)
    BY <1>1, <2>4, Ending DEF Throw
  <2> QED BY <2>1, <2>2, <2>3, <2>4
<1>7. ASSUME UNCHANGED loopVars,
             CallerStep \/ SpuriousWake \/ \E w \in Thread : WorkerTop(w) \/ WorkerWoken(w)
      PROVE  LoopInv'
  BY <1>1, <1>7, PoolMoves
<1>8. ASSUME UNCHANGED <<vars, loopVars>> PROVE LoopInv'
  <2>1. UNCHANGED <<call, user, progress, future, called, tasks, submitted, worker, caller>>
    BY <1>8 DEF vars, loopVars
  <2>2. SameRuns
    BY <2>1 DEF SameRuns
  <2>3. LoopShape' /\ OnceEach'
    BY <2>1, Zenon DEF LoopInv, LoopShape, OnceEach, Block, Indices, NextIndex
  <2>4. Awaited' /\ Shut'
    BY <2>1, Zenon DEF LoopInv, Awaited, Shut, Closed, Block, Thread
  <2> QED BY <2>1, <2>2, <2>3, <2>4, AccountedSame DEF LoopInv
<1>9. ASSUME UNCHANGED allVars PROVE UNCHANGED <<vars, loopVars>>
  BY <1>9 DEF allVars, pool
<1>10. ASSUME Finished PROVE UNCHANGED vars
  BY <1>10 DEF Finished
<1> QED BY <1>3, <1>4, <1>5, <1>6, <1>7, <1>8, <1>9, <1>10, Zenon
        DEF LoopNext, QueueStep, detach_blocks, submit_blocks, detach_sequence, submit_sequence

LEMMA LoopInvInit == LoopInit => LoopInv
<1> SUFFICES ASSUME LoopInit PROVE LoopInv
  OBVIOUS
<1>1. /\ Init /\ call = Nothing
      /\ user = [at |-> "idle", how |-> "none", block |-> 0, result |-> "none"]
      /\ progress = <<>> /\ future = <<>> /\ called = [i \in Index |-> 0]
  BY Zenon DEF LoopInit
<1>2. /\ call.blks.num_blocks = 0 /\ call.blks.first_index = 0 /\ call.blks.index_after_last = 0
  BY <1>1 DEF Nothing, blocks
<1>3. Block = {} /\ Indices = {}
  BY <1>2, SMT DEF Block, Indices
<1>4. LoopShape
  BY <1>1, <1>3 DEF LoopShape
<1>5. tasks = <<>> /\ submitted = 0 /\ caller.at = "free" /\ \A w \in Thread : worker[w].at = "top"
  BY <1>1 DEF Init
<1>6. OnceEach /\ Accounted
  BY <1>1, <1>3, <1>5 DEF OnceEach, Accounted
<1>7. Awaited /\ Shut
  BY <1>1, <1>2, <1>5 DEF Awaited, Shut, Closed
<1> QED BY <1>4, <1>6, <1>7 DEF LoopInv

(* The invariant of the loops, for any pool, range and number of blocks. *)
THEOREM LoopInvariant == LoopSpec => [](Made /\ LoopInv)
<1>1. LoopInit => Made
  BY MadeInit
<1>2. TypeOK /\ RunningExact /\ Made /\ LoopInv /\ [LoopNext]_allVars => Made' /\ LoopInv'
  BY MadeKept, LoopInvStep
<1> QED BY <1>1, <1>2, LoopInvInit, LoopsUsePool, PoolCounts, PTL DEF LoopSpec

(* No index is passed to the function twice, nor one outside the range:    *)
(* blocks do not overlap, and a block is one task, which one thread takes. *)
THEOREM CallsNeverTwice == LoopSpec => []NeverTwice
<1>1. ASSUME Made, LoopInv PROVE NeverTwice
  <2>1. InPlace
    BY <1>1, MadeInPlace
  <2> SUFFICES ASSUME NEW i \in Index PROVE called[i] <= IF i \in Indices THEN 1 ELSE 0
    BY DEF NeverTwice
  <2>2. called[i] = IF \E b \in Block : start(call.blks, b) <= i /\ i < NextIndex(b) THEN 1 ELSE 0
    BY <1>1 DEF LoopInv, OnceEach
  <2>3. ASSUME NEW b \in Block, start(call.blks, b) <= i, i < NextIndex(b) PROVE i \in Indices
    <3>1. /\ call.blks.first_index \in Int /\ call.blks.index_after_last \in Int
          /\ start(call.blks, b) \in Int /\ end(call.blks, b) \in Int
          /\ call.blks.first_index <= start(call.blks, b)
          /\ end(call.blks, b) <= call.blks.index_after_last
      BY <2>1 DEF InPlace, LaidOut, Block
    <3>2. NextIndex(b) <= end(call.blks, b) /\ NextIndex(b) \in Int /\ i \in Int
      BY <1>1, <3>1, LoopAssumption DEF LoopInv, LoopShape, OnceEach, NextIndex
    <3> QED BY <2>3, <3>1, <3>2 DEF Indices
  <2> QED BY <2>2, <2>3
<1> QED BY <1>1, LoopInvariant, PTL

(* When get(), wait() or ~thread_pool returns, the function has been       *)
(* called with every index, unless a call threw; and get() returns only    *)
(* when none did.                                                          *)
THEOREM WaitsToTheEnd == LoopSpec => []DoneIsDone
<1>1. ASSUME TypeOK, Made, LoopInv PROVE DoneIsDone
  <2> SUFFICES ASSUME \/ user.at = "returned" /\ user.result = "true"
                      \/ caller.at \in {"stop", "join", "done"}
               PROVE  /\ Threw \/ \A i \in Indices : called[i] = 1
                      /\ user.how = "get" => ~Threw
    BY DEF DoneIsDone
  <2>1. InPlace /\ call.blks.num_blocks \in Nat /\ \A b \in Block : b \in Nat /\ b < call.blks.num_blocks
    BY <1>1, MadeInPlace DEF InPlace, LaidOut, Block
  <2>2. Closed \/ (user.at = "returned" /\ user.result = "true" /\ user.how \in {"get", "wait"})
    BY <1>1 DEF LoopInv, LoopShape, Awaited, Shut, Closed
  <2>3. \A b \in Block : future[b] # "pending" /\ (user.how = "get" => future[b] = "value")
    <3>1. CASE Closed
      <4>1. user.how = "pool" /\ tasks = <<>> /\ \A w \in Thread : worker[w].at # "task"
        BY <1>1, <3>1 DEF LoopInv, Shut, Closed
      <4>2. submitted = call.blks.num_blocks
        BY <1>1, <4>1 DEF LoopInv, LoopShape, Awaited
      <4>3. Taken = call.blks.num_blocks
        BY <1>1, <2>1, <4>1, <4>2 DEF Taken
      <4>4. \A b \in Block : ~(b >= Taken) /\ ~\E w \in Thread : Runs(w, b)
        BY <2>1, <4>1, <4>3 DEF Runs
      <4> QED BY <1>1, <4>1, <4>4 DEF LoopInv, Accounted
    <3>2. CASE user.at = "returned" /\ user.result = "true" /\ user.how \in {"get", "wait"}
      BY <1>1, <2>1, <3>2 DEF LoopInv, Awaited
    <3> QED BY <2>2, <3>1, <3>2
  <2>4. user.how = "get" => ~Threw
    BY <2>3 DEF Threw
  <2>5. ASSUME ~Threw, NEW i \in Indices PROVE called[i] = 1
    <3>1. PICK b \in Block : start(call.blks, b) <= i /\ i < end(call.blks, b)
      BY <2>1 DEF InPlace, LaidOut, Block, Indices
    <3>2. future[b] = "value"
      BY <1>1, <2>3, <2>5 DEF Threw, LoopInv, LoopShape
    <3>3. NextIndex(b) = end(call.blks, b) /\ i \in Index
      BY <1>1, <3>2 DEF LoopInv, LoopShape, OnceEach
    <3> QED BY <1>1, <3>1, <3>3 DEF LoopInv, OnceEach
  <2> QED BY <2>4, <2>5
<1> QED BY <1>1, LoopInvariant, LoopsUsePool, PoolCounts, PTL
=============================================================================
