---------------------------- MODULE ParallelLoop ----------------------------
(***************************************************************************)
(* The parallel loops of BS::thread_pool on top of the pool itself: a      *)
(* range of indices is divided by BS::blocks, every block becomes a task,  *)
(* and the caller waits for the futures in a BS::multi_future or, when     *)
(* there are none, in ~thread_pool.  Task k of the pool is block k - 1.    *)
(***************************************************************************)
EXTENDS ThreadPool, Integers

CONSTANTS
  Index,      \* indices that are used for ranges
  First,      \* those that ranges begin with
  MaxBlocks   \* bound: the number of blocks asked for

(* Index is an interval: what lies between two of its members is in it. *)
ASSUME LoopAssumption ==
  /\ First \subseteq Index /\ Index \subseteq Int /\ MaxBlocks \in Nat
  /\ \A i, j \in Index : i..j \subseteq Index

VARIABLES
  call,      \* the call under way: its division, and whether it has futures
  user,      \* where its caller is, and at which block or future
  progress,  \* of each block: how many of its indices are done
  future,    \* of each block: "pending", "value" or "exception"
  called     \* how often the function was called with an index

pool == vars
loopVars == <<call, user, progress, future, called>>
allVars == <<pool, loopVars>>

----------------------------------------------------------------------------
(* BS::blocks; its callers ask for at least one block. *)
blocks(first_index, index_after_last, num_blocks) ==
  LET total_size == index_after_last - first_index
      num == IF num_blocks < total_size THEN num_blocks ELSE total_size
  IN IF index_after_last > first_index
     THEN [first_index |-> first_index, index_after_last |-> index_after_last,
           num_blocks |-> num, block_size |-> total_size \div num,
           remainder |-> total_size % num]
     ELSE [first_index |-> first_index, index_after_last |-> index_after_last,
           num_blocks |-> 0, block_size |-> 0, remainder |-> 0]

start(b, block) ==
  b.first_index + block * b.block_size + (IF block < b.remainder THEN block ELSE b.remainder)

\* Slip: the last block has the length of the others
ShortEnd(b, block) == start(b, block) + b.block_size

end(b, block) ==
  IF block = b.num_blocks - 1 THEN b.index_after_last ELSE start(b, block + 1)

----------------------------------------------------------------------------
Nothing == [blks |-> blocks(0, 0, 1), asked |-> 1, futures |-> FALSE]
Block == 0..(call.blks.num_blocks - 1)

LoopInit ==
  /\ Init /\ call = Nothing
  /\ user = [at |-> "idle", how |-> "none", block |-> 0, result |-> "none"]
  /\ progress = <<>> /\ future = <<>> /\ called = [i \in Index |-> 0]

Start(blks, asked, futures) ==
  /\ user.at = "idle" /\ user' = [user EXCEPT !.at = "submit"]
  /\ call' = [blks |-> blks, asked |-> asked, futures |-> futures]
  /\ future' = [b \in 0..(blks.num_blocks - 1) |-> "pending"]
  /\ progress' = [b \in 0..(blks.num_blocks - 1) |-> 0]
  /\ UNCHANGED <<pool, called>>

(* By default, as many blocks as the pool has threads. *)
Loop(first, after, num_blocks, futures) ==
  LET asked == IF num_blocks # 0 THEN num_blocks ELSE N
  IN Start(blocks(first, after, asked), asked, futures)

(* A sequence has a task for every index. *)
Sequence(first, after, futures) ==
  LET asked == IF after > first THEN after - first ELSE 1
  IN Start(blocks(first, after, asked), asked, futures)

(* For the function, detach_loop is detach_blocks and submit_loop is       *)
(* submit_blocks with a loop over the block around it.                     *)
detach_blocks(first, after, num_blocks) == Loop(first, after, num_blocks, FALSE)
submit_blocks(first, after, num_blocks) == Loop(first, after, num_blocks, TRUE)
detach_sequence(first, after) == Sequence(first, after, FALSE)
submit_sequence(first, after) == Sequence(first, after, TRUE)

(* One turn of the loop over the blocks: submit_task, or detach_task. *)
Submit ==
  /\ user.at = "submit" /\ user.block \in Block /\ Detach
  /\ user' = [user EXCEPT !.block = @ + 1]
  /\ UNCHANGED <<call, progress, future, called>>

----------------------------------------------------------------------------
(* The tasks, as the threads of the pool run them. *)

Runs(w, b) == worker[w].at = "task" /\ b = worker[w].task - 1
NextIndex(b) == start(call.blks, b) + progress[b]

\* Slip: the loop runs up to and including the end of the block
CallIndexInclusive(w, b) ==
  /\ Runs(w, b) /\ NextIndex(b) <= end(call.blks, b)
  /\ called' = [called EXCEPT ![NextIndex(b)] = @ + 1]
  /\ progress' = [progress EXCEPT ![b] = @ + 1]
  /\ UNCHANGED <<pool, call, user, future>>

(* The function is called with the next index of the block. *)
CallIndex(w, b) ==
  /\ Runs(w, b) /\ NextIndex(b) < end(call.blks, b)
  /\ called' = [called EXCEPT ![NextIndex(b)] = @ + 1]
  /\ progress' = [progress EXCEPT ![b] = @ + 1]
  /\ UNCHANGED <<pool, call, user, future>>

(* submit_task's wrapper sets the promise either way. *)
Ends(w, b, how) ==
  /\ Runs(w, b) /\ TaskEnds(w) /\ future' = [future EXCEPT ![b] = how]
  /\ UNCHANGED <<call, user, progress, called>>

Finish(w, b) == NextIndex(b) = end(call.blks, b) /\ Ends(w, b, "value")
Throw(w, b) == Ends(w, b, "exception")

----------------------------------------------------------------------------
(* The caller: multi_future::get and wait, or ~thread_pool. *)

InWait(hows) == user.at = "wait" /\ user.how \in hows
Returns(result) == user' = [user EXCEPT !.at = "returned", !.result = result]
Further == user' = [user EXCEPT !.block = @ + 1]
Unmoved == UNCHANGED <<pool, call, progress, future, called>>

Submitted == user.at = "submit" /\ user.block \notin Block /\ caller.at = "free"

Await(how) ==
  /\ Submitted /\ call.futures
  /\ user' = [user EXCEPT !.at = "wait", !.how = how, !.block = 0] /\ Unmoved

\* Slip: the futures are not waited for
WaitNextHasty ==
  /\ InWait({"get", "wait"}) /\ user.block \in Block
  /\ IF user.how = "get" /\ future[user.block] = "exception"
     THEN Returns("exception") ELSE Further
  /\ Unmoved

\* Slip: only a value ends the wait
WaitNextDeaf ==
  /\ InWait({"get", "wait"}) /\ user.block \in Block
  /\ future[user.block] = "value" /\ Further
  /\ Unmoved

(* The futures are waited for in order; get() rethrows. *)
WaitNext ==
  /\ InWait({"get", "wait"}) /\ user.block \in Block
  /\ future[user.block] # "pending"
  /\ IF user.how = "get" /\ future[user.block] = "exception"
     THEN Returns("exception") ELSE Further
  /\ Unmoved

WaitEnds ==
  /\ InWait({"get", "wait"}) /\ user.block \notin Block
  /\ Returns("true") /\ Unmoved

(* ~thread_pool, after a detached loop or once the futures are dealt with. *)
WaitForPool ==
  /\ Submitted \/ (user.at = "returned" /\ user.how # "pool")
  /\ Destruct /\ user' = [user EXCEPT !.at = "wait", !.how = "pool"]
  /\ UNCHANGED <<call, progress, future, called>>

PoolWaitEnds == InWait({"pool"}) /\ caller.at = "done" /\ Returns("true") /\ Unmoved

----------------------------------------------------------------------------
UserStep ==
  \/ Submit \/ WaitNext \/ WaitEnds \/ WaitForPool \/ PoolWaitEnds
  \/ \E how \in {"get", "wait"} : Await(how)
TaskStep(w) ==
  \E b \in Block : CallIndex(w, b) \/ Finish(w, b) \/ Throw(w, b)
QueueStep(w) == (WorkerTop(w) \/ WorkerWoken(w)) /\ UNCHANGED loopVars

LoopNext ==
  \/ \E first \in First, after \in Index :
       \/ \E n \in 0..MaxBlocks : detach_blocks(first, after, n) \/ submit_blocks(first, after, n)
       \/ detach_sequence(first, after) \/ submit_sequence(first, after)
  \/ UserStep
  \/ \E w \in Thread : TaskStep(w) \/ QueueStep(w)
  \/ (CallerStep \/ SpuriousWake) /\ UNCHANGED loopVars
  \/ Finished /\ UNCHANGED loopVars

LoopSpec == LoopInit /\ [][LoopNext]_allVars

(* Threads run, and functions return or throw. *)
FairLoopSpec ==
  /\ LoopSpec /\ WF_allVars(UserStep)
  /\ WF_allVars(CallerStep /\ UNCHANGED loopVars)
  /\ \A w \in Thread : WF_allVars(TaskStep(w)) /\ WF_allVars(QueueStep(w))

----------------------------------------------------------------------------
Divides(b, asked) ==
  /\ b.num_blocks <= asked
  /\ b.num_blocks > 0 => start(b, 0) = b.first_index
  /\ \A k \in 0..(b.num_blocks - 1) :
       /\ end(b, k) - start(b, k) \in {b.block_size, b.block_size + 1}
       /\ end(b, k) > start(b, k)
       /\ end(b, k) = IF k + 1 < b.num_blocks THEN start(b, k + 1) ELSE b.index_after_last

(* The range is divided into at most as many blocks as were asked for ("the *)
(* maximum number of blocks"), which follow each other from its first to   *)
(* its last index; none is empty and their lengths differ by at most one.  *)
Divided == Divides(call.blks, call.asked)

Indices == call.blks.first_index..(call.blks.index_after_last - 1)

(* No index is ever passed to the function twice, nor one that is not in   *)
(* the range, no matter how the threads share the blocks.                  *)
NeverTwice == \A i \in Index : called[i] <= IF i \in Indices THEN 1 ELSE 0

Threw == \E k \in Block : future[k] = "exception"

(* When get() or wait() returns, or ~thread_pool has waited, the function  *)
(* has been called with every index of the range, unless a call has        *)
(* thrown; and get() hands every exception on.                             *)
DoneIsDone ==
  LET done == \/ user.at = "returned" /\ user.result = "true"
              \/ caller.at \in {"stop", "join", "done"}
  IN done => /\ Threw \/ \A i \in Indices : called[i] = 1
             /\ user.how = "get" => ~Threw

(* Every call returns, also when the function throws in every block. *)
CallReturns == (user.at = "submit") ~> (user.at = "returned")
=============================================================================
