------------------------------ MODULE Lifecycle ------------------------------
(***************************************************************************)
(* The life of the process: the globals of server.cpp, main(),             *)
(* start_wisp_server(), SIGINT, app.close() and the destructors that run   *)
(* at exit, on the main thread, next to the watcher and the pool.  Streams *)
(* and their write tasks are kept only as far as they hold up the end.     *)
(***************************************************************************)
EXTENDS Integers, FiniteSetsExt

CONSTANTS
  Concurrency,  \* what std::thread::hardware_concurrency() may say
  U32,          \* unsigned int counts modulo this
  MaxThreads,   \* the system cannot start more threads than this
  Stream,       \* streams, each of a client of its own, each opened at most once
  MaxTasks,     \* bound: write tasks per stream at a time
  PIPE_SIZE     \* wakes that fit into the self-pipe (65536 bytes are 32768 wakes)

ASSUME LifecycleAssumption ==
  /\ Concurrency \subseteq 0..MaxThreads /\ MaxThreads + 2 < U32
  /\ PIPE_SIZE \in Nat \ {0} /\ MaxTasks \in Nat

VARIABLES
  hardware,        \* hardware_concurrency() of this machine
  conf,            \* what the command line and the config file come to
  main,            \* where the main thread is
  pool,            \* threads of the pool, 0 before it is there
  handler,         \* int_handler is installed
  interupted,      \* set by int_handler
  deconstructing,  \* set by ~SystemWatcher
  watcher,         \* where the watcher is, and the events it holds
  pipe,            \* wakes in the self-pipe
  streams,         \* life of each stream
  connecting,      \* the stream in connect(), or none
  queued,          \* write tasks of each stream in the queue of the pool
  polling,         \* those in poll(), which hold stream_lock shared
  hung             \* threads of the pool that will never return from a task

machine == <<hardware, conf>>
process == <<main, handler, interupted>>
threads == <<pool, deconstructing, watcher, pipe>>
work == <<streams, connecting, queued, polling, hung>>
vars == <<machine, process, threads, work>>

Pipe == "pipe"
None == "none"
Open == {s \in Stream : streams[s] = "open"}
Ended == main \in {"exited", "terminated", "killed", "crashed"}
Serving == main = "run" /\ connecting = None

----------------------------------------------------------------------------
(* Start: the globals of server.cpp, in order of definition. *)

Init ==
  /\ hardware \in Concurrency
  /\ conf \in {"cli port", "file with port", "file without port", "bad file"}
  /\ main = "static" /\ handler = FALSE /\ interupted = FALSE
  /\ pool = 0 /\ deconstructing = FALSE /\ pipe = 0
  /\ watcher = [at |-> "none", events |-> {}]
  /\ streams = [s \in Stream |-> "new"] /\ connecting = None
  /\ queued = [s \in Stream |-> 0] /\ polling = queued /\ hung = 0

(* SystemWatcher::SystemWatcher starts the thread. *)
StartWatcher ==
  /\ main = "static" /\ main' = "pool"
  /\ watcher' = [watcher EXCEPT !.at = "check"]
  /\ UNCHANGED <<machine, handler, interupted, pool, deconstructing, pipe, work>>

(* hardware_concurrency() - 2 is computed in unsigned int. *)
THREAD_COUNT == (hardware - 2) % U32

(* thread_pool::determine_thread_count *)
determine_thread_count(n) ==
  CASE n > 0 -> n [] n = 0 /\ hardware > 0 -> hardware [] OTHER -> 1

(* The pool starts all its threads; when it cannot, its constructor throws *)
(* during static initialisation, where nobody can catch it.                *)
StartPool ==
  /\ main = "pool"
  /\ LET n == determine_thread_count(THREAD_COUNT)
     IN IF n <= MaxThreads THEN pool' = n /\ main' = "main"
                           ELSE main' = "terminated" /\ UNCHANGED pool
  /\ UNCHANGED <<machine, handler, interupted, deconstructing, watcher, pipe, work>>

----------------------------------------------------------------------------
(* main() and start_wisp_server(): on a machine that is too small, with a *)
(* file that cannot be read or has no <port>, nothing is served.           *)

(* exit() and a return from main() both run the destructors of the globals. *)
Leave == main' = "destruct" /\ UNCHANGED handler

\* Slip: only machines without any thread to spare are refused
MainLenient ==
  /\ main = "main"
  /\ IF hardware < 2 \/ conf \in {"bad file", "file without port"} THEN Leave
     ELSE main' = "listen" /\ handler' = TRUE
  /\ UNCHANGED <<machine, interupted, threads, work>>

Main ==
  /\ main = "main"
  /\ IF hardware < 3 \/ conf \in {"bad file", "file without port"} THEN Leave
     ELSE main' = "listen" /\ handler' = TRUE
  /\ UNCHANGED <<machine, interupted, threads, work>>

(* app.listen().run(): without a listen socket the loop has nothing to     *)
(* wait for and returns at once.                                           *)
Listen ==
  /\ main = "listen"
  /\ \/ main' = "run" /\ UNCHANGED handler
     \/ Leave
  /\ UNCHANGED <<machine, interupted, threads, work>>

(* SIGINT: int_handler() once it is installed, the default before. *)
Signal ==
  /\ ~Ended
  /\ IF handler THEN interupted' = TRUE /\ UNCHANGED main
                ELSE main' = "killed" /\ UNCHANGED interupted
  /\ UNCHANGED <<machine, handler, threads, work>>

----------------------------------------------------------------------------
(* The loop thread while the server runs. *)

Connect(s) ==
  /\ Serving /\ streams[s] = "new" /\ connecting' = s
  /\ UNCHANGED <<machine, process, threads, streams, queued, polling, hung>>

(* connect() returns, the entry is made, and wake() is called. *)
Connected ==
  /\ main = "run" /\ connecting # None /\ pipe < PIPE_SIZE
  /\ streams' = [streams EXCEPT ![connecting] = "open"]
  /\ connecting' = None /\ pipe' = pipe + 1
  /\ UNCHANGED <<machine, process, pool, deconstructing, watcher, queued, polling, hung>>

Submit(s) ==
  /\ Serving /\ s \in Open /\ queued[s] + polling[s] < MaxTasks
  /\ queued' = [queued EXCEPT ![s] = @ + 1]
  /\ UNCHANGED <<machine, process, threads, streams, connecting, polling, hung>>

(* force_close() and close_stream(), when the websocket of s closes: the   *)
(* unique lock is to be had when no task of s is in poll().                *)
force_close(s) ==
  /\ s \in Open /\ polling[s] = 0
  /\ streams' = [streams EXCEPT ![s] = "closed"]
  /\ UNCHANGED <<machine, process, threads, connecting, queued, polling, hung>>

ClientLeaves(s) == Serving /\ force_close(s)

(* The post handler of the loop: app.close() closes every websocket. *)
PostHandler ==
  /\ Serving /\ interupted /\ main' = "app.close"
  /\ UNCHANGED <<machine, handler, interupted, threads, work>>

AppClose == main = "app.close" /\ \E s \in Stream : force_close(s)

AppClosed ==
  /\ main = "app.close" /\ Open = {}
  /\ main' = "destruct" /\ interupted' = FALSE
  /\ UNCHANGED <<machine, handler, threads, work>>

----------------------------------------------------------------------------
(* The destructors of the globals, last constructed first. *)

\* Slip: the pool does not wait for its tasks
DestructPoolAtOnce ==
  /\ main = "destruct" /\ main' = "deconstructing"
  /\ UNCHANGED <<machine, handler, interupted, threads, work>>

(* ~thread_pool waits until no task is queued or running. *)
DestructPool ==
  /\ main = "destruct" /\ hung = 0 /\ \A s \in Stream : queued[s] = 0 /\ polling[s] = 0
  /\ main' = "deconstructing"
  /\ UNCHANGED <<machine, handler, interupted, threads, work>>

\* Slip: wake() before the flag is set
DestructWatcherSwapped ==
  /\ \/ main = "deconstructing" /\ main' = "wake"
        /\ pipe < PIPE_SIZE /\ pipe' = pipe + 1 /\ UNCHANGED deconstructing
     \/ main = "wake" /\ main' = "join"
        /\ deconstructing' = TRUE /\ UNCHANGED pipe
  /\ UNCHANGED <<machine, handler, interupted, pool, watcher, work>>

(* ~SystemWatcher: the flag, then wake(). *)
DestructWatcher ==
  /\ \/ main = "deconstructing" /\ main' = "wake"
        /\ deconstructing' = TRUE /\ UNCHANGED pipe
     \/ main = "wake" /\ main' = "join"
        /\ pipe < PIPE_SIZE /\ pipe' = pipe + 1 /\ UNCHANGED deconstructing
  /\ UNCHANGED <<machine, handler, interupted, pool, watcher, work>>

(* watcher.join(), after which the epoll set and the pipe are closed. *)
Join ==
  /\ main = "join" /\ watcher.at = "ended" /\ main' = "exited"
  /\ UNCHANGED <<machine, handler, interupted, threads, work>>

----------------------------------------------------------------------------
(* SystemWatcher::watch() *)

Watch(w) == ~Ended /\ watcher' = w
            /\ UNCHANGED <<machine, process, pool, deconstructing, work>>

WatchCheck ==
  /\ watcher.at = "check" /\ UNCHANGED pipe
  /\ Watch([watcher EXCEPT !.at = IF deconstructing THEN "ended" ELSE "wait"])

\* Slip: the read end of the pipe is not in the epoll set
WatchWaitBlind ==
  /\ watcher.at = "wait" /\ UNCHANGED pipe
  /\ \E ready \in SUBSET Open : ready # {} /\ Watch([at |-> "events", events |-> ready])

(* epoll_wait() returns what is ready: the pipe, and the streams whose     *)
(* target has sent something or ended.                                     *)
WatchWait ==
  /\ watcher.at = "wait" /\ UNCHANGED pipe
  /\ \E ready \in SUBSET Open :
       LET e == IF pipe > 0 THEN ready \cup {Pipe} ELSE ready
       IN e # {} /\ Watch([at |-> "events", events |-> e])

(* Ten bytes are five wakes. *)
WatchPipe ==
  /\ watcher.at = "events" /\ Pipe \in watcher.events
  /\ pipe' = Max({0, pipe - 5})
  /\ Watch([watcher EXCEPT !.events = @ \ {Pipe}])

(* read() of a stream's number returns, except when the stream was closed  *)
(* and its number now belongs to a socket in connect(), still blocking.    *)
WatchRead(s) ==
  /\ watcher.at = "events" /\ s \in watcher.events /\ UNCHANGED pipe
  /\ \/ Watch([watcher EXCEPT !.events = @ \ {s}])
     \/ /\ streams[s] = "closed" /\ connecting # None
        /\ Watch([at |-> "stuck", events |-> watcher.events \ {s}])

(* Only data from that other target, or its end, lets the watcher go on. *)
WatchUnstuck ==
  /\ watcher.at = "stuck" /\ UNCHANGED pipe
  /\ Watch([watcher EXCEPT !.at = "events"])

WatchAgain ==
  /\ watcher.at = "events" /\ watcher.events = {} /\ UNCHANGED pipe
  /\ Watch([watcher EXCEPT !.at = "check"])

----------------------------------------------------------------------------
(* The pool. *)

Busy == hung + MapThenSumSet(LAMBDA s : polling[s], Stream)

(* A task of a closed stream looks at the place where its manager was:     *)
(* freed memory, in which it dies or never gets the lock, or a newer       *)
(* manager with that stream id.                                            *)
TaskStart(s) ==
  /\ ~Ended /\ queued[s] > 0 /\ Busy < pool
  /\ queued' = [queued EXCEPT ![s] = @ - 1]
  /\ \/ s \notin Open /\ main' = "crashed" /\ UNCHANGED <<polling, hung>>
     \/ s \notin Open /\ hung' = hung + 1 /\ UNCHANGED <<main, polling>>
     \/ \E r \in Open : /\ s \in Open => r = s
                        /\ polling' = [polling EXCEPT ![r] = @ + 1]
                        /\ UNCHANGED <<main, hung>>
  /\ UNCHANGED <<machine, handler, interupted, threads, streams, connecting>>

(* The target reads, poll() returns and write() takes the payload. *)
TaskEnd(s) ==
  /\ ~Ended /\ polling[s] > 0
  /\ polling' = [polling EXCEPT ![s] = @ - 1]
  /\ UNCHANGED <<machine, process, threads, streams, connecting, queued, hung>>

----------------------------------------------------------------------------
MainStep ==
  \/ StartWatcher \/ StartPool \/ Main \/ Listen \/ Connected \/ PostHandler
  \/ AppClose \/ AppClosed \/ DestructPool \/ DestructWatcher \/ Join
WatcherStep ==
  WatchCheck \/ WatchWait \/ WatchPipe \/ WatchAgain \/ \E s \in Stream : WatchRead(s)

Next ==
  \/ MainStep \/ WatcherStep \/ WatchUnstuck \/ Signal
  \/ \E s \in Stream : \/ Connect(s) \/ Submit(s) \/ ClientLeaves(s)
                       \/ TaskStart(s) \/ TaskEnd(s)

Spec == Init /\ [][Next]_vars

(* The threads get on when they can; connect() returns, if only with the   *)
(* kernel's timeout; targets read what they are sent.                      *)
FairSpec == /\ Spec /\ WF_vars(MainStep) /\ WF_vars(WatcherStep)
            /\ \A s \in Stream : WF_vars(TaskStart(s)) /\ WF_vars(TaskEnd(s))

(* In addition, a target whose socket the watcher waits for sends or ends. *)
CooperativeSpec == FairSpec /\ WF_vars(WatchUnstuck)

----------------------------------------------------------------------------
(* Once ~thread_pool has returned no task is left, queued, running or      *)
(* hung; the watcher is told to end when no stream is open any more; and   *)
(* it has ended before its epoll set and its pipe are closed.              *)
TornDownInOrder ==
  /\ main \in {"deconstructing", "wake", "join", "exited"} =>
       hung = 0 /\ \A s \in Stream : queued[s] = 0 /\ polling[s] = 0
  /\ deconstructing => Open = {} /\ connecting = None
  /\ main = "exited" => watcher.at = "ended"

(* The two ways in which the end of the process is held up for ever:       *)
(* ~thread_pool waits for a task that hangs in the lock of a deleted       *)
(* manager, or the watcher saw the flag and ended without reading a pipe   *)
(* that is full, so that wake() blocks.                                    *)
Held ==
  \/ main = "destruct" /\ hung > 0
  \/ main = "wake" /\ pipe = PIPE_SIZE /\ watcher.at = "ended"

(* If the targets read what they are sent and answer a blocked read(), ^C  *)
(* ends the server whatever the loop, the watcher and the pool are doing,  *)
(* unless the end is held up in one of these two ways.                     *)
InterruptEnds == (main = "run" /\ interupted) ~> (Ended \/ Held)

(* So does every other way out of main(): with the same two exceptions the *)
(* destructors of the globals return, although the watcher may not even    *)
(* have begun to watch.                                                    *)
ExitEnds == (main = "destruct") ~> (main \in {"exited", "crashed", "killed"} \/ Held)

(* "Program requires at least 3 threads": on a smaller machine the process *)
(* ends by itself, in main() or, where THREAD_COUNT has wrapped, already   *)
(* in the constructor of the pool.                                         *)
RefusesSmall == (hardware < 3) ~> Ended
=============================================================================
