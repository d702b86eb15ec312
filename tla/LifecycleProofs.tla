-------------------------- MODULE LifecycleProofs --------------------------
(***************************************************************************)
(* The process is torn down in order, for any streams, threads, tasks and  *)
(* size of the pipe.                                                       *)
(***************************************************************************)
EXTENDS Lifecycle, TLAPS

NoTasks == hung = 0 /\ \A s \in Stream : queued[s] = 0 /\ polling[s] = 0

(* What main has seen to at each point of its way. *)
Phases ==
  /\ main \in {"deconstructing", "wake", "join", "exited"} => NoTasks
  /\ connecting # None => main \in {"run", "crashed", "killed"}
  /\ Open # {} => main \in {"run", "app.close", "crashed", "killed"}
  /\ deconstructing => /\ main \in {"wake", "join", "exited", "crashed", "killed"}
                       /\ Open = {} /\ connecting = None
  /\ main = "exited" => watcher.at = "ended"

LEMMA PhasesInit == Init => Phases
  BY DEF Init, Phases, Open, NoTasks, None

(* Steps that leave streams and tasks alone. *)
LEMMA WorkKept == UNCHANGED work => NoTasks' = NoTasks /\ Open' = Open /\ connecting' = connecting
  BY DEF work, NoTasks, Open

(* A step of main is safe when it goes from one of its points to a later   *)
(* one that asks for no more, or asks for what is the case.                *)
LEMMA MainMoves ==
  ASSUME Phases, UNCHANGED work,
         main' = "exited" => watcher'.at = "ended",
         main' \in {"deconstructing", "wake", "join", "exited"} => NoTasks,
         main' \notin {"run", "crashed", "killed"} => connecting = None,
         main' \notin {"run", "app.close", "crashed", "killed"} => Open = {},
         deconstructing' => main' \in {"wake", "join", "exited", "crashed", "killed"}
                            /\ Open = {} /\ connecting = None
  PROVE  Phases'
  BY WorkKept, Zenon DEF Phases

(* The steps of main before and after it serves, and SIGINT. *)
LEMMA MainKeeps ==
  ASSUME Phases,
         StartWatcher \/ StartPool \/ Main \/ Listen \/ Signal \/ PostHandler \/ AppClosed
           \/ DestructPool \/ DestructWatcher \/ Join
  PROVE  Phases'
<1> USE DEF threads, process, machine
<1>1. CASE StartWatcher
  <2>1. main = "static" /\ main' = "pool" /\ UNCHANGED <<work, deconstructing>>
    BY <1>1, Zenon DEF StartWatcher
  <2> QED BY <2>1, MainMoves DEF Phases
<1>2. CASE StartPool
  <2>1. main = "pool" /\ main' \in {"main", "terminated"} /\ UNCHANGED <<work, deconstructing>>
    BY <1>2, Zenon DEF StartPool
  <2> QED BY <2>1, MainMoves DEF Phases
<1>3. CASE Main
  <2>1. main = "main" /\ main' \in {"destruct", "listen"} /\ UNCHANGED <<work, deconstructing>>
    BY <1>3, Zenon DEF Main, Leave
  <2> QED BY <2>1, MainMoves DEF Phases
<1>4. CASE Listen
  <2>1. main = "listen" /\ main' \in {"destruct", "run"} /\ UNCHANGED <<work, deconstructing>>
    BY <1>4, Zenon DEF Listen, Leave
  <2> QED BY <2>1, MainMoves DEF Phases
<1>5. CASE Signal
  <2>1. (main' = main \/ main' = "killed") /\ UNCHANGED <<work, deconstructing, watcher>>
    BY <1>5, Zenon DEF Signal
  <2> QED BY <2>1, MainMoves DEF Phases
<1>6. CASE PostHandler
  <2>1. main = "run" /\ connecting = None /\ main' = "app.close" /\ UNCHANGED <<work, deconstructing>>
    BY <1>6, Zenon DEF PostHandler, Serving
  <2> QED BY <2>1, MainMoves DEF Phases
<1>7. CASE AppClosed
  <2>1. main = "app.close" /\ Open = {} /\ main' = "destruct" /\ UNCHANGED <<work, deconstructing>>
    BY <1>7, Zenon DEF AppClosed
  <2> QED BY <2>1, MainMoves DEF Phases
<1>8. CASE DestructPool
  <2>1. main = "destruct" /\ NoTasks /\ main' = "deconstructing" /\ UNCHANGED <<work, deconstructing>>
    BY <1>8, Zenon DEF DestructPool, NoTasks
  <2> QED BY <2>1, MainMoves DEF Phases
<1>9. CASE DestructWatcher
  <2>1. /\ UNCHANGED work
        /\ \/ main = "deconstructing" /\ main' = "wake"
           \/ main = "wake" /\ main' = "join"
    BY <1>9, Zenon DEF DestructWatcher
  <2> QED BY <2>1, MainMoves DEF Phases
<1>10. CASE Join
  <2>1. /\ main = "join" /\ main' = "exited" /\ watcher.at = "ended"
        /\ UNCHANGED <<work, deconstructing, watcher>>
    BY <1>10, Zenon DEF Join
  <2> QED BY <2>1, MainMoves DEF Phases
<1> QED BY <1>1, <1>2, <1>3, <1>4, <1>5, <1>6, <1>7, <1>8, <1>9, <1>10

(* The watcher changes nothing but itself and the pipe, and only as long   *)
(* as the process runs.                                                    *)
LEMMA WatcherKeeps ==
  ASSUME Phases, WatcherStep \/ WatchUnstuck
  PROVE  Phases'
<1>1. ~Ended /\ UNCHANGED <<machine, process, pool, deconstructing, work>>
  BY Zenon DEF WatcherStep, WatchUnstuck, WatchCheck, WatchWait, WatchPipe, WatchAgain,
     WatchRead, Watch
<1>2. main # "exited" /\ main' = main /\ UNCHANGED <<deconstructing, work>>
  BY <1>1 DEF Ended, process
<1> QED BY <1>2, MainMoves DEF Phases

(* Streams are connected, written to and closed while main serves or       *)
(* closes the app.                                                         *)
LEMMA ServingKeeps ==
  ASSUME Phases,
         Connected \/ AppClose
           \/ \E s \in Stream : Connect(s) \/ Submit(s) \/ ClientLeaves(s)
  PROVE  Phases'
<1> USE DEF threads, process, machine
<1>1. CASE main = "run" /\ main' = "run" /\ UNCHANGED deconstructing
  BY <1>1 DEF Phases
<1>2. CASE Connected \/ \E s \in Stream : Connect(s) \/ Submit(s) \/ ClientLeaves(s)
  BY <1>1, <1>2, Zenon DEF Connected, Connect, Submit, ClientLeaves, Serving, force_close
<1>3. CASE AppClose
  <2>1. main = "app.close" /\ main' = main /\ UNCHANGED <<deconstructing, connecting>>
    BY <1>3, Zenon DEF AppClose, force_close
  <2> QED BY <2>1 DEF Phases
<1> QED BY <1>2, <1>3

(* A task starts or ends only while there are tasks: not after ~thread_pool. *)
LEMMA TasksKeep ==
  ASSUME Phases, NEW s \in Stream, TaskStart(s) \/ TaskEnd(s)
  PROVE  Phases'
<1> USE DEF threads, process, machine
<1>1. /\ queued[s] > 0 \/ polling[s] > 0
      /\ ~Ended /\ (main' = main \/ main' = "crashed")
      /\ UNCHANGED <<deconstructing, streams, connecting>>
  BY Zenon DEF TaskStart, TaskEnd
<1>2. ~NoTasks
  BY <1>1, SMT DEF NoTasks
<1>3. Open' = Open
  BY <1>1 DEF Open
<1> QED BY <1>1, <1>2, <1>3 DEF Phases, Ended

LEMMA PhasesNext == Phases /\ [Next]_vars => Phases'
<1> SUFFICES ASSUME Phases, [Next]_vars PROVE Phases'
  OBVIOUS
<1>1. CASE MainStep
  <2>1. \/ StartWatcher \/ StartPool \/ Main \/ Listen \/ PostHandler \/ AppClosed
        \/ DestructPool \/ DestructWatcher \/ Join \/ Connected \/ AppClose
    BY <1>1, Zenon DEF MainStep
  <2> QED BY <2>1, MainKeeps, ServingKeeps
<1>2. CASE WatcherStep \/ WatchUnstuck
  BY <1>2, WatcherKeeps
<1>3. CASE Signal
  BY <1>3, MainKeeps
<1>4. ASSUME NEW s \in Stream,
             Connect(s) \/ Submit(s) \/ ClientLeaves(s) \/ TaskStart(s) \/ TaskEnd(s)
      PROVE  Phases'
  BY <1>4, ServingKeeps, TasksKeep
<1>5. CASE UNCHANGED vars
  BY <1>5, Zenon DEF vars, process, threads, work, Phases, NoTasks, Open
<1> QED BY <1>1, <1>2, <1>3, <1>4, <1>5, Zenon DEF Next

(* Whenever the process ends in order, every task has run before the pool  *)
(* goes, no stream is open when the watcher is told to end, and it has     *)
(* ended before its epoll set and its pipe are closed.                     *)
THEOREM TornDown == Spec => []TornDownInOrder
<1>1. Phases => TornDownInOrder
  BY DEF Phases, NoTasks, TornDownInOrder
<1> QED BY <1>1, PhasesInit, PhasesNext, PTL DEF Spec
=============================================================================
