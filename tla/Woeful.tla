------------------------------- MODULE Woeful -------------------------------
(***************************************************************************)
(* The server: the callbacks server.cpp gives to uWebSockets, the threads  *)
(* they run beside, and the clients and targets around them.               *)
(*                                                                         *)
(* A websocket message is handled in the step in which its client sends    *)
(* it: the loop thread takes messages of one websocket in order and a      *)
(* client that waits for nothing in between loses nothing by sending late. *)
(***************************************************************************)
EXTENDS SystemWatcher

(* The open callback. *)
Open(c) ==
  /\ loop.at = "idle"
  /\ Construct(c)
  /\ UNCHANGED <<loop, deferVars, watcher, kernelVars, poolVars, client, crashed>>

----------------------------------------------------------------------------
(* The message callback, receive(), by packet type.  A conforming client   *)
(* waits for the initial CONTINUE, uses a stream id once, and sends DATA   *)
(* on TCP streams only while it has credit.  INFO, CONTINUE and unknown    *)
(* types change nothing.                                                   *)
RecvConnect(c, s, type) ==
  /\ loop.at = "idle" /\ manager[c] = "open"
  /\ Conforming => client[c].state[s] = "unused" /\ client[c].credit[0] > 0
  /\ client' = [client EXCEPT ![c].state[s] = type,
                              ![c].credit[s] = client[c].credit[0]]
  /\ handle_connect(c, s, type)
  /\ UNCHANGED <<mgrVars, deferVars, watcher, poolVars, crashed>>

RecvData(c, s) ==
  LET me  == client[c]
      tcp == me.state[s] = "tcp"
  IN  /\ loop.at = "idle" /\ manager[c] = "open"
      /\ me.sent[s] < MaxData
      /\ Conforming => me.state[s] \in StreamType /\ (tcp => me.credit[s] > 0)
      /\ client' = [client EXCEPT
                      ![c].sent[s] = @ + 1,
                      ![c].credit[s] = IF tcp /\ @ > 0 THEN @ - 1 ELSE @]
      /\ handle_data(c, s, me.sent[s] + 1)
      /\ UNCHANGED <<manager, has_backpressure, loop, deferVars, watcher,
                     kernelVars, worker, crashed>>

(* PACKET_CLOSE: the server does nothing. *)
RecvClose(c, s) ==
  /\ loop.at = "idle" /\ manager[c] = "open"
  /\ client[c].state[s] \in StreamType
  /\ client' = [client EXCEPT ![c].state[s] = "closed"]
  /\ UNCHANGED <<mgrVars, loop, deferVars, watcher, kernelVars, poolVars, ws, crashed>>

----------------------------------------------------------------------------
(* uWebSockets moves what it kept to the kernel and, when that made room,  *)
(* calls drain: has_backpressure is cleared even if something is still     *)
(* kept.                                                                   *)
Moved(w) ==
  LET room == SOCKBUF - (Len(w.out) - w.backlog)
  IN  [w EXCEPT !.backlog = IF @ > room THEN @ - room ELSE 0]

(* Slip: the flag is not cleared. *)
DrainKeepsFlag(c) ==
  /\ loop.at = "idle" /\ manager[c] = "open"
  /\ Moved(ws[c]) # ws[c]
  /\ update_streams(c, Moved(ws[c]), FALSE)
  /\ loop' = [at |-> "wake", locked |-> {}]
  /\ UNCHANGED <<manager, has_backpressure, deferVars, watcher, kernelVars,
                 poolVars, client, crashed>>

(* The drain callback. *)
Drain(c) ==
  /\ loop.at = "idle" /\ manager[c] = "open"
  /\ Moved(ws[c]) # ws[c]
  /\ has_backpressure' = [has_backpressure EXCEPT ![c] = FALSE]
  /\ update_streams(c, Moved(ws[c]), FALSE)
  /\ loop' = [at |-> "wake", locked |-> {}]
  /\ UNCHANGED <<manager, deferVars, watcher, kernelVars, poolVars, client, crashed>>

(* Slip: the manager is deleted without force_close. *)
WsClosedUnforced(c) ==
  /\ loop.at = "idle" /\ manager[c] = "open"
  /\ manager' = [manager EXCEPT ![c] = "closing"]
  /\ loop' = [at |-> "force", c |-> c, todo |-> {}]
  /\ ws' = [ws EXCEPT ![c] = [out |-> <<>>, backlog |-> 0]]
  /\ client' = [client EXCEPT ![c] = InitClient]
  /\ UNCHANGED <<streams, has_backpressure, deferVars, watcher, kernelVars, poolVars,
                 crashed>>

(* The close callback: force_close clears has_backpressure and collects    *)
(* the stream ids (ForceClose and Destruct go on from here).  The client   *)
(* is gone, with all it was sent.                                          *)
WsClosed(c) ==
  /\ loop.at = "idle" /\ manager[c] = "open"
  /\ manager' = [manager EXCEPT ![c] = "closing"]
  /\ has_backpressure' = [has_backpressure EXCEPT ![c] = FALSE]
  /\ loop' = [at |-> "force", c |-> c, todo |-> {s \in StreamId : Live(c, s)}]
  /\ ws' = [ws EXCEPT ![c] = [out |-> <<>>, backlog |-> 0]]
  /\ client' = [client EXCEPT ![c] = InitClient]
  /\ UNCHANGED <<streams, deferVars, watcher, kernelVars, poolVars, crashed>>

----------------------------------------------------------------------------
(* The client takes the next packet the kernel holds for it. *)
ClientReceive(c) ==
  LET p  == Head(ws[c].out)
      me == client[c]
  IN  /\ Len(ws[c].out) > ws[c].backlog
      /\ ws' = [ws EXCEPT ![c].out = Tail(@)]
      /\ client' = [client EXCEPT ![c] =
           CASE p.type = "CONTINUE" -> [me EXCEPT !.credit[p.stream] = p.buffer]
             [] p.type = "CLOSE"    -> [me EXCEPT !.state[p.stream] = "closed"]
             [] p.type = "DATA"     -> [me EXCEPT !.got[p.stream] = @ \o p.data]]
      /\ UNCHANGED <<mgrVars, loop, deferVars, watcher, kernelVars, poolVars, crashed>>

(* The target of socket k sends one chunk, or goes away, as long as the    *)
(* kernel keeps the socket: it has a number, or a read() is blocked on it. *)
(* It can do the first only to a connected socket.                         *)
Kept(k) == fdtab[sock[k].fd] = k \/ (watcher.at = "stuck" /\ watcher.k = k)

TargetSend(k) ==
  /\ Kept(k) /\ ~InConnect(k)
  /\ ~sock[k].eof /\ sock[k].sent < MaxChunk
  /\ sock' = [sock EXCEPT ![k].sent = @ + 1,
                          ![k].inq = Append(@, sock[k].sent + 1)]
  /\ UNCHANGED <<mgrVars, loop, deferVars, watcher, epoll, pipe, fdtab, poolVars,
                 netVars, crashed>>

TargetClose(k) ==
  /\ Kept(k)
  /\ ~sock[k].eof
  /\ sock' = [sock EXCEPT ![k].eof = TRUE]
  /\ UNCHANGED <<mgrVars, loop, deferVars, watcher, epoll, pipe, fdtab, poolVars,
                 netVars, crashed>>

----------------------------------------------------------------------------
(* Steps of the loop thread inside a handler, and the next deferred lambda. *)
LoopStep ==
  \/ ConnectFails \/ ConnectSucceeds \/ ConnectInsert \/ Wake
  \/ RunDeferred \/ DeferredClose \/ Finish \/ UpdateNext
  \/ ForceClose \/ Destruct

WatcherStep ==
  \/ WatchWait \/ WatchWake
  \/ WatchEvent \/ WatchRead \/ WatchReadReturns
  \/ WatchErase \/ WatchCount \/ WatchDefer

WorkerStep(w) ==
  \/ WorkerPop(w)
  \/ WorkerLock(w) \/ WorkerNoStream(w) \/ WorkerNoManager(w)
  \/ WorkerWrite(w) \/ WorkerSigpipe(w)

(* What clients, uWebSockets and targets start. *)
Outside ==
  \/ \E c \in Conn :
       \/ Open(c) \/ Drain(c) \/ WsClosed(c) \/ ClientReceive(c)
       \/ \E s \in StreamId : RecvData(c, s) \/ RecvClose(c, s)
       \/ \E s \in StreamId, type \in Asked : RecvConnect(c, s, type)
  \/ \E k \in DOMAIN sock : TargetSend(k) \/ TargetClose(k)

(* The server may rest only with no handler, event or task under way; a    *)
(* thread that blocks anywhere else and is never woken is a deadlock.      *)
Resting ==
  /\ \/ crashed
     \/ /\ loop.at = "idle" /\ deferred = <<>>
        /\ watcher.at = "stuck" \/ (watcher.at = "wait" /\ Ready = {})
        /\ \A w \in Worker : worker[w].at \in {"idle", "hung"}
        /\ tasks = <<>> \/ \A w \in Worker : worker[w].at = "hung"
  /\ UNCHANGED vars

Next ==
  \/ ~crashed /\ LoopStep
  \/ ~crashed /\ WatcherStep
  \/ ~crashed /\ \E w \in Worker : WorkerStep(w)
  \/ ~crashed /\ Outside
  \/ Resting

Spec == Init /\ [][Next]_vars

(* Every thread that can run does, and a system call that the kernel       *)
(* bounds returns: connect() succeeds or times out.  The calls that only a *)
(* target can end, poll(-1) in a task and read() on a blocking socket, are *)
(* not promised to return.                                                 *)
Fairness ==
  /\ WF_vars(~crashed /\ LoopStep)
  /\ WF_vars(~crashed /\ WatcherStep)
  /\ \A w \in Worker : WF_vars(~crashed /\ worker[w].at # "poll" /\ WorkerStep(w))

(* What the server leaves to the targets: one takes what is written to it, *)
(* or is gone, so that poll(-1) returns, and one whose socket the watcher  *)
(* is blocked on sends something or goes away in the end.                  *)
PollReturns(w) == worker[w].at = "poll" /\ WorkerStep(w)

StuckAnswered ==
  /\ watcher.at = "stuck"
  /\ TargetSend(watcher.k) \/ TargetClose(watcher.k)

Cooperation ==
  /\ \A w \in Worker : WF_vars(~crashed /\ PollReturns(w))
  /\ WF_vars(~crashed /\ StuckAnswered)

CooperativeSpec == Spec /\ Fairness /\ Cooperation

(* A client takes what it is sent, and a writable websocket is not passed  *)
(* over for ever by a loop that has other things to do in between.         *)
Reception ==
  /\ \A c \in Conn : WF_vars(~crashed /\ ClientReceive(c))
  /\ \A c \in Conn : SF_vars(~crashed /\ Drain(c))

FairSpec == CooperativeSpec /\ Reception
=============================================================================
