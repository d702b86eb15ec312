--------------------------- MODULE SystemWatcher ---------------------------
(***************************************************************************)
(* SystemWatcher: the watcher thread, which waits in epoll and reads the   *)
(* target sockets without taking any lock, and the lambda it defers to the *)
(* loop thread for every event.                                            *)
(***************************************************************************)
EXTENDS WebSocketManager

(* epoll is level-triggered: a registered socket is ready as long as it    *)
(* holds unread data or its peer is gone, the pipe while a wake is unread. *)
Ready == {f \in epoll : sock[fdtab[f]].inq # <<>> \/ sock[fdtab[f]].eof}
            \cup {f \in {PipeFd} : pipe > 0}

(* EpollWrapper::wait: at most BUFFER_COUNT events. *)
WatchWait ==
  /\ watcher.at = "wait"
  /\ \E events \in SUBSET Ready :
       /\ events # {}
       /\ Cardinality(events) <= BUFFER_COUNT
       /\ events = Ready \/ Cardinality(events) = BUFFER_COUNT
       /\ watcher' = [at |-> "batch", todo |-> events]
  /\ UNCHANGED <<mgrVars, loop, deferVars, kernelVars, poolVars, netVars, crashed>>

(* The state after the last use of an event. *)
Rest(todo) == IF todo = {} THEN [at |-> "wait"] ELSE [at |-> "batch", todo |-> todo]

(* Slip: the wake is not read. *)
WatchWakeUnread ==
  /\ watcher.at = "batch" /\ PipeFd \in watcher.todo
  /\ watcher' = Rest(watcher.todo \ {PipeFd})
  /\ UNCHANGED <<mgrVars, loop, deferVars, kernelVars, poolVars, netVars, crashed>>

(* A wake event: read(fd, buf, 10) takes up to five wakes of two bytes. *)
WatchWake ==
  /\ watcher.at = "batch" /\ PipeFd \in watcher.todo
  /\ pipe' = IF pipe > 5 THEN pipe - 5 ELSE 0
  /\ watcher' = Rest(watcher.todo \ {PipeFd})
  /\ UNCHANGED <<mgrVars, loop, deferVars, epoll, fdtab, sock, poolVars, netVars, crashed>>

(* The next event of the batch: an empty combined_buffer for number fd. *)
WatchEvent ==
  /\ watcher.at = "batch"
  /\ \E fd \in watcher.todo \ {PipeFd} :
       watcher' = [at   |-> "reading",
                   e    |-> [fd |-> fd, data |-> <<>>, to_close |-> FALSE],
                   todo |-> watcher.todo \ {fd}]
  /\ UNCHANGED <<mgrVars, loop, deferVars, kernelVars, poolVars, netVars, crashed>>

(* The read loop is over: to_close, or EAGAIN or enough collected. *)
EndLoop(e, to_close) ==
  watcher' = [at   |-> IF to_close THEN "ended" ELSE "done",
              e    |-> [e EXCEPT !.to_close = to_close],
              todo |-> watcher.todo]

(* Slip: what was read before the end of file is thrown away with it. *)
ReadEndDiscards(k) ==
  /\ sock[k].inq = <<>> /\ sock[k].eof
  /\ EndLoop([watcher.e EXCEPT !.data = <<>>], TRUE)
  /\ UNCHANGED sock

(* A read() that finds something in socket k: the next chunk, after which  *)
(* the loop ends when more than MAX_WS_FRAME has been collected; ...       *)
ReadChunk(k) ==
  LET e == [watcher.e EXCEPT !.data = Append(@, [k |-> k, n |-> Head(sock[k].inq)])]
  IN  /\ sock[k].inq # <<>>
      /\ sock' = [sock EXCEPT ![k].inq = Tail(@)]
      /\ \/ Len(e.data) > MAX_WS_FRAME /\ EndLoop(e, FALSE)
         \/ /\ Len(e.data) <= MAX_WS_FRAME
            /\ watcher' = [at |-> "reading", e |-> e, todo |-> watcher.todo]

(* ... or end of file, or an error.                                        *)
ReadEnd(k) ==
  /\ sock[k].inq = <<>> /\ sock[k].eof
  /\ EndLoop(watcher.e, TRUE)
  /\ UNCHANGED sock

(* Socket k is inside open_stream: socket() has returned, connect() has    *)
(* not.                                                                    *)
InConnect(k) == loop.at = "connect" /\ fdtab[loop.fd] = k

(* One read() of the loop, on whatever socket has the number by now: none  *)
(* (EBADF), one with data, at its end, or empty.  Sockets are non-blocking *)
(* (EAGAIN) except inside open_stream, where a read fails before connect() *)
(* is called (ENOTCONN) and blocks after that.                             *)
WatchRead ==
  LET k == fdtab[watcher.e.fd]
      empty == k # 0 /\ sock[k].inq = <<>> /\ ~sock[k].eof
  IN  /\ watcher.at = "reading"
      /\ \/ k = 0 /\ EndLoop(watcher.e, TRUE) /\ UNCHANGED sock
         \/ k # 0 /\ (ReadChunk(k) \/ ReadEnd(k))
         \/ empty /\ ~InConnect(k) /\ EndLoop(watcher.e, FALSE) /\ UNCHANGED sock
         \/ empty /\ InConnect(k) /\ EndLoop(watcher.e, TRUE) /\ UNCHANGED sock
         \/ /\ empty /\ InConnect(k)
            /\ watcher' = [at |-> "stuck", k |-> k, e |-> watcher.e, todo |-> watcher.todo]
            /\ UNCHANGED sock
      /\ UNCHANGED <<mgrVars, loop, deferVars, epoll, pipe, fdtab, poolVars, netVars, crashed>>

(* A blocked read() holds on to socket k, and does not return before that  *)
(* target sends something or goes away, even if the number has been closed *)
(* or has passed on to another socket by then.                             *)
WatchReadReturns ==
  /\ watcher.at = "stuck"
  /\ ReadChunk(watcher.k) \/ ReadEnd(watcher.k)
  /\ UNCHANGED <<mgrVars, loop, deferVars, epoll, pipe, fdtab, poolVars, netVars, crashed>>

(* Slip: the watcher closes the finished descriptor itself. *)
WatchEraseCloses ==
  /\ watcher.at = "ended"
  /\ CloseFd(watcher.e.fd)
  /\ watcher' = [watcher EXCEPT !.at = "done"]
  /\ UNCHANGED <<mgrVars, loop, deferVars, poolVars, netVars, crashed>>

(* erase_fd if the socket is finished, by number again: EPOLL_CTL_DEL of   *)
(* whatever socket has it now.                                             *)
WatchErase ==
  /\ watcher.at = "ended"
  /\ epoll' = epoll \ {watcher.e.fd}
  /\ watcher' = [watcher EXCEPT !.at = "done"]
  /\ UNCHANGED <<mgrVars, loop, deferVars, pipe, fdtab, sock, poolVars, netVars, crashed>>

(* Slips: the event is not counted; the descriptor is erased in any case. *)
WatchUncounted ==
  /\ watcher.at = "done"
  /\ watcher' = [watcher EXCEPT !.at = "counted"]
  /\ UNCHANGED <<mgrVars, loop, deferVars, kernelVars, poolVars, netVars, crashed>>

WatchCountErases ==
  /\ watcher.at = "done"
  /\ epoll' = epoll \ {watcher.e.fd}
  /\ send_queue_len' = send_queue_len + 1
  /\ watcher' = [watcher EXCEPT !.at = "counted"]
  /\ UNCHANGED <<mgrVars, loop, deferred, pipe, fdtab, sock, poolVars, netVars, crashed>>

(* send_queue_len++, ... *)
WatchCount ==
  /\ watcher.at = "done"
  /\ send_queue_len' = send_queue_len + 1
  /\ watcher' = [watcher EXCEPT !.at = "counted"]
  /\ UNCHANGED <<mgrVars, loop, deferred, kernelVars, poolVars, netVars, crashed>>

(* Slip: the lambda overtakes those that wait. *)
WatchDeferFirst ==
  /\ watcher.at = "counted"
  /\ deferred' = <<watcher.e>> \o deferred
  /\ watcher' = Rest(watcher.todo)
  /\ UNCHANGED <<mgrVars, loop, send_queue_len, kernelVars, poolVars, netVars, crashed>>

(* ... and loop->defer. *)
WatchDefer ==
  /\ watcher.at = "counted"
  /\ deferred' = Append(deferred, watcher.e)
  /\ watcher' = Rest(watcher.todo)
  /\ UNCHANGED <<mgrVars, loop, send_queue_len, kernelVars, poolVars, netVars, crashed>>

----------------------------------------------------------------------------
(* Slip: the first stream that exists, whatever its descriptor. *)
AnyOwner(fd) == {o \in watched_sockets \X StreamId : Live(o[1], o[2])}

(* The deferred lambda, on the loop thread, under watched_sockets_lock.    *)
(* It looks for the stream with the descriptor number it captured;         *)
(* OneOwner says there is at most one.                                     *)
Owners(fd) == {o \in watched_sockets \X StreamId :
                 Live(o[1], o[2]) /\ streams[o[1]][o[2]].fd = fd}

(* send_queue_len--, after which the lambda is at "finish". *)
Uncount ==
  /\ send_queue_len' = send_queue_len - 1
  /\ loop' = [at |-> "finish"]

(* Slips: an early return when no stream is found skips send_queue_len--;  *)
(* to_close is ignored.                                                    *)
RunDeferredReturnsEarly ==
  LET e == Head(deferred)
  IN  /\ loop.at = "idle" /\ deferred # <<>>
      /\ deferred' = Tail(deferred)
      /\ \/ /\ Owners(e.fd) = {}
            /\ UNCHANGED <<ws, has_backpressure, send_queue_len, loop>>
         \/ \E o \in Owners(e.fd) :
              /\ SendTo(o[1], <<Data(o[2], e.data)>>)
              /\ \/ ~e.to_close /\ Uncount
                 \/ /\ e.to_close
                    /\ loop' = [at |-> "close", c |-> o[1], s |-> o[2]]
                    /\ UNCHANGED send_queue_len
              /\ UNCHANGED has_backpressure
      /\ UNCHANGED <<manager, streams, watcher, kernelVars, poolVars, client, crashed>>

RunDeferredOpen ==
  LET e == Head(deferred)
  IN  /\ loop.at = "idle" /\ deferred # <<>>
      /\ deferred' = Tail(deferred)
      /\ Uncount
      /\ IF Owners(e.fd) = {} THEN UNCHANGED ws
         ELSE \E o \in Owners(e.fd) : SendTo(o[1], <<Data(o[2], e.data)>>)
      /\ UNCHANGED <<mgrVars, watcher, kernelVars, poolVars, client, crashed>>

(* The lambda up to its close_stream. *)
RunDeferred ==
  LET e == Head(deferred)
  IN  /\ loop.at = "idle" /\ deferred # <<>>
      /\ deferred' = Tail(deferred)
      /\ \/ /\ Owners(e.fd) = {}
            /\ Uncount
            /\ UNCHANGED <<ws, has_backpressure>>
         \/ \E o \in Owners(e.fd) :
              /\ has_backpressure' = [has_backpressure EXCEPT ![o[1]] =
                                        @ \/ SendStatus(ws[o[1]]) = "BACKPRESSURE"]
              /\ SendTo(o[1], <<Data(o[2], e.data)>>)
              /\ \/ ~e.to_close /\ Uncount
                 \/ /\ e.to_close
                    /\ loop' = [at |-> "close", c |-> o[1], s |-> o[2]]
                    /\ UNCHANGED send_queue_len
      /\ UNCHANGED <<manager, streams, watcher, kernelVars, poolVars, client, crashed>>

(* The lambda's close_stream, once the write tasks let go of the lock. *)
DeferredClose ==
  /\ loop.at = "close"
  /\ close_stream(loop.c, loop.s)
  /\ Uncount
  /\ UNCHANGED <<manager, has_backpressure, deferred, watcher, poolVars, client, crashed>>

(* Slip: update_streams is not called. *)
FinishWithoutUpdate ==
  /\ loop.at = "finish"
  /\ loop' = Idle
  /\ UNCHANGED <<mgrVars, deferVars, watcher, kernelVars, poolVars, netVars, crashed>>

(* The lambda reads send_queue_len again, which the watcher may have       *)
(* counted up meanwhile, and calls update_streams on every manager when it *)
(* is short enough, ...                                                    *)
Finish ==
  /\ loop.at = "finish"
  /\ loop' = IF send_queue_len < MAX_QUEUE /\ watched_sockets # {}
             THEN [at |-> "update", todo |-> watched_sockets] ELSE Idle
  /\ UNCHANGED <<mgrVars, deferVars, watcher, kernelVars, poolVars, netVars, crashed>>

(* ... one manager at a time. *)
UpdateNext ==
  /\ loop.at = "update"
  /\ \E c \in loop.todo :
       /\ update_streams(c, ws[c], has_backpressure[c])
       /\ loop' = IF loop.todo = {c} THEN Idle ELSE [loop EXCEPT !.todo = @ \ {c}]
  /\ UNCHANGED <<manager, has_backpressure, deferVars, watcher, kernelVars,
                 poolVars, client, crashed>>
=============================================================================
