------------------------- MODULE WebSocketManager -------------------------
(***************************************************************************)
(* WebSocketManager and the system calls it makes through SystemInterface  *)
(* and EpollWrapper.  Everything here runs on the loop thread, except the  *)
(* write task, which runs on a thread of the pool.                         *)
(*                                                                         *)
(* stream_lock is a shared_mutex.  Pool threads hold it shared while they  *)
(* are at "poll"; the loop thread takes it shared or unique inside a step, *)
(* and keeps it unique over two steps only in handle_connect, whose wake() *)
(* may block on a full pipe with the lock held (loop.locked).              *)
(***************************************************************************)
EXTENDS WoefulState

(* No pool thread is inside a write task of manager c. *)
NoReader(c) == \A w \in Worker : worker[w].at = "poll" => worker[w].task.c # c

(* The unique lock on c.stream_lock is held by handle_connect. *)
WriteLocked(c) == loop.at = "wake" /\ c \in loop.locked

----------------------------------------------------------------------------
(* Packets, and ws->send.                                                  *)

Continue(s) == [type |-> "CONTINUE", stream |-> s, buffer |-> BUFFER_COUNT]
Close(reason, s) == [type |-> "CLOSE", stream |-> s, reason |-> reason]
Data(s, data) == [type |-> "DATA", stream |-> s, data |-> data]

(* uWebSockets (external).  The kernel takes SOCKBUF packets; what it does *)
(* not take uWS keeps, and once it keeps something everything else queues  *)
(* behind it.  A packet is dropped when uWS already keeps more than        *)
(* MAX_BACKPRESSURE (closeOnBackpressureLimit is false).  A websocket      *)
(* whose close callback runs swallows what is sent to it.                  *)
KernelRoom(w) == IF w.backlog = 0 THEN SOCKBUF - Len(w.out) ELSE 0

SendStatus(w) ==
  CASE w.backlog > MAX_BACKPRESSURE -> "DROPPED"
    [] w.backlog <= MAX_BACKPRESSURE /\ KernelRoom(w) = 0 -> "BACKPRESSURE"
    [] OTHER -> "SUCCESS"

Accepted(w, packets) ==
  LET room == IF w.backlog > MAX_BACKPRESSURE THEN 0
              ELSE KernelRoom(w) + MAX_BACKPRESSURE + 1 - w.backlog
  IN  SubSeq(packets, 1, IF Len(packets) <= room THEN Len(packets) ELSE room)

Send(c, w, packets) ==
  LET sent == Accepted(w, packets)
      kept == Len(sent) - KernelRoom(w)
  IN  IF manager[c] = "closing" THEN w
      ELSE [out     |-> w.out \o sent,
            backlog |-> w.backlog + (IF kept > 0 THEN kept ELSE 0)]

SendTo(c, packets) == ws' = [ws EXCEPT ![c] = Send(c, @, packets)]

----------------------------------------------------------------------------
(* The constructor: the initial CONTINUE, then watched_sockets.            *)
Construct(c) ==
  /\ manager[c] = "none"
  /\ manager' = [manager EXCEPT ![c] = "open"]
  /\ SendTo(c, <<Continue(0)>>)
  /\ UNCHANGED <<streams, has_backpressure>>

(* close() of the only descriptor of a socket: the number is free, and the *)
(* kernel takes the socket out of the epoll set.                           *)
CloseFd(fd) ==
  /\ fdtab' = [fdtab EXCEPT ![fd] = 0]
  /\ epoll' = epoll \ {fd}
  /\ UNCHANGED <<pipe, sock>>

(* SystemInterface::open_stream up to its connect(): refused (block list,  *)
(* stream type, DNS, no descriptor), which receive() answers with a CLOSE, *)
(* or a blocking socket on a number that is not in use.                    *)
handle_connect(c, s, type) ==
  \/ /\ SendTo(c, <<Close("0x41", s)>>)
     /\ UNCHANGED <<loop, kernelVars>>
  \/ \E fd \in Fd :
       /\ Len(sock) < MaxSock
       /\ fdtab[fd] = 0
       /\ sock' = Append(sock, [c |-> c, s |-> s, fd |-> fd, sent |-> 0,
                                inq |-> <<>>, eof |-> FALSE, rx |-> <<>>])
       /\ fdtab' = [fdtab EXCEPT ![fd] = Len(sock) + 1]
       /\ loop' = [at |-> "connect", c |-> c, s |-> s, type |-> type, fd |-> fd]
       /\ UNCHANGED <<epoll, pipe, ws>>

(* Slip: the failed socket is not closed. *)
ConnectFailsLeaks ==
  /\ loop.at = "connect"
  /\ SendTo(loop.c, <<Close("0x41", loop.s)>>)
  /\ loop' = Idle
  /\ UNCHANGED <<mgrVars, deferVars, watcher, kernelVars, poolVars, client, crashed>>

(* connect() returns.  On failure the socket is closed and receive() sends *)
(* the CLOSE; on success it becomes non-blocking and push_fd registers it. *)
ConnectFails ==
  /\ loop.at = "connect"
  /\ fdtab' = [fdtab EXCEPT ![loop.fd] = 0]
  /\ sock' = [sock EXCEPT ![fdtab[loop.fd]].eof = TRUE]
  /\ UNCHANGED <<epoll, pipe>>
  /\ SendTo(loop.c, <<Close("0x41", loop.s)>>)
  /\ loop' = Idle
  /\ UNCHANGED <<mgrVars, deferVars, watcher, poolVars, client, crashed>>

ConnectSucceeds ==
  /\ loop.at = "connect"
  /\ epoll' = epoll \cup {loop.fd}
  /\ loop' = [loop EXCEPT !.at = "insert"]
  /\ UNCHANGED <<mgrVars, deferVars, watcher, pipe, fdtab, sock, poolVars,
                 netVars, crashed>>

(* Slip: the entry is written without the unique lock. *)
ConnectInsertUnlocked ==
  /\ loop.at = "insert"
  /\ streams' = [streams EXCEPT ![loop.c][loop.s] =
                   [stream_type |-> loop.type, fd |-> loop.fd, buffer |-> BUFFER_COUNT]]
  /\ loop' = [at |-> "wake", locked |-> {}]
  /\ UNCHANGED <<manager, has_backpressure, deferVars, watcher, kernelVars,
                 poolVars, netVars, crashed>>

(* The rest of handle_connect: the lock is acquired when no write task     *)
(* holds it, the entry is written over whatever the id held, ...           *)
ConnectInsert ==
  /\ loop.at = "insert"
  /\ NoReader(loop.c)
  /\ streams' = [streams EXCEPT ![loop.c][loop.s] =
                   [stream_type |-> loop.type, fd |-> loop.fd, buffer |-> BUFFER_COUNT]]
  /\ loop' = [at |-> "wake", locked |-> {loop.c}]
  /\ UNCHANGED <<manager, has_backpressure, deferVars, watcher, kernelVars,
                 poolVars, netVars, crashed>>

(* ... and epoll.wake(), which blocks while the pipe is full.  The drain   *)
(* callback ends with the same call, holding no lock.                      *)
Wake ==
  /\ loop.at = "wake"
  /\ pipe < PIPE_SIZE
  /\ pipe' = pipe + 1
  /\ loop' = Idle
  /\ UNCHANGED <<mgrVars, deferVars, watcher, epoll, fdtab, sock, poolVars,
                 netVars, crashed>>

----------------------------------------------------------------------------
(* Slip: the buffer is reset, but no CONTINUE is sent. *)
ChargeUnannounced(c, s) ==
  LET left == (streams[c][s].buffer + U32 - 1) % U32
      refill == left = 0 /\ has_backpressure[c] /\ send_queue_len < MAX_QUEUE
  IN  /\ IF streams[c][s].stream_type = "udp" THEN UNCHANGED streams
         ELSE streams' = [streams EXCEPT ![c][s].buffer = IF refill THEN BUFFER_COUNT ELSE left]
      /\ UNCHANGED ws

(* handle_data: one packet charged to the stream's buffer, which is a      *)
(* uint32_t.  Only has_backpressure allows the refill here.                *)
charge(c, s) ==
  LET left   == (streams[c][s].buffer + U32 - 1) % U32
      refill == left = 0 /\ has_backpressure[c] /\ send_queue_len < MAX_QUEUE
      charged(n) == streams' = [streams EXCEPT ![c][s].buffer = n]
  IN  \/ /\ streams[c][s].stream_type = "udp"
         /\ UNCHANGED <<streams, ws>>
      \/ /\ streams[c][s].stream_type # "udp" /\ ~refill
         /\ charged(left)
         /\ UNCHANGED ws
      \/ /\ streams[c][s].stream_type # "udp" /\ refill
         /\ charged(BUFFER_COUNT)
         /\ SendTo(c, <<Continue(s)>>)

handle_data(c, s, data) ==
  \/ /\ ~Live(c, s)
     /\ UNCHANGED <<tasks, streams, ws>>
  \/ /\ Live(c, s)
     /\ tasks' = Append(tasks, [c |-> c, s |-> s, data |-> data])
     /\ charge(c, s)

(* Slip: every stream is topped up, not only the empty ones. *)
EmptyOrNot(c) == {s \in StreamId : Live(c, s)}

(* update_streams, entered with websocket w (the handler may already have  *)
(* sent) and backpressure flag hb: a CONTINUE for every empty stream, in   *)
(* the unordered_map's order.                                              *)
Empty(c) == {s \in StreamId : Live(c, s) /\ streams[c][s].buffer = 0}

update_streams(c, w, hb) ==
  \/ /\ hb \/ send_queue_len > MAX_QUEUE
     /\ ws' = [ws EXCEPT ![c] = w]
     /\ UNCHANGED streams
  \/ /\ ~hb /\ send_queue_len <= MAX_QUEUE
     /\ streams' = [streams EXCEPT ![c] = [s \in StreamId |->
                      IF s \in Empty(c) THEN [@[s] EXCEPT !.buffer = BUFFER_COUNT]
                      ELSE @[s]]]
     /\ \E order \in SetToSeqs(Empty(c)) :
          ws' = [ws EXCEPT ![c] =
                   Send(c, w, [i \in DOMAIN order |-> Continue(order[i])])]

(* Slips: streams.erase is missing; the unique lock is missing. *)
CloseStreamKeepsEntry(c, s) ==
  /\ NoReader(c)
  /\ SendTo(c, <<Close("0x02", s)>>)
  /\ CloseFd(streams[c][s].fd)
  /\ UNCHANGED streams

CloseStreamUnlocked(c, s) ==
  /\ SendTo(c, <<Close("0x02", s)>>)
  /\ CloseFd(streams[c][s].fd)
  /\ streams' = [streams EXCEPT ![c][s] = NoStream]

(* close_stream, under the unique lock.  erase_fd (remove_poll) takes the  *)
(* socket out of the epoll set, which close() would do as well.            *)
close_stream(c, s) ==
  /\ NoReader(c)
  /\ SendTo(c, <<Close("0x02", s)>>)
  /\ CloseFd(streams[c][s].fd)
  /\ streams' = [streams EXCEPT ![c][s] = NoStream]

(* force_close, after the ids have been collected: one close_stream after  *)
(* the other.  Write tasks can take the lock between two of them.          *)
ForceClose ==
  /\ loop.at = "force"
  /\ \E s \in loop.todo :
       /\ close_stream(loop.c, s)
       /\ loop' = [loop EXCEPT !.todo = @ \ {s}]
  /\ UNCHANGED <<manager, has_backpressure, deferVars, watcher, poolVars,
                 client, crashed>>

(* delete manager, the last statement of the close callback. *)
Destruct ==
  /\ loop.at = "force" /\ loop.todo = {}
  /\ manager' = [manager EXCEPT ![loop.c] = "deleted"]
  /\ loop' = Idle
  /\ UNCHANGED <<streams, has_backpressure, deferVars, watcher, kernelVars,
                 poolVars, netVars, crashed>>

----------------------------------------------------------------------------
(* The task handle_data submits, on pool thread w.  The pool hands queued  *)
(* tasks out in order, each to one idle thread (see ThreadPool).           *)
WorkerPop(w) ==
  /\ worker[w].at = "idle" /\ tasks # <<>>
  /\ worker' = [worker EXCEPT ![w] = [at |-> "start", task |-> Head(tasks)]]
  /\ tasks' = Tail(tasks)
  /\ UNCHANGED <<mgrVars, loop, deferVars, watcher, kernelVars, netVars, crashed>>

(* shared_lock on stream_lock, then streams.find(id)->second: for a stream *)
(* that is still there the task goes on to poll; ...                       *)
WorkerLock(w) ==
  /\ worker[w].at = "start"
  /\ worker[w].task.c \in watched_sockets
  /\ ~WriteLocked(worker[w].task.c)
  /\ Live(worker[w].task.c, worker[w].task.s)
  /\ worker' = [worker EXCEPT ![w].at = "poll"]
  /\ UNCHANGED <<mgrVars, loop, deferVars, watcher, kernelVars, tasks, netVars, crashed>>

(* ... for one that is gone, find() is end() and dereferencing it reads    *)
(* through a null node pointer; ...                                        *)
WorkerNoStream(w) ==
  /\ worker[w].at = "start"
  /\ worker[w].task.c \in watched_sockets
  /\ ~WriteLocked(worker[w].task.c)
  /\ ~Live(worker[w].task.c, worker[w].task.s)
  /\ crashed' = TRUE
  /\ UNCHANGED <<mgrVars, loop, deferVars, watcher, kernelVars, poolVars, netVars>>

(* ... and when the manager itself has been deleted, its lock and its map  *)
(* are freed memory: the thread never returns from the lock, or it dies.   *)
WorkerNoManager(w) ==
  /\ worker[w].at = "start"
  /\ worker[w].task.c \notin watched_sockets
  /\ \/ crashed' = TRUE /\ UNCHANGED worker
     \/ crashed' = FALSE /\ worker' = [worker EXCEPT ![w] = [at |-> "hung"]]
  /\ UNCHANGED <<mgrVars, loop, deferVars, watcher, kernelVars, tasks, netVars>>

(* Slip: after EAGAIN the task is queued again instead of polled again. *)
WorkerWriteRequeues(w) ==
  LET t == worker[w].task
      k == fdtab[streams[t.c][t.s].fd]
  IN  /\ worker[w].at = "poll"
      /\ \/ sock' = [sock EXCEPT ![k].rx = Append(@, t)] /\ UNCHANGED tasks
         \/ tasks' = Append(tasks, t) /\ UNCHANGED sock
      /\ worker' = [worker EXCEPT ![w] = Idle]
      /\ UNCHANGED <<mgrVars, loop, deferVars, watcher, epoll, pipe, fdtab,
                     netVars, crashed>>

(* poll() returns and write() takes the payload (all of it, or a first     *)
(* part: a short count is not looked at), or either fails with something   *)
(* else than EAGAIN and the payload is gone.  After EAGAIN the thread is   *)
(* back at poll.                                                           *)
WorkerWrite(w) ==
  LET t == worker[w].task
      k == fdtab[streams[t.c][t.s].fd]
  IN  /\ worker[w].at = "poll"
      /\ \/ sock' = [sock EXCEPT ![k].rx = Append(@, t)]
         \/ UNCHANGED sock
      /\ worker' = [worker EXCEPT ![w] = Idle]
      /\ UNCHANGED <<mgrVars, loop, deferVars, watcher, epoll, pipe, fdtab,
                     tasks, netVars, crashed>>

(* write() to a TCP socket whose peer is gone raises SIGPIPE, which the    *)
(* program neither handles nor ignores.                                    *)
WorkerSigpipe(w) ==
  LET t == worker[w].task
      st == streams[t.c][t.s]
  IN  /\ worker[w].at = "poll"
      /\ st.stream_type = "tcp" /\ sock[fdtab[st.fd]].eof
      /\ crashed' = TRUE
      /\ UNCHANGED <<mgrVars, loop, deferVars, watcher, kernelVars, poolVars, netVars>>
=============================================================================
