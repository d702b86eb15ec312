---------------------------- MODULE WoefulProofs ----------------------------
(***************************************************************************)
(* Who owns which descriptor, for any number of clients, streams,          *)
(* descriptors and pool threads: proofs of EntriesOpen, OneOwner,          *)
(* WriterHoldsStream, NoDescriptorLeak and PollUndisturbed, and, of what   *)
(* becomes of descriptors in epoll, UnwatchedIsClosing.                    *)
(***************************************************************************)
EXTENDS WoefulTypeProofs

(* What the loop thread relies on inside a handler: the stream it is about *)
(* to close exists, and force_close still has to close exactly the streams *)
(* that are left.                                                          *)
LoopOwns ==
  /\ loop.at = "close" => Live(loop.c, loop.s)
  /\ loop.at = "force" => /\ manager[loop.c] = "closing"
                          /\ \A s \in StreamId : Live(loop.c, s) <=> s \in loop.todo

(* A conforming client connects only ids that have no entry. *)
FreshIds ==
  Conforming =>
    /\ \A c \in Conn, s \in StreamId :
         manager[c] = "open" /\ client[c].state[s] = "unused" => ~Live(c, s)
    /\ loop.at \in {"connect", "insert"} =>
         ~Live(loop.c, loop.s) /\ client[loop.c].state[loop.s] # "unused"

(* The inductive invariant. *)
Ownership ==
  /\ EntriesOpen
  /\ OneOwner
  /\ WriterHoldsStream
  /\ LoopOwns
  /\ FreshIds
  /\ NoDescriptorLeak

----------------------------------------------------------------------------
(* Most steps leave the owners alone.                                      *)

(* The entries of streams, but for their buffers, are what they were. *)
SameEntries ==
  \A c \in Conn, s \in StreamId :
    /\ streams'[c][s] # NoStream <=> streams[c][s] # NoStream
    /\ streams[c][s] # NoStream => streams'[c][s].fd = streams[c][s].fd

(* Sockets keep the stream they were opened for. *)
SameSockets ==
  \A k \in DOMAIN sock :
    k \in DOMAIN sock' /\ sock'[k].c = sock[k].c /\ sock'[k].s = sock[k].s

(* Handlers that own a descriptor or a set of streams. *)
Busy == {"connect", "insert", "close", "force"}

(* A task in poll() has an entry. *)
Pollers ==
  \A w \in Worker : worker'[w].at = "poll" =>
    /\ worker'[w].task.c \in Conn /\ worker'[w].task.s \in StreamId
    /\ streams[worker'[w].task.c][worker'[w].task.s] # NoStream

(* No id becomes unused. *)
SameIds ==
  \A c \in Conn, s \in StreamId :
    client'[c].state[s] = "unused" => client[c].state[s] = "unused"

(* A pool thread that has a task has a well-formed one. *)
LEMMA TaskType ==
  ASSUME TypeOK, NEW w \in Worker, worker[w].at \in {"start", "poll"}
  PROVE  worker[w].task \in Task
BY DEF TypeOK, WorkerState

(* Tasks that were in poll() still have their entries. *)
LEMMA OldPollers ==
  ASSUME TypeOK, WriterHoldsStream, UNCHANGED worker
  PROVE  Pollers
BY TaskType DEF WriterHoldsStream, Pollers, Live, Task

(* A step that leaves entries, sockets and descriptors alone.  What is left *)
(* to show of it concerns the handler the loop thread is in.               *)
LEMMA KeptStep ==
  ASSUME TypeOK, Ownership, UNCHANGED fdtab, SameEntries, SameSockets, Pollers,
         \A c \in Conn, s \in StreamId : Live(c, s) => c \in watched_sockets',
         \A fd : Connecting(fd)' <=> Connecting(fd),
         loop'.at \in {"connect", "insert"} =>
           /\ loop.at \in {"connect", "insert"}
           /\ loop'.c = loop.c /\ loop'.s = loop.s /\ loop'.fd = loop.fd
           /\ manager'[loop.c] = manager[loop.c]
  PROVE  EntriesOpen' /\ OneOwner' /\ WriterHoldsStream' /\ NoDescriptorLeak' /\ PollKept
<1> USE DEF Ownership
<1>2. \A c \in Conn, s \in StreamId : Live(c, s)' <=> Live(c, s)
  BY DEF SameEntries, Live
<1>3. \A c \in Conn, s \in StreamId : Live(c, s) => FdOf(c, s)' = FdOf(c, s)
  BY DEF SameEntries, Live, FdOf
<1>4. \A fd, c, s : OpenFor(fd, c, s) => OpenFor(fd, c, s)'
  BY DEF OpenFor, SameSockets
<1>6. EntriesOpen'
  BY <1>2, <1>3, <1>4 DEF EntriesOpen
<1>8. OneOwner'
  BY <1>2, <1>3 DEF OneOwner
<1>9. WriterHoldsStream'
  BY <1>2 DEF Pollers, WriterHoldsStream, Live, EntriesOpen
<1>12. NoDescriptorLeak'
  BY <1>2, <1>3 DEF NoDescriptorLeak
<1>13. PollKept
  <2> SUFFICES ASSUME NEW w \in Worker, worker[w].at = "poll"
               PROVE  LET t  == worker[w].task
                          fd == streams[t.c][t.s].fd
                      IN  /\ streams'[t.c][t.s] # NoStream
                          /\ streams'[t.c][t.s].fd = fd
                          /\ fdtab'[fd] = fdtab[fd]
    BY DEF PollKept
  <2>1. worker[w].task.c \in Conn /\ worker[w].task.s \in StreamId
    BY TaskType DEF Task
  <2>2. streams[worker[w].task.c][worker[w].task.s] # NoStream
    BY DEF WriterHoldsStream, Live
  <2>. QED  BY <2>1, <2>2 DEF SameEntries
<1>. QED  BY <1>6, <1>8, <1>9, <1>12, <1>13

(* A step that, besides, neither enters nor leaves a handler that owns      *)
(* something.                                                              *)
LEMMA QuietStep ==
  ASSUME TypeOK, Ownership, UNCHANGED <<manager, fdtab>>,
         SameEntries, SameSockets, Pollers, SameIds,
         loop' = loop \/ (loop.at \notin Busy /\ loop'.at \notin Busy)
  PROVE  Ownership' /\ PollKept
<1> USE DEF Ownership
<1>1. watched_sockets' = watched_sockets
  BY DEF watched_sockets
<1>2. \A c \in Conn, s \in StreamId : Live(c, s)' <=> Live(c, s)
  BY DEF SameEntries, Live
<1>5. loop'.at \in Busy => loop' = loop
  OBVIOUS
<1>7. \A fd : Connecting(fd)' <=> Connecting(fd)
  BY <1>5 DEF Connecting, Busy
<1>8. EntriesOpen' /\ OneOwner' /\ WriterHoldsStream' /\ NoDescriptorLeak' /\ PollKept
  <2>1. \A c \in Conn, s \in StreamId : Live(c, s) => c \in watched_sockets'
    BY <1>1 DEF EntriesOpen
  <2>2. loop'.at \in {"connect", "insert"} =>
           /\ loop.at \in {"connect", "insert"}
           /\ loop'.c = loop.c /\ loop'.s = loop.s /\ loop'.fd = loop.fd
           /\ manager'[loop.c] = manager[loop.c]
    BY <1>5 DEF Busy
  <2>. QED  BY <1>7, <2>1, <2>2, KeptStep
<1>10. LoopOwns'
  <2>1. loop \in LoopState
    BY DEF TypeOK
  <2>2. loop.at = "close" => loop.c \in Conn /\ loop.s \in StreamId
    BY <2>1 DEF LoopState
  <2>3. loop.at = "force" => loop.c \in Conn
    BY <2>1 DEF LoopState
  <2>. QED  BY <1>2, <1>5, <2>2, <2>3 DEF LoopOwns, Busy
<1>11. FreshIds'
  <2>1. loop.at \in {"connect", "insert"} => loop.c \in Conn /\ loop.s \in StreamId
    BY DEF TypeOK, LoopState
  <2>. QED  BY <1>2, <1>5, <2>1 DEF FreshIds, SameIds, Busy
<1>. QED  BY <1>8, <1>10, <1>11

(* update_streams only refills buffers. *)
LEMMA UpdateSameEntries ==
  ASSUME TypeOK, NEW c \in Conn, NEW w, NEW hb, update_streams(c, w, hb)
  PROVE  SameEntries
<1> DEFINE refilled == [s \in StreamId |->
              IF s \in Empty(c) THEN [streams[c][s] EXCEPT !.buffer = BUFFER_COUNT]
              ELSE streams[c][s]]
<1>1. UNCHANGED streams \/ streams' = [streams EXCEPT ![c] = refilled]
  BY Zenon DEF update_streams
<1>2. CASE UNCHANGED streams
  BY <1>2 DEF SameEntries
<1>3. CASE streams' = [streams EXCEPT ![c] = refilled]
  <2>1. ASSUME NEW s \in StreamId, streams[c][s] # NoStream
        PROVE  refilled[s] # NoStream /\ refilled[s].fd = streams[c][s].fd
    <3>1. streams[c][s] \in Stream
      BY <2>1 DEF TypeOK
    <3>2. [streams[c][s] EXCEPT !.buffer = BUFFER_COUNT] \in Stream
      BY <3>1, StateAssumption DEF Stream
    <3>3. [streams[c][s] EXCEPT !.buffer = BUFFER_COUNT].fd = streams[c][s].fd
      BY <3>1 DEF Stream
    <3>. QED  BY <2>1, <3>2, <3>3, NoStreamAssumption
  <2>2. ASSUME NEW s \in StreamId, streams[c][s] = NoStream
        PROVE  refilled[s] = NoStream
    BY <2>2 DEF Empty, Live
  <2>3. streams'[c] = refilled /\ \A d \in Conn : d # c => streams'[d] = streams[d]
    BY <1>3 DEF TypeOK
  <2>. HIDE DEF refilled
  <2>. QED  BY <2>1, <2>2, <2>3 DEF SameEntries
<1>. QED  BY <1>1, <1>2, <1>3

(* handle_data only charges a buffer. *)
LEMMA ChargeSameEntries ==
  ASSUME TypeOK, NEW c \in Conn, NEW s \in StreamId, Live(c, s), charge(c, s)
  PROVE  SameEntries
<1> DEFINE left == (streams[c][s].buffer + U32 - 1) % U32
<1>1. \/ UNCHANGED streams
      \/ \E n \in {left, BUFFER_COUNT} : streams' = [streams EXCEPT ![c][s].buffer = n]
  BY Zenon DEF charge
<1>2. left \in 0 .. U32 - 1 /\ BUFFER_COUNT \in 0 .. U32 - 1
  <2>1. streams[c][s] \in Stream
    BY DEF TypeOK, Live
  <2>2. streams[c][s].buffer + U32 - 1 \in Int /\ U32 \in Nat /\ U32 > 0
    BY <2>1, StateAssumption DEF Stream
  <2>. QED  BY <2>2, StateAssumption
<1> HIDE DEF left
<1>3. CASE UNCHANGED streams
  BY <1>3 DEF SameEntries
<1>4. ASSUME NEW n \in 0 .. U32 - 1, streams' = [streams EXCEPT ![c][s].buffer = n]
      PROVE  SameEntries
  <2>1. streams[c][s] \in Stream
    BY DEF TypeOK, Live
  <2>2. streams'[c][s] = [streams[c][s] EXCEPT !.buffer = n]
    BY <1>4 DEF TypeOK
  <2>3. streams'[c][s] \in Stream /\ streams'[c][s].fd = streams[c][s].fd
    BY <2>1, <2>2 DEF Stream
  <2>4. ASSUME NEW d \in Conn, NEW t \in StreamId, d # c \/ t # s
        PROVE  streams'[d][t] = streams[d][t]
    BY <1>4, <2>4 DEF TypeOK
  <2>. QED  BY <2>1, <2>3, <2>4, NoStreamAssumption DEF SameEntries
<1>. QED  BY <1>1, <1>2, <1>3, <1>4

(* What a step does not mention stays. *)
LEMMA Unmoved ==
  /\ UNCHANGED streams => SameEntries
  /\ UNCHANGED sock => SameSockets
  /\ UNCHANGED client => SameIds
BY DEF SameEntries, SameSockets, SameIds

(* A step that changes what a socket holds keeps whose it is. *)
LEMMA OneSocketMoves ==
  ASSUME TypeOK, NEW k, NEW v, sock' = [sock EXCEPT ![k] = v],
         k \in DOMAIN sock => v.c = sock[k].c /\ v.s = sock[k].s
  PROVE  SameSockets
BY DEF SameSockets, TypeOK

(* A read() of the watcher only takes from what is unread. *)
LEMMA ReadSameSockets ==
  ASSUME TypeOK, NEW k, ReadChunk(k) \/ ReadEnd(k)
  PROVE  SameSockets
<1> DEFINE v == [sock[k] EXCEPT !.inq = Tail(@)]
<1>1. UNCHANGED sock \/ sock' = [sock EXCEPT ![k] = v]
  BY Zenon DEF ReadChunk, ReadEnd
<1>2. k \in DOMAIN sock => v.c = sock[k].c /\ v.s = sock[k].s
  <2>1. ASSUME NEW j \in DOMAIN sock PROVE sock[j] \in Socket
    BY DEF TypeOK
  <2>. QED  BY <2>1 DEF Socket
<1> HIDE DEF v
<1>. QED  BY <1>1, <1>2, Unmoved, OneSocketMoves

(* A pool thread may enter poll() with an entry. *)
LEMMA OneWorkerMoves ==
  ASSUME TypeOK, WriterHoldsStream, NEW w \in Worker, NEW v,
         worker' = [worker EXCEPT ![w] = v],
         v.at = "poll" => /\ v.task.c \in Conn /\ v.task.s \in StreamId
                          /\ Live(v.task.c, v.task.s)
  PROVE  Pollers
<1>1. ASSUME NEW x \in Worker, worker[x].at = "poll"
      PROVE  /\ worker[x].task.c \in Conn /\ worker[x].task.s \in StreamId
             /\ Live(worker[x].task.c, worker[x].task.s)
  BY <1>1, TaskType DEF WriterHoldsStream, Task
<1>2. \A x \in Worker : worker'[x] = IF x = w THEN v ELSE worker[x]
  BY DEF TypeOK
<1>. QED  BY <1>1, <1>2 DEF Pollers, Live

----------------------------------------------------------------------------
(* One lemma per thread or callback.                                       *)

(* The watcher thread reads sockets and owns nothing. *)
LEMMA WatcherKeeps ==
  ASSUME TypeOK, Ownership, WatcherStep
  PROVE  Ownership' /\ PollKept
<1> USE DEF mgrVars, deferVars, kernelVars, poolVars, netVars
<1>1. UNCHANGED <<manager, streams, client, worker, loop, fdtab>>
  BY Zenon DEF WatcherStep, WatchWait, WatchWake, WatchEvent, WatchRead,
               WatchReadReturns, WatchErase, WatchCount, WatchDefer
<1>2. SameSockets
  <2>1. UNCHANGED sock \/ \E k : ReadChunk(k) \/ ReadEnd(k)
    BY Zenon DEF WatcherStep, WatchWait, WatchWake, WatchEvent, WatchRead,
                 WatchReadReturns, WatchErase, WatchCount, WatchDefer
  <2>. QED  BY <2>1, Unmoved, ReadSameSockets
<1>3. Pollers
  BY <1>1, OldPollers DEF Ownership
<1>. QED  BY <1>1, <1>2, <1>3, Unmoved, QuietStep

(* A pool thread reaches poll() only with an entry, and only writes. *)
LEMMA WorkerKeeps ==
  ASSUME TypeOK, Ownership, NEW w \in Worker, WorkerStep(w)
  PROVE  Ownership' /\ PollKept
<1> USE DEF mgrVars, deferVars, kernelVars, poolVars, netVars
<1>1. UNCHANGED <<manager, streams, client, loop, fdtab>>
  BY Zenon DEF WorkerStep, WorkerPop, WorkerLock, WorkerNoStream, WorkerNoManager,
               WorkerWrite, WorkerSigpipe
<1>2. SameSockets
  <2>1. CASE UNCHANGED sock
    BY <2>1, Unmoved
  <2>2. CASE WorkerWrite(w)
    <3> DEFINE k == fdtab[streams[worker[w].task.c][worker[w].task.s].fd]
               v == [sock[k] EXCEPT !.rx = Append(@, worker[w].task)]
    <3>1. UNCHANGED sock \/ sock' = [sock EXCEPT ![k] = v]
      BY <2>2, Zenon DEF WorkerWrite
    <3>2. k \in DOMAIN sock => v.c = sock[k].c /\ v.s = sock[k].s
      <4>1. ASSUME NEW j \in DOMAIN sock PROVE sock[j] \in Socket
        BY DEF TypeOK
      <4>. QED  BY <4>1 DEF Socket
    <3> HIDE DEF k, v
    <3>. QED  BY <3>1, <3>2, Unmoved, OneSocketMoves
  <2>3. UNCHANGED sock \/ WorkerWrite(w)
    BY Zenon DEF WorkerStep, WorkerPop, WorkerLock, WorkerNoStream, WorkerNoManager,
                 WorkerWrite, WorkerSigpipe
  <2>. QED  BY <2>1, <2>2, <2>3
<1>3. Pollers
  <2>1. \/ UNCHANGED worker
        \/ worker' = [worker EXCEPT ![w] = [at |-> "start", task |-> Head(tasks)]]
        \/ worker' = [worker EXCEPT ![w] = [at |-> "hung"]]
        \/ worker' = [worker EXCEPT ![w] = [at |-> "idle"]]
        \/ WorkerLock(w)
    BY Zenon DEF WorkerStep, WorkerPop, WorkerNoStream, WorkerNoManager,
                 WorkerWrite, WorkerSigpipe, Idle
  <2>2. CASE WorkerLock(w)
    <3>1. worker[w].at = "start"
      BY <2>2 DEF WorkerLock
    <3>2. worker[w].task.c \in Conn /\ worker[w].task.s \in StreamId
      BY <3>1, TaskType DEF Task
    <3> DEFINE v == [worker[w] EXCEPT !.at = "poll"]
    <3>3. worker' = [worker EXCEPT ![w] = v]
      BY <2>2, Zenon DEF WorkerLock
    <3>4. v.task = worker[w].task
      BY <3>1 DEF TypeOK, WorkerState
    <3>5. Live(worker[w].task.c, worker[w].task.s)
      BY <2>2 DEF WorkerLock
    <3> HIDE DEF v
    <3>. QED  BY <3>2, <3>3, <3>4, <3>5, OneWorkerMoves DEF Ownership
  <2>. QED  BY <2>1, <2>2, OldPollers, OneWorkerMoves DEF Ownership
<1>. QED  BY <1>1, <1>2, <1>3, Unmoved, QuietStep

(* What a client sends, other than CONNECT, and what it receives. *)
LEMMA RecvDataKeeps ==
  ASSUME TypeOK, Ownership, NEW c \in Conn, NEW s \in StreamId, RecvData(c, s)
  PROVE  Ownership' /\ PollKept
<1> USE DEF mgrVars, deferVars, kernelVars, poolVars, netVars
<1>1. UNCHANGED <<manager, worker, loop, fdtab, sock>>
  BY Zenon DEF RecvData
<1>2. SameEntries
  <2>1. UNCHANGED streams \/ (Live(c, s) /\ charge(c, s))
    BY Zenon DEF RecvData, handle_data
  <2>. QED  BY <2>1, Unmoved, ChargeSameEntries
<1>3. SameIds
  <2> DEFINE credit == IF client[c].state[s] = "tcp" /\ client[c].credit[s] > 0
                       THEN client[c].credit[s] - 1 ELSE client[c].credit[s]
             v == [[client[c] EXCEPT !.sent[s] = @ + 1] EXCEPT !.credit[s] = credit]
  <2>1. client' = [client EXCEPT ![c].sent[s] = @ + 1,
                                 ![c].credit[s] = IF client[c].state[s] = "tcp" /\ @ > 0
                                                  THEN @ - 1 ELSE @]
    BY Zenon DEF RecvData
  <2>2. client[c] \in ClientState
    BY DEF TypeOK
  <2>3. client'[c].state = client[c].state
    BY <2>1, <2>2 DEF TypeOK, ClientState
  <2>4. \A d \in Conn : d # c => client'[d] = client[d]
    BY <2>1 DEF TypeOK
  <2>. QED  BY <2>3, <2>4 DEF SameIds
<1>4. Pollers
  BY <1>1, OldPollers DEF Ownership
<1>. QED  BY <1>1, <1>2, <1>3, <1>4, Unmoved, QuietStep

(* PACKET_CLOSE, on which the server does nothing. *)
LEMMA RecvCloseKeeps ==
  ASSUME TypeOK, Ownership, NEW c \in Conn, NEW s \in StreamId, RecvClose(c, s)
  PROVE  Ownership' /\ PollKept
<1> USE DEF mgrVars, deferVars, kernelVars, poolVars, netVars
<1>1. UNCHANGED <<manager, streams, worker, loop, fdtab, sock>>
  BY Zenon DEF RecvClose
<1>3. SameIds
  <2>1. client' = [client EXCEPT ![c].state[s] = "closed"]
    BY Zenon DEF RecvClose
  <2>2. client[c] \in ClientState
    BY DEF TypeOK
  <2>3. client'[c].state = [client[c].state EXCEPT ![s] = "closed"]
    BY <2>1, <2>2 DEF TypeOK, ClientState
  <2>4. \A d \in Conn : d # c => client'[d] = client[d]
    BY <2>1 DEF TypeOK
  <2>5. client[c].state \in [StreamId -> StreamType \cup {"unused", "closed"}]
    BY <2>2 DEF ClientState
  <2>. QED  BY <2>3, <2>4, <2>5 DEF SameIds
<1>4. Pollers
  BY <1>1, OldPollers DEF Ownership
<1>. QED  BY <1>1, <1>3, <1>4, Unmoved, QuietStep

(* The client takes a packet. *)
LEMMA ReceiveKeeps ==
  ASSUME TypeOK, Ownership, NEW c \in Conn, ClientReceive(c)
  PROVE  Ownership' /\ PollKept
<1> USE DEF mgrVars, deferVars, kernelVars, poolVars, netVars
<1>1. UNCHANGED <<manager, streams, worker, loop, fdtab, sock>>
  BY Zenon DEF ClientReceive
<1>2. SameIds
  <2> DEFINE p == Head(ws[c].out)
             v == CASE p.type = "CONTINUE" -> [client[c] EXCEPT !.credit[p.stream] = p.buffer]
                    [] p.type = "CLOSE"    -> [client[c] EXCEPT !.state[p.stream] = "closed"]
                    [] p.type = "DATA"     -> [client[c] EXCEPT !.got[p.stream] = @ \o p.data]
  <2>1. client' = [client EXCEPT ![c] = v]
    BY Zenon DEF ClientReceive
  <2>2. client[c] \in ClientState
    BY DEF TypeOK
  <2>3. p \in Packet
    <3>1. ws[c] \in [out : Seq(Packet), backlog : Nat]
      BY DEF TypeOK
    <3>2. Len(ws[c].out) > ws[c].backlog
      BY Zenon DEF ClientReceive
    <3>. QED  BY <3>1, <3>2
  <2>4. p.type \in {"CONTINUE", "CLOSE", "DATA"}
    BY <2>3 DEF Packet
  <2>5. p.type = "CLOSE" => p.stream \in StreamId
    BY <2>3 DEF Packet
  <2> HIDE DEF p
  <2>6. CASE p.type = "CONTINUE"
    <3>1. v = [client[c] EXCEPT !.credit[p.stream] = p.buffer]
      BY <2>6
    <3>2. v.state = client[c].state
      BY <2>2, <3>1 DEF ClientState
    <3>. HIDE DEF v
    <3>. QED  BY <2>1, <3>2 DEF TypeOK, SameIds
  <2>7. CASE p.type = "CLOSE"
    <3>1. v = [client[c] EXCEPT !.state[p.stream] = "closed"]
      BY <2>7
    <3>2. v.state = [client[c].state EXCEPT ![p.stream] = "closed"]
      BY <2>2, <3>1 DEF ClientState
    <3>3. client[c].state \in [StreamId -> StreamType \cup {"unused", "closed"}]
      BY <2>2 DEF ClientState
    <3>. HIDE DEF v
    <3>. QED  BY <2>1, <3>2, <3>3 DEF TypeOK, SameIds
  <2>8. CASE p.type = "DATA"
    <3>1. v = [client[c] EXCEPT !.got[p.stream] = @ \o p.data]
      BY <2>8
    <3>2. v.state = client[c].state
      BY <2>2, <3>1 DEF ClientState
    <3>. HIDE DEF v
    <3>. QED  BY <2>1, <3>2 DEF TypeOK, SameIds
  <2>. QED  BY <2>4, <2>6, <2>7, <2>8
<1>3. Pollers
  BY <1>1, OldPollers DEF Ownership
<1>. QED  BY <1>1, <1>2, <1>3, Unmoved, QuietStep

(* The targets. *)
LEMMA TargetKeeps ==
  ASSUME TypeOK, Ownership, NEW k \in DOMAIN sock, TargetSend(k) \/ TargetClose(k)
  PROVE  Ownership' /\ PollKept
<1> USE DEF mgrVars, deferVars, kernelVars, poolVars, netVars
<1>1. UNCHANGED <<manager, streams, client, worker, loop, fdtab>>
  BY Zenon DEF TargetSend, TargetClose
<1>2. SameSockets
  <2>1. sock[k] \in Socket
    BY DEF TypeOK
  <2>2. CASE TargetSend(k)
    <3> DEFINE v == [[sock[k] EXCEPT !.sent = @ + 1] EXCEPT !.inq = Append(@, sock[k].sent + 1)]
    <3>1. v.c = sock[k].c /\ v.s = sock[k].s
      BY <2>1 DEF Socket
    <3>2. sock' = [sock EXCEPT ![k] = v]
      BY <2>1, <2>2 DEF TargetSend, TypeOK, Socket
    <3> HIDE DEF v
    <3>. QED  BY <3>1, <3>2, OneSocketMoves
  <2>3. CASE TargetClose(k)
    <3> DEFINE v == [sock[k] EXCEPT !.eof = TRUE]
    <3>1. v.c = sock[k].c /\ v.s = sock[k].s
      BY <2>1 DEF Socket
    <3>2. sock' = [sock EXCEPT ![k] = v]
      BY <2>3, Zenon DEF TargetClose
    <3> HIDE DEF v
    <3>. QED  BY <3>1, <3>2, OneSocketMoves
  <2>. QED  BY <2>2, <2>3
<1>3. Pollers
  BY <1>1, OldPollers DEF Ownership
<1>. QED  BY <1>1, <1>2, <1>3, Unmoved, QuietStep

(* Refills: the drain callback, the end of a deferred lambda, and wake(). *)
LEMMA DrainKeeps ==
  ASSUME TypeOK, Ownership, NEW c \in Conn, Drain(c)
  PROVE  Ownership' /\ PollKept
<1> USE DEF mgrVars, deferVars, kernelVars, poolVars, netVars
<1>1. UNCHANGED <<manager, client, worker, fdtab, sock>>
  BY Zenon DEF Drain
<1>2. SameEntries
  BY UpdateSameEntries DEF Drain
<1>3. loop.at \notin Busy /\ loop'.at \notin Busy
  BY DEF Drain, Busy
<1>4. Pollers
  BY <1>1, OldPollers DEF Ownership
<1>. QED  BY <1>1, <1>2, <1>3, <1>4, Unmoved, QuietStep

(* The refills at the end of a lambda. *)
LEMMA UpdateKeeps ==
  ASSUME TypeOK, Ownership, UpdateNext
  PROVE  Ownership' /\ PollKept
<1> USE DEF mgrVars, deferVars, kernelVars, poolVars, netVars
<1>1. UNCHANGED <<manager, client, worker, fdtab, sock>>
  BY Zenon DEF UpdateNext
<1>2. loop.at = "update" /\ loop \in LoopState
  BY DEF UpdateNext, TypeOK
<1>3. PICK c \in loop.todo :
         /\ update_streams(c, ws[c], has_backpressure[c])
         /\ loop' = IF loop.todo = {c} THEN Idle ELSE [loop EXCEPT !.todo = @ \ {c}]
  BY Zenon DEF UpdateNext
<1>4. SameEntries
  <2>1. c \in Conn
    BY <1>2, <1>3 DEF LoopState
  <2>. QED  BY <1>3, <2>1, UpdateSameEntries
<1>5. loop'.at \in {"idle", "update"}
  BY <1>2, <1>3 DEF Idle, LoopState
<1>6. Pollers
  BY <1>1, OldPollers DEF Ownership
<1>. QED  BY <1>1, <1>2, <1>4, <1>5, <1>6, Unmoved, QuietStep DEF Busy

(* epoll.wake(). *)
LEMMA WakeKeeps ==
  ASSUME TypeOK, Ownership, Wake
  PROVE  Ownership' /\ PollKept
<1> USE DEF mgrVars, deferVars, kernelVars, poolVars, netVars
<1>1. UNCHANGED <<manager, streams, client, worker, fdtab, sock>>
  BY Zenon DEF Wake
<1>2. loop.at \notin Busy /\ loop'.at \notin Busy
  BY DEF Wake, Busy, Idle
<1>3. Pollers
  BY <1>1, OldPollers DEF Ownership
<1>. QED  BY <1>1, <1>2, <1>3, Unmoved, QuietStep

(* The lambda's second look at send_queue_len. *)
LEMMA FinishKeeps ==
  ASSUME TypeOK, Ownership, Finish
  PROVE  Ownership' /\ PollKept
<1> USE DEF mgrVars, deferVars, kernelVars, poolVars, netVars
<1>1. UNCHANGED <<manager, streams, client, worker, fdtab, sock>>
  BY Zenon DEF Finish
<1>2. loop.at \notin Busy /\ loop'.at \notin Busy
  BY DEF Finish, Busy, Idle
<1>3. Pollers
  BY <1>1, OldPollers DEF Ownership
<1>. QED  BY <1>1, <1>2, <1>3, Unmoved, QuietStep

----------------------------------------------------------------------------
(* The steps that move an owner.                                           *)

(* The open callback: the new manager has no streams. *)
LEMMA OpenKeeps ==
  ASSUME TypeOK, Ownership, NEW c \in Conn, Open(c)
  PROVE  Ownership' /\ PollKept
<1> USE DEF mgrVars, deferVars, kernelVars, poolVars, netVars
<1>1. UNCHANGED <<streams, client, worker, loop, fdtab, sock>>
  BY Zenon DEF Open, Construct
<1>2. manager[c] = "none" /\ manager' = [manager EXCEPT ![c] = "open"] /\ loop.at = "idle"
  BY Zenon DEF Open, Construct
<1>3. \A s \in StreamId : ~Live(c, s)
  BY <1>2 DEF Ownership, EntriesOpen, watched_sockets
<1>4. \A d \in Conn, s \in StreamId : Live(d, s) => d \in watched_sockets'
  BY <1>2, <1>3 DEF Ownership, EntriesOpen, watched_sockets, TypeOK
<1>5. Pollers
  BY <1>1, OldPollers DEF Ownership
<1>6. EntriesOpen' /\ OneOwner' /\ WriterHoldsStream' /\ NoDescriptorLeak' /\ PollKept
  <2>1. \A fd : Connecting(fd)' <=> Connecting(fd)
    BY <1>1 DEF Connecting
  <2>. QED  BY <1>1, <1>2, <1>4, <1>5, <2>1, Unmoved, KeptStep
<1>7. LoopOwns'
  BY <1>1, <1>2 DEF LoopOwns
<1>8. FreshIds'
  BY <1>1, <1>2, <1>3 DEF FreshIds, Ownership, Live, TypeOK
<1>. QED  BY <1>6, <1>7, <1>8 DEF Ownership

(* The close callback: force_close takes over every stream of the manager. *)
LEMMA WsClosedKeeps ==
  ASSUME TypeOK, Ownership, NEW c \in Conn, WsClosed(c)
  PROVE  Ownership' /\ PollKept
<1> USE DEF mgrVars, deferVars, kernelVars, poolVars, netVars
<1>1. UNCHANGED <<streams, worker, fdtab, sock>>
  BY Zenon DEF WsClosed
<1>2. /\ manager[c] = "open" /\ manager' = [manager EXCEPT ![c] = "closing"]
      /\ loop.at = "idle"
      /\ loop' = [at |-> "force", c |-> c, todo |-> {s \in StreamId : Live(c, s)}]
      /\ client' = [client EXCEPT ![c] = InitClient]
  BY Zenon DEF WsClosed
<1>3. manager'[c] = "closing" /\ \A d \in Conn : d # c => manager'[d] = manager[d]
  BY <1>2 DEF TypeOK
<1>4. \A d \in Conn, s \in StreamId : Live(d, s) => d \in watched_sockets'
  BY <1>3 DEF Ownership, EntriesOpen, watched_sockets
<1>5. Pollers
  BY <1>1, OldPollers DEF Ownership
<1>6. EntriesOpen' /\ OneOwner' /\ WriterHoldsStream' /\ NoDescriptorLeak' /\ PollKept
  <2>1. \A fd : Connecting(fd)' <=> Connecting(fd)
    BY <1>2 DEF Connecting
  <2>. QED  BY <1>1, <1>2, <1>4, <1>5, <2>1, Unmoved, KeptStep
<1>7. LoopOwns'
  BY <1>1, <1>2, <1>3 DEF LoopOwns, Live
<1>8. FreshIds'
  BY <1>1, <1>2, <1>3 DEF FreshIds, Ownership, Live, TypeOK
<1>. QED  BY <1>6, <1>7, <1>8 DEF Ownership

(* delete manager: force_close has left no stream in it. *)
LEMMA DestructKeeps ==
  ASSUME TypeOK, Ownership, Destruct
  PROVE  Ownership' /\ PollKept
<1> USE DEF mgrVars, deferVars, kernelVars, poolVars, netVars
<1>1. UNCHANGED <<streams, client, worker, fdtab, sock>>
  BY Zenon DEF Destruct
<1>2. /\ loop.at = "force" /\ loop.todo = {} /\ loop' = [at |-> "idle"]
      /\ manager' = [manager EXCEPT ![loop.c] = "deleted"]
  BY Zenon DEF Destruct, Idle
<1>3. loop.c \in Conn
  BY <1>2 DEF TypeOK, LoopState
<1>4. manager'[loop.c] = "deleted" /\ \A d \in Conn : d # loop.c => manager'[d] = manager[d]
  BY <1>2, <1>3 DEF TypeOK
<1>5. \A s \in StreamId : ~Live(loop.c, s)
  BY <1>2 DEF Ownership, LoopOwns
<1>6. \A d \in Conn, s \in StreamId : Live(d, s) => d \in watched_sockets'
  BY <1>4, <1>5 DEF Ownership, EntriesOpen, watched_sockets
<1>7. Pollers
  BY <1>1, OldPollers DEF Ownership
<1>8. EntriesOpen' /\ OneOwner' /\ WriterHoldsStream' /\ NoDescriptorLeak' /\ PollKept
  <2>1. \A fd : Connecting(fd)' <=> Connecting(fd)
    BY <1>2 DEF Connecting
  <2>. QED  BY <1>1, <1>2, <1>6, <1>7, <2>1, Unmoved, KeptStep
<1>9. LoopOwns'
  BY <1>2 DEF LoopOwns
<1>10. FreshIds'
  BY <1>1, <1>2, <1>4 DEF FreshIds, Ownership, Live
<1>. QED  BY <1>8, <1>9, <1>10 DEF Ownership

(* The lambda found its stream, which it may have to close. *)
LEMMA RunDeferredKeeps ==
  ASSUME TypeOK, Ownership, RunDeferred
  PROVE  Ownership' /\ PollKept
<1> USE DEF mgrVars, deferVars, kernelVars, poolVars, netVars
<1>1. UNCHANGED <<manager, streams, client, worker, fdtab, sock>>
  BY Zenon DEF RunDeferred
<1>2. loop.at = "idle"
  BY Zenon DEF RunDeferred
<1>3. Pollers
  BY <1>1, OldPollers DEF Ownership
<1>4. \/ Uncount
      \/ \E o \in Owners(Head(deferred).fd) :
           loop' = [at |-> "close", c |-> o[1], s |-> o[2]]
  BY Zenon DEF RunDeferred
<1>5. CASE Uncount
  <2>1. loop'.at = "finish"
    BY <1>5 DEF Uncount
  <2>. QED  BY <1>1, <1>2, <1>3, <2>1, Unmoved, QuietStep DEF Busy
<1>6. ASSUME NEW o \in Owners(Head(deferred).fd),
             loop' = [at |-> "close", c |-> o[1], s |-> o[2]]
      PROVE  Ownership' /\ PollKept
  <2>1. o[1] \in Conn /\ o[2] \in StreamId /\ Live(o[1], o[2])
    BY DEF Owners, watched_sockets
  <2>2. EntriesOpen' /\ OneOwner' /\ WriterHoldsStream' /\ NoDescriptorLeak' /\ PollKept
    <3>1. \A fd : Connecting(fd)' <=> Connecting(fd)
      BY <1>2, <1>6 DEF Connecting
    <3>2. \A d \in Conn, s \in StreamId : Live(d, s) => d \in watched_sockets'
      BY <1>1 DEF Ownership, EntriesOpen, watched_sockets
    <3>. QED  BY <1>1, <1>3, <1>6, <3>1, <3>2, Unmoved, KeptStep
  <2>3. LoopOwns'
    BY <1>1, <1>6, <2>1 DEF LoopOwns, Live
  <2>4. FreshIds'
    BY <1>1, <1>6 DEF FreshIds, Ownership, Live
  <2>. QED  BY <2>2, <2>3, <2>4 DEF Ownership
<1>. QED  BY <1>4, <1>5, <1>6

(* connect() succeeded: the descriptor stays in handle_connect's hands. *)
LEMMA ConnectSucceedsKeeps ==
  ASSUME TypeOK, Ownership, ConnectSucceeds
  PROVE  Ownership' /\ PollKept
<1> USE DEF mgrVars, deferVars, kernelVars, poolVars, netVars
<1>1. UNCHANGED <<manager, streams, client, worker, fdtab, sock>>
  BY Zenon DEF ConnectSucceeds
<1>2. loop.at = "connect" /\ loop' = [loop EXCEPT !.at = "insert"]
  BY Zenon DEF ConnectSucceeds
<1>3. loop'.at = "insert" /\ loop'.c = loop.c /\ loop'.s = loop.s /\ loop'.fd = loop.fd
  BY <1>2 DEF TypeOK, LoopState
<1>4. Pollers
  BY <1>1, OldPollers DEF Ownership
<1>5. EntriesOpen' /\ OneOwner' /\ WriterHoldsStream' /\ NoDescriptorLeak' /\ PollKept
  <2>1. \A fd : Connecting(fd)' <=> Connecting(fd)
    BY <1>2, <1>3 DEF Connecting
  <2>2. \A d \in Conn, s \in StreamId : Live(d, s) => d \in watched_sockets'
    BY <1>1 DEF Ownership, EntriesOpen, watched_sockets
  <2>. QED  BY <1>1, <1>2, <1>3, <1>4, <2>1, <2>2, Unmoved, KeptStep
<1>6. LoopOwns'
  BY <1>3 DEF LoopOwns
<1>7. FreshIds'
  BY <1>1, <1>2, <1>3 DEF FreshIds, Ownership, Live
<1>. QED  BY <1>5, <1>6, <1>7 DEF Ownership

(* close_stream takes one entry and its descriptor away.  No write task is *)
(* inside the manager, and no other entry has the number.                  *)
LEMMA CloseStreamKeeps ==
  ASSUME TypeOK, Ownership, NEW c \in Conn, NEW s \in StreamId,
         Live(c, s), close_stream(c, s), UNCHANGED <<manager, worker>>,
         loop.at \notin {"connect", "insert"}, loop'.at \notin {"connect", "insert"}
  PROVE  /\ EntriesOpen' /\ OneOwner' /\ WriterHoldsStream' /\ NoDescriptorLeak' /\ PollKept
         /\ \A d \in Conn, u \in StreamId : Live(d, u)' <=> Live(d, u) /\ ~(d = c /\ u = s)
<1> DEFINE fd == FdOf(c, s)
<1>1. fd \in Fd
  BY DEF Live, FdOf, TypeOK, Stream
<1>2. /\ streams' = [streams EXCEPT ![c][s] = NoStream]
      /\ fdtab' = [fdtab EXCEPT ![fd] = 0]
      /\ NoReader(c)
  BY Zenon DEF close_stream, CloseFd, FdOf
<1>3. \A d \in Conn, u \in StreamId :
        streams'[d][u] = IF d = c /\ u = s THEN NoStream ELSE streams[d][u]
  BY <1>2 DEF TypeOK
<1>4. \A f \in Fd : fdtab'[f] = IF f = fd THEN 0 ELSE fdtab[f]
  BY <1>1, <1>2 DEF TypeOK
<1>5. \A d \in Conn, u \in StreamId : Live(d, u)' <=> Live(d, u) /\ ~(d = c /\ u = s)
  BY <1>3 DEF Live
<1>6. \A d \in Conn, u \in StreamId :
        Live(d, u)' => Live(d, u) /\ FdOf(d, u)' = FdOf(d, u) /\ FdOf(d, u) # fd
                       /\ FdOf(d, u) \in Fd
  <2>1. \A d \in Conn, u \in StreamId : Live(d, u)' => Live(d, u) /\ FdOf(d, u)' = FdOf(d, u)
    BY <1>3, <1>5 DEF FdOf
  <2>2. \A d \in Conn, u \in StreamId : Live(d, u)' => FdOf(d, u) # fd
    BY <1>5 DEF Ownership, OneOwner
  <2>3. \A d \in Conn, u \in StreamId : Live(d, u) => FdOf(d, u) \in Fd
    BY DEF Live, FdOf, TypeOK, Stream
  <2>. QED  BY <2>1, <2>2, <2>3
<1>7. SameSockets
  <2>1. UNCHANGED sock
    BY Zenon DEF close_stream, CloseFd
  <2>. QED  BY <2>1, Unmoved
<1> HIDE DEF fd
<1>8. EntriesOpen'
  <2>1. watched_sockets' = watched_sockets
    BY DEF watched_sockets
  <2>2. ASSUME NEW d \in Conn, NEW u \in StreamId, Live(d, u)'
        PROVE  OpenFor(FdOf(d, u), d, u)'
    <3>1. OpenFor(FdOf(d, u), d, u)
      BY <1>6, <2>2 DEF Ownership, EntriesOpen
    <3>2. fdtab'[FdOf(d, u)'] = fdtab[FdOf(d, u)]
      BY <1>4, <1>6, <2>2
    <3>. QED  BY <1>7, <3>1, <3>2 DEF OpenFor, SameSockets
  <2>. QED  BY <1>5, <2>1, <2>2 DEF Ownership, EntriesOpen
<1>9. OneOwner'
  BY <1>6 DEF Ownership, OneOwner, Connecting
<1>10. ASSUME NEW w \in Worker, worker[w].at = "poll"
       PROVE  /\ worker[w].task.c \in Conn /\ worker[w].task.s \in StreamId
              /\ worker[w].task.c # c /\ worker[w].task.c \in watched_sockets
              /\ Live(worker[w].task.c, worker[w].task.s)
  BY <1>2, <1>10, TaskType DEF Ownership, WriterHoldsStream, NoReader, Task
<1>11. WriterHoldsStream'
  <2>1. watched_sockets' = watched_sockets
    BY DEF watched_sockets
  <2>. QED  BY <1>5, <1>10, <2>1 DEF WriterHoldsStream
<1>12. NoDescriptorLeak'
  <2> SUFFICES ASSUME Conforming, NEW f \in Fd, fdtab'[f] # 0
               PROVE  \E d \in Conn, u \in StreamId : Live(d, u)' /\ FdOf(d, u)' = f
    BY DEF NoDescriptorLeak
  <2>1. f # fd /\ fdtab[f] # 0
    BY <1>4
  <2>2. PICK d \in Conn, u \in StreamId : Live(d, u) /\ FdOf(d, u) = f
    BY <2>1 DEF Ownership, NoDescriptorLeak, Connecting
  <2>3. ~(d = c /\ u = s)
    BY <2>1, <2>2 DEF fd
  <2>. QED  BY <1>5, <1>6, <2>2, <2>3
<1>13. PollKept
  <2> SUFFICES ASSUME NEW w \in Worker, worker[w].at = "poll"
               PROVE  LET t == worker[w].task
                          f == streams[t.c][t.s].fd
                      IN  /\ streams'[t.c][t.s] # NoStream
                          /\ streams'[t.c][t.s].fd = f
                          /\ fdtab'[f] = fdtab[f]
    BY DEF PollKept
  <2> DEFINE d == worker[w].task.c
             u == worker[w].task.s
  <2>1. d \in Conn /\ u \in StreamId /\ d # c /\ Live(d, u)
    BY <1>10
  <2>2. streams'[d][u] = streams[d][u]
    BY <1>3, <2>1
  <2>3. FdOf(d, u) \in Fd /\ FdOf(d, u) # fd
    BY <1>5, <1>6, <2>1
  <2>4. fdtab'[FdOf(d, u)] = fdtab[FdOf(d, u)]
    BY <1>4, <2>3
  <2>. QED  BY <2>1, <2>2, <2>4 DEF FdOf, Live
<1>. QED  BY <1>5, <1>8, <1>9, <1>11, <1>12, <1>13

(* The lambda's close_stream. *)
LEMMA DeferredCloseKeeps ==
  ASSUME TypeOK, Ownership, DeferredClose
  PROVE  Ownership' /\ PollKept
<1> USE DEF mgrVars, deferVars, kernelVars, poolVars, netVars
<1>1. UNCHANGED <<manager, client, worker>>
  BY Zenon DEF DeferredClose
<1>2. loop.at = "close" /\ close_stream(loop.c, loop.s) /\ Uncount
  BY Zenon DEF DeferredClose
<1>3. loop.c \in Conn /\ loop.s \in StreamId
  BY <1>2 DEF TypeOK, LoopState
<1>4. Live(loop.c, loop.s)
  BY <1>2 DEF Ownership, LoopOwns
<1>5. loop'.at = "finish"
  BY <1>2 DEF Uncount
<1>6. /\ EntriesOpen' /\ OneOwner' /\ WriterHoldsStream' /\ NoDescriptorLeak' /\ PollKept
      /\ \A d \in Conn, u \in StreamId : Live(d, u)' => Live(d, u)
  BY <1>1, <1>2, <1>3, <1>4, <1>5, CloseStreamKeeps
<1>7. LoopOwns'
  BY <1>5 DEF LoopOwns
<1>8. FreshIds'
  BY <1>1, <1>5, <1>6 DEF FreshIds, Ownership
<1>. QED  BY <1>6, <1>7, <1>8 DEF Ownership

(* One turn of force_close. *)
LEMMA ForceCloseKeeps ==
  ASSUME TypeOK, Ownership, ForceClose
  PROVE  Ownership' /\ PollKept
<1> USE DEF mgrVars, deferVars, kernelVars, poolVars, netVars
<1>1. UNCHANGED <<manager, client, worker>> /\ loop.at = "force"
  BY Zenon DEF ForceClose
<1>2. PICK s \in loop.todo : close_stream(loop.c, s) /\ loop' = [loop EXCEPT !.todo = @ \ {s}]
  BY Zenon DEF ForceClose
<1>3. loop.c \in Conn /\ s \in StreamId
  BY <1>1, <1>2 DEF TypeOK, LoopState
<1>4. Live(loop.c, s) /\ manager[loop.c] = "closing"
  BY <1>1, <1>2, <1>3 DEF Ownership, LoopOwns
<1>5. loop'.at = "force" /\ loop'.c = loop.c /\ loop'.todo = loop.todo \ {s}
  BY <1>1, <1>2 DEF TypeOK, LoopState
<1>6. /\ EntriesOpen' /\ OneOwner' /\ WriterHoldsStream' /\ NoDescriptorLeak' /\ PollKept
      /\ \A d \in Conn, u \in StreamId :
           Live(d, u)' <=> Live(d, u) /\ ~(d = loop.c /\ u = s)
  BY <1>1, <1>2, <1>3, <1>4, <1>5, CloseStreamKeeps
<1>7. LoopOwns'
  <2>1. \A u \in StreamId : Live(loop.c, u) <=> u \in loop.todo
    BY <1>1 DEF Ownership, LoopOwns
  <2>2. \A u \in StreamId : (streams'[loop.c][u] # NoStream) <=> u \in loop.todo \ {s}
    BY <1>3, <1>6, <2>1 DEF Live
  <2>. QED  BY <1>1, <1>4, <1>5, <2>2 DEF LoopOwns, Live
<1>8. FreshIds'
  BY <1>1, <1>5, <1>6 DEF FreshIds, Ownership
<1>. QED  BY <1>6, <1>7, <1>8 DEF Ownership

(* CONNECT: refused, or a descriptor nobody has goes to handle_connect. *)
LEMMA RecvConnectKeeps ==
  ASSUME TypeOK, Ownership, NEW c \in Conn, NEW s \in StreamId, NEW type \in Asked,
         RecvConnect(c, s, type)
  PROVE  Ownership' /\ PollKept
<1> USE DEF mgrVars, deferVars, kernelVars, poolVars, netVars
<1>1. UNCHANGED <<manager, streams, worker>> /\ loop.at = "idle" /\ manager[c] = "open"
  BY Zenon DEF RecvConnect
<1>2. \A d \in Conn, u \in StreamId :
        client'[d].state[u] = IF d = c /\ u = s THEN type ELSE client[d].state[u]
  <2>1. client' = [client EXCEPT ![c].state[s] = type,
                                 ![c].credit[s] = client[c].credit[0]]
    BY Zenon DEF RecvConnect
  <2>2. client[c] \in ClientState
    BY DEF TypeOK
  <2>3. client'[c].state = [client[c].state EXCEPT ![s] = type]
    BY <2>1, <2>2 DEF TypeOK, ClientState
  <2>4. \A d \in Conn : d # c => client'[d] = client[d]
    BY <2>1 DEF TypeOK
  <2>5. client[c].state \in [StreamId -> StreamType \cup {"unused", "closed"}]
    BY <2>2 DEF ClientState
  <2>. QED  BY <2>3, <2>4, <2>5
<1>3. SameIds
  BY <1>2, StateAssumption DEF SameIds
<1>4. Pollers
  BY <1>1, OldPollers DEF Ownership
<1>5. CASE UNCHANGED <<loop, kernelVars>>
  BY <1>1, <1>3, <1>4, <1>5, Unmoved, QuietStep
<1>6. ASSUME NEW fd \in Fd, fdtab[fd] = 0,
             sock' = Append(sock, [c |-> c, s |-> s, fd |-> fd, sent |-> 0,
                                   inq |-> <<>>, eof |-> FALSE, rx |-> <<>>]),
             fdtab' = [fdtab EXCEPT ![fd] = Len(sock) + 1],
             loop' = [at |-> "connect", c |-> c, s |-> s, type |-> type, fd |-> fd]
      PROVE  Ownership' /\ PollKept
  <2>1. /\ SameSockets
        /\ Len(sock) + 1 \in DOMAIN sock'
        /\ sock'[Len(sock) + 1].c = c /\ sock'[Len(sock) + 1].s = s
    BY <1>6 DEF TypeOK, SameSockets
  <2>2. \A f \in Fd : fdtab'[f] = IF f = fd THEN Len(sock) + 1 ELSE fdtab[f]
    BY <1>6 DEF TypeOK
  <2>3. \A d \in Conn, u \in StreamId : Live(d, u) =>
          /\ FdOf(d, u) \in Fd /\ FdOf(d, u) # fd
          /\ fdtab'[FdOf(d, u)] = fdtab[FdOf(d, u)]
    <3>1. \A d \in Conn, u \in StreamId : Live(d, u) => FdOf(d, u) \in Fd
      BY DEF Live, FdOf, TypeOK, Stream
    <3>2. 0 \notin DOMAIN sock
      BY DEF TypeOK
    <3>3. \A d \in Conn, u \in StreamId : Live(d, u) => FdOf(d, u) # fd
      BY <1>6, <3>2 DEF Ownership, EntriesOpen, OpenFor
    <3>. QED  BY <2>2, <3>1, <3>3
  <2>4. \A d \in Conn, u \in StreamId : (Live(d, u)' <=> Live(d, u)) /\ FdOf(d, u)' = FdOf(d, u)
    BY <1>1 DEF Live, FdOf
  <2>5. EntriesOpen'
    <3>1. watched_sockets' = watched_sockets
      BY <1>1 DEF watched_sockets
    <3>2. ASSUME NEW d \in Conn, NEW u \in StreamId, Live(d, u)
          PROVE  d \in watched_sockets /\ OpenFor(FdOf(d, u), d, u)'
      <4>1. d \in watched_sockets /\ OpenFor(FdOf(d, u), d, u)
        BY <3>2 DEF Ownership, EntriesOpen
      <4>. QED  BY <2>1, <2>3, <2>4, <3>2, <4>1 DEF OpenFor, SameSockets
    <3>3. manager'[loop'.c] = "open" /\ OpenFor(loop.fd, loop.c, loop.s)'
      BY <1>1, <1>6, <2>1, <2>2 DEF OpenFor
    <3>. QED  BY <2>4, <3>1, <3>2, <3>3 DEF EntriesOpen
  <2>6. \A f : Connecting(f)' <=> f = fd
    BY <1>6 DEF Connecting
  <2>7. OneOwner'
    BY <2>3, <2>4, <2>6 DEF Ownership, OneOwner
  <2>8. WriterHoldsStream'
    BY <1>1 DEF Ownership, WriterHoldsStream, Live, watched_sockets
  <2>9. LoopOwns'
    BY <1>6 DEF LoopOwns
  <2>10. FreshIds'
    <3>1. Conforming => ~Live(c, s)
      <4>1. Conforming => client[c].state[s] = "unused"
        BY Zenon DEF RecvConnect
      <4>. QED  BY <1>1, <4>1 DEF Ownership, FreshIds
    <3>2. Conforming => ~Live(loop.c, loop.s)'
      BY <1>1, <1>6, <3>1 DEF Live
    <3>3. Conforming => \A d \in Conn, u \in StreamId :
             manager'[d] = "open" /\ client'[d].state[u] = "unused" => ~Live(d, u)'
      BY <1>1, <1>3, <2>4 DEF SameIds, Ownership, FreshIds
    <3>4. client'[loop'.c].state[loop'.s] # "unused"
      BY <1>2, <1>6, StateAssumption
    <3>. QED  BY <3>2, <3>3, <3>4 DEF FreshIds
  <2>11. NoDescriptorLeak'
    BY <1>1, <2>2, <2>4, <2>6 DEF Ownership, NoDescriptorLeak, Connecting
  <2>12. PollKept
    <3> SUFFICES ASSUME NEW w \in Worker, worker[w].at = "poll"
                 PROVE  LET t == worker[w].task
                            f == streams[t.c][t.s].fd
                        IN  /\ streams'[t.c][t.s] # NoStream
                            /\ streams'[t.c][t.s].fd = f
                            /\ fdtab'[f] = fdtab[f]
      BY DEF PollKept
    <3>1. /\ worker[w].task.c \in Conn /\ worker[w].task.s \in StreamId
          /\ Live(worker[w].task.c, worker[w].task.s)
      BY TaskType DEF Ownership, WriterHoldsStream, Task
    <3>. QED  BY <1>1, <2>3, <3>1 DEF FdOf, Live
  <2>. QED  BY <2>5, <2>7, <2>8, <2>9, <2>10, <2>11, <2>12 DEF Ownership
<1>7. \/ UNCHANGED <<loop, kernelVars>>
      \/ \E fd \in Fd :
           /\ fdtab[fd] = 0
           /\ sock' = Append(sock, [c |-> c, s |-> s, fd |-> fd, sent |-> 0,
                                    inq |-> <<>>, eof |-> FALSE, rx |-> <<>>])
           /\ fdtab' = [fdtab EXCEPT ![fd] = Len(sock) + 1]
           /\ loop' = [at |-> "connect", c |-> c, s |-> s, type |-> type, fd |-> fd]
  BY Zenon DEF RecvConnect, handle_connect
<1>. QED  BY <1>5, <1>6, <1>7

(* connect() failed: handle_connect closes its descriptor, and only that. *)
LEMMA ConnectFailsKeeps ==
  ASSUME TypeOK, Ownership, ConnectFails
  PROVE  Ownership' /\ PollKept
<1> USE DEF mgrVars, deferVars, kernelVars, poolVars, netVars
<1> DEFINE fd == loop.fd
<1>1. UNCHANGED <<manager, streams, client, worker>>
  BY Zenon DEF ConnectFails
<1>2. loop.at = "connect" /\ loop' = [at |-> "idle"] /\ fdtab' = [fdtab EXCEPT ![fd] = 0]
  BY Zenon DEF ConnectFails, Idle
<1>3. SameSockets
  <2> DEFINE k == fdtab[loop.fd]
             v == [sock[k] EXCEPT !.eof = TRUE]
  <2>1. sock' = [sock EXCEPT ![k] = v]
    BY Zenon DEF ConnectFails
  <2>2. k \in DOMAIN sock => v.c = sock[k].c /\ v.s = sock[k].s
    <3>1. ASSUME NEW j \in DOMAIN sock PROVE sock[j] \in Socket
      BY DEF TypeOK
    <3>. QED  BY <3>1 DEF Socket
  <2> HIDE DEF k, v
  <2>. QED  BY <2>1, <2>2, OneSocketMoves
<1>4. fd \in Fd
  BY <1>2 DEF TypeOK, LoopState
<1>5. \A f \in Fd : fdtab'[f] = IF f = fd THEN 0 ELSE fdtab[f]
  BY <1>2, <1>4 DEF TypeOK
<1>6. \A f : Connecting(f) <=> f = fd
  BY <1>2 DEF Connecting
<1> HIDE DEF fd
<1>7. \A d \in Conn, u \in StreamId : Live(d, u) =>
        FdOf(d, u) \in Fd /\ FdOf(d, u) # fd /\ fdtab'[FdOf(d, u)] = fdtab[FdOf(d, u)]
  <2>1. \A d \in Conn, u \in StreamId : Live(d, u) => FdOf(d, u) \in Fd
    BY DEF Live, FdOf, TypeOK, Stream
  <2>. QED  BY <1>5, <1>6, <2>1 DEF Ownership, OneOwner
<1>8. \A d \in Conn, u \in StreamId : (Live(d, u)' <=> Live(d, u)) /\ FdOf(d, u)' = FdOf(d, u)
  BY <1>1 DEF Live, FdOf
<1>9. \A f : ~Connecting(f)'
  BY <1>2 DEF Connecting
<1>10. EntriesOpen'
  <2>1. watched_sockets' = watched_sockets
    BY <1>1 DEF watched_sockets
  <2>2. ASSUME NEW d \in Conn, NEW u \in StreamId, Live(d, u)
        PROVE  d \in watched_sockets /\ OpenFor(FdOf(d, u), d, u)'
    <3>1. d \in watched_sockets /\ OpenFor(FdOf(d, u), d, u)
      BY <2>2 DEF Ownership, EntriesOpen
    <3>. QED  BY <1>3, <1>7, <1>8, <2>2, <3>1 DEF OpenFor, SameSockets
  <2>. QED  BY <1>2, <1>8, <2>1, <2>2 DEF EntriesOpen
<1>11. OneOwner'
  BY <1>8, <1>9 DEF Ownership, OneOwner
<1>12. WriterHoldsStream'
  BY <1>1 DEF Ownership, WriterHoldsStream, Live, watched_sockets
<1>13. LoopOwns' /\ FreshIds'
  BY <1>1, <1>2, <1>8 DEF LoopOwns, FreshIds, Ownership
<1>14. NoDescriptorLeak'
  BY <1>1, <1>5, <1>6, <1>8 DEF Ownership, NoDescriptorLeak
<1>15. PollKept
  <2> SUFFICES ASSUME NEW w \in Worker, worker[w].at = "poll"
               PROVE  LET t == worker[w].task
                          f == streams[t.c][t.s].fd
                      IN  /\ streams'[t.c][t.s] # NoStream
                          /\ streams'[t.c][t.s].fd = f
                          /\ fdtab'[f] = fdtab[f]
    BY DEF PollKept
  <2>1. /\ worker[w].task.c \in Conn /\ worker[w].task.s \in StreamId
        /\ Live(worker[w].task.c, worker[w].task.s)
    BY TaskType DEF Ownership, WriterHoldsStream, Task
  <2>. QED  BY <1>1, <1>7, <2>1 DEF FdOf, Live
<1>. QED  BY <1>10, <1>11, <1>12, <1>13, <1>14, <1>15 DEF Ownership

(* The entry is written.  A conforming client's id had none; for any other *)
(* client the old entry is lost, but never one a write task is using.      *)
LEMMA ConnectInsertKeeps ==
  ASSUME TypeOK, Ownership, ConnectInsert
  PROVE  Ownership' /\ PollKept
<1> USE DEF mgrVars, deferVars, kernelVars, poolVars, netVars
<1>0. PICK c, s, fd, entry :
         /\ c = loop.c /\ s = loop.s /\ fd = loop.fd
         /\ entry = [stream_type |-> loop.type, fd |-> loop.fd, buffer |-> BUFFER_COUNT]
  OBVIOUS
<1>1. UNCHANGED <<manager, client, worker, fdtab, sock>>
  BY Zenon DEF ConnectInsert
<1>2. /\ loop.at = "insert" /\ NoReader(c)
      /\ streams' = [streams EXCEPT ![c][s] = entry]
      /\ loop' = [at |-> "wake", locked |-> {c}]
  BY <1>0, Zenon DEF ConnectInsert
<1>3. c \in Conn /\ s \in StreamId /\ fd \in Fd /\ loop.type \in StreamType
  BY <1>0, <1>2 DEF TypeOK, LoopState
<1>4. entry \in Stream /\ entry.fd = fd
  BY <1>0, <1>3, StateAssumption DEF Stream
<1>5. manager[c] = "open" /\ OpenFor(fd, c, s)
  BY <1>0, <1>2 DEF Ownership, EntriesOpen
<1>6. \A f : Connecting(f) <=> f = fd
  BY <1>0, <1>2 DEF Connecting
<1>7. \A d \in Conn, u \in StreamId :
        streams'[d][u] = IF d = c /\ u = s THEN entry ELSE streams[d][u]
  BY <1>2, <1>3 DEF TypeOK
<1>8. Live(c, s)' /\ FdOf(c, s)' = fd
  BY <1>3, <1>4, <1>7, NoStreamAssumption DEF Live, FdOf
<1>9. \A d \in Conn, u \in StreamId : ~(d = c /\ u = s) =>
        (Live(d, u)' <=> Live(d, u)) /\ FdOf(d, u)' = FdOf(d, u)
  BY <1>7 DEF Live, FdOf
<1>10. \A d \in Conn, u \in StreamId : Live(d, u) => FdOf(d, u) # fd
  BY <1>6 DEF Ownership, OneOwner
<1>11. \A f : ~Connecting(f)'
  BY <1>2 DEF Connecting
<1>12. \A f, d, u : OpenFor(f, d, u)' <=> OpenFor(f, d, u)
  BY <1>1 DEF OpenFor
<1>13. EntriesOpen'
  <2>1. watched_sockets' = watched_sockets /\ c \in watched_sockets
    BY <1>1, <1>3, <1>5 DEF watched_sockets
  <2>2. ASSUME NEW d \in Conn, NEW u \in StreamId, Live(d, u)', ~(d = c /\ u = s)
        PROVE  d \in watched_sockets /\ OpenFor(FdOf(d, u), d, u)'
    <3>1. d \in watched_sockets /\ OpenFor(FdOf(d, u), d, u)
      BY <1>9, <2>2 DEF Ownership, EntriesOpen
    <3>. QED  BY <1>1, <1>9, <2>2, <3>1 DEF OpenFor
  <2>3. OpenFor(FdOf(c, s), c, s)'
    BY <1>1, <1>5, <1>8 DEF OpenFor
  <2>. QED  BY <1>2, <2>1, <2>2, <2>3 DEF EntriesOpen
<1>14. OneOwner'
  BY <1>8, <1>9, <1>10, <1>11 DEF Ownership, OneOwner
<1>15. WriterHoldsStream'
  <2>1. watched_sockets' = watched_sockets
    BY <1>1 DEF watched_sockets
  <2>2. ASSUME NEW w \in Worker, worker[w].at = "poll"
        PROVE  /\ worker[w].task.c \in watched_sockets
               /\ Live(worker[w].task.c, worker[w].task.s)'
    <3>1. /\ worker[w].task.c \in Conn /\ worker[w].task.s \in StreamId
          /\ worker[w].task.c \in watched_sockets
          /\ Live(worker[w].task.c, worker[w].task.s) /\ worker[w].task.c # c
      BY <1>2, <2>2, TaskType DEF Ownership, WriterHoldsStream, Task, NoReader
    <3>2. streams'[worker[w].task.c][worker[w].task.s]
            = streams[worker[w].task.c][worker[w].task.s]
      BY <1>7, <3>1
    <3>. QED  BY <1>1, <3>1, <3>2 DEF Live
  <2>. QED  BY <1>1, <2>1, <2>2 DEF WriterHoldsStream
<1>16. LoopOwns'
  BY <1>2 DEF LoopOwns
<1>17. FreshIds'
  <2>1. Conforming => client[c].state[s] # "unused"
    BY <1>0, <1>2 DEF Ownership, FreshIds
  <2>. QED  BY <1>1, <1>2, <1>9, <2>1 DEF Ownership, FreshIds
<1>18. NoDescriptorLeak'
  <2>1. Conforming => ~Live(c, s)
    BY <1>0, <1>2 DEF Ownership, FreshIds
  <2>. QED  BY <1>1, <1>3, <1>6, <1>8, <1>9, <2>1 DEF Ownership, NoDescriptorLeak
<1>19. PollKept
  <2> SUFFICES ASSUME NEW w \in Worker, worker[w].at = "poll"
               PROVE  LET t == worker[w].task
                          f == streams[t.c][t.s].fd
                      IN  /\ streams'[t.c][t.s] # NoStream
                          /\ streams'[t.c][t.s].fd = f
                          /\ fdtab'[f] = fdtab[f]
    BY DEF PollKept
  <2>1. /\ worker[w].task.c \in Conn /\ worker[w].task.s \in StreamId
        /\ Live(worker[w].task.c, worker[w].task.s) /\ worker[w].task.c # c
    BY <1>2, TaskType DEF Ownership, WriterHoldsStream, Task, NoReader
  <2>. QED  BY <1>1, <1>7, <2>1 DEF Live
<1>. QED  BY <1>13, <1>14, <1>15, <1>16, <1>17, <1>18, <1>19 DEF Ownership

----------------------------------------------------------------------------
(* Every step keeps the ownership of descriptors, and the polls. *)
LEMMA OwnershipStep ==
  ASSUME TypeOK, Ownership, [Next]_vars
  PROVE  Ownership' /\ PollKept
<1>1. CASE LoopStep
  BY <1>1, ConnectFailsKeeps, ConnectSucceedsKeeps, ConnectInsertKeeps, WakeKeeps,
     RunDeferredKeeps, DeferredCloseKeeps, FinishKeeps, UpdateKeeps, ForceCloseKeeps, DestructKeeps
     DEF LoopStep
<1>2. CASE WatcherStep
  BY <1>2, WatcherKeeps
<1>3. CASE \E w \in Worker : WorkerStep(w)
  BY <1>3, WorkerKeeps
<1>4. CASE Outside
  BY <1>4, OpenKeeps, DrainKeeps, WsClosedKeeps, ReceiveKeeps, RecvDataKeeps,
     RecvCloseKeeps, RecvConnectKeeps, TargetKeeps, Zenon DEF Outside
<1>5. CASE UNCHANGED vars
  <2>1. UNCHANGED <<manager, streams, client, worker, loop, fdtab, sock>>
    BY <1>5, Zenon DEF vars, mgrVars, kernelVars, poolVars, netVars
  <2>2. Pollers
    BY <2>1, OldPollers DEF Ownership
  <2>. QED  BY <2>1, <2>2, Unmoved, QuietStep
<1>6. Resting => UNCHANGED vars
  BY Zenon DEF Resting
<1>. QED  BY <1>1, <1>2, <1>3, <1>4, <1>5, <1>6, Zenon DEF Next

(* A server that has just started owns nothing. *)
LEMMA OwnershipInit == Init => Ownership
<1> SUFFICES ASSUME Init PROVE Ownership
  OBVIOUS
<1>1. \A c \in Conn, s \in StreamId : ~Live(c, s)
  BY DEF Init, Live
<1>2. loop.at = "idle" /\ \A w \in Worker : worker[w].at = "idle"
  BY DEF Init, Idle
<1>3. \A fd \in Fd : fdtab[fd] = 0
  BY DEF Init
<1>. QED  BY <1>1, <1>2, <1>3 DEF Ownership, EntriesOpen, OneOwner, WriterHoldsStream,
          LoopOwns, FreshIds, NoDescriptorLeak, Connecting

(* The inductive invariant holds at all times. *)
THEOREM OwnershipInvariant == Spec => []Ownership
<1>1. Ownership /\ TypeOK /\ [Next]_vars => Ownership'
  BY OwnershipStep
<1>. QED  BY <1>1, OwnershipInit, TypeCorrect, PTL DEF Spec

(* Every entry of streams names the open socket that was opened for that   *)
(* very stream, and its manager exists: what the deferred lambda and the   *)
(* write task dereference is there.                                        *)
THEOREM EntriesAreOpen == Spec => []EntriesOpen
<1>1. Ownership => EntriesOpen
  BY DEF Ownership
<1>. QED  BY <1>1, OwnershipInvariant, PTL

(* The search of the deferred lambda by descriptor number over all         *)
(* managers finds at most one stream, whatever clients do.                 *)
THEOREM OwnersAreUnique == Spec => []OneOwner
<1>1. Ownership => OneOwner
  BY DEF Ownership
<1>. QED  BY <1>1, OwnershipInvariant, PTL

(* The write task's second look-up, after poll(), finds the stream.        *)
THEOREM WritersHoldStreams == Spec => []WriterHoldsStream
<1>1. Ownership => WriterHoldsStream
  BY DEF Ownership
<1>. QED  BY <1>1, OwnershipInvariant, PTL

(* The server leaks no descriptor of clients that use a stream id once.    *)
THEOREM NoLeak == Spec => []NoDescriptorLeak
<1>1. Ownership => NoDescriptorLeak
  BY DEF Ownership
<1>. QED  BY <1>1, OwnershipInvariant, PTL

(* While a write task is in poll(), no step of another thread closes or    *)
(* replaces the entry it uses, nor lets its descriptor number stand for    *)
(* another socket.                                                         *)
THEOREM PollsAreUndisturbed == Spec => PollUndisturbed
<1>1. Ownership /\ TypeOK /\ [Next]_vars => [PollKept]_vars
  BY OwnershipStep
<1>. QED  BY <1>1, OwnershipInvariant, TypeCorrect, PTL DEF Spec, PollUndisturbed

----------------------------------------------------------------------------
(* Every stream is watched, or its end has been reported.                  *)

(* A descriptor that is in an entry, or about to be. *)
Needed(fd) ==
  \/ \E c \in Conn, s \in StreamId : Live(c, s) /\ FdOf(c, s) = fd
  \/ loop.at = "insert" /\ loop.fd = fd

(* The inductive invariant: what WatchErase takes out of the epoll set is  *)
(* a number whose end is reported.                                         *)
Watched ==
  /\ \A fd \in Fd : Needed(fd) => fd \in epoll \/ EndReported(fd)
  /\ watcher.at = "ended" => watcher.e.to_close

(* What is needed after a step that keeps the entries was needed before. *)
LEMMA NeededBefore ==
  ASSUME SameEntries, loop'.at = "insert" => UNCHANGED loop, NEW fd \in Fd, Needed(fd)'
  PROVE  Needed(fd)
<1>1. CASE loop'.at = "insert" /\ loop'.fd = fd
  BY <1>1 DEF Needed
<1>2. ASSUME NEW c \in Conn, NEW s \in StreamId, Live(c, s)', FdOf(c, s)' = fd
      PROVE  Needed(fd)
  BY <1>2 DEF SameEntries, Live, FdOf, Needed
<1> QED BY <1>1, <1>2 DEF Needed

(* A step that takes nothing out of the epoll set and reports nothing. *)
LEMMA WatchedKept ==
  ASSUME Watched, SameEntries, epoll \subseteq epoll', UNCHANGED <<deferred, watcher>>,
         loop.at = "close" => UNCHANGED <<loop, streams>>, loop'.at = "insert" => UNCHANGED loop
  PROVE  Watched'
<1>1. ASSUME NEW fd \in Fd, EndReported(fd) PROVE EndReported(fd)'
  BY <1>1 DEF EndReported
<1>2. ASSUME NEW fd \in Fd, Needed(fd)' PROVE fd \in epoll' \/ EndReported(fd)'
  <2>1. fd \in epoll \/ EndReported(fd)
    BY <1>2, NeededBefore DEF Watched
  <2> QED BY <1>1, <2>1
<1> QED BY <1>2 DEF Watched

(* The watcher takes a number out only to report it. *)
LEMMA WatchedWatcher ==
  ASSUME TypeOK, Watched, WatcherStep
  PROVE  Watched'
<1> USE DEF mgrVars, deferVars, kernelVars, poolVars, netVars
<1>1. UNCHANGED <<streams, loop>>
  BY Zenon DEF WatcherStep, WatchWait, WatchWake, WatchEvent, WatchRead,
               WatchReadReturns, WatchErase, WatchCount, WatchDefer
<1>2. \A fd \in Fd : Needed(fd)' => Needed(fd)
  BY <1>1, Unmoved, NeededBefore
<1>3. \A fd \in Fd : Needed(fd)' => fd \in epoll \/ EndReported(fd)
  BY <1>2 DEF Watched
<1>4. CASE WatchWait \/ WatchWake \/ WatchEvent \/ WatchRead \/ WatchReadReturns
  <2>1. UNCHANGED <<deferred, epoll>> /\ watcher.at \notin {"done", "counted"}
    BY <1>4 DEF WatchWait, WatchWake, WatchEvent, WatchRead, WatchReadReturns
  <2>2. \A fd \in Fd : EndReported(fd) => EndReported(fd)'
    BY <1>1, <2>1 DEF EndReported
  <2>3. watcher'.at = "ended" => watcher'.e.to_close
    <3>1. ASSUME NEW e, NEW to_close \in BOOLEAN, e \in Lambda, EndLoop(e, to_close)
          PROVE  watcher'.at = "ended" => watcher'.e.to_close
      BY <3>1 DEF EndLoop, Lambda
    <3>2. watcher.at \in {"reading", "stuck"} => watcher.e \in Lambda
      BY DEF TypeOK, WatcherState
    <3>3. ASSUME NEW k, watcher.at \in {"reading", "stuck"}, ReadChunk(k) \/ ReadEnd(k)
          PROVE  watcher'.at = "ended" => watcher'.e.to_close
      <4> DEFINE e == [watcher.e EXCEPT !.data = Append(@, [k |-> k, n |-> Head(sock[k].inq)])]
      <4>1. CASE ReadEnd(k)
        BY <3>1, <3>2, <3>3, <4>1 DEF ReadEnd
      <4>2. CASE ReadChunk(k) /\ EndLoop(e, FALSE)
        <5>1. watcher'.at = "done"
          BY <4>2 DEF EndLoop
        <5> QED BY <5>1
      <4>3. CASE watcher' = [at |-> "reading", e |-> e, todo |-> watcher.todo]
        <5>1. watcher'.at = "reading"
          BY <4>3
        <5> QED BY <5>1
      <4> QED BY <3>3, <4>1, <4>2, <4>3, Zenon DEF ReadChunk
    <3>4. CASE WatchWait \/ WatchWake \/ WatchEvent
      <4>1. watcher'.at \in {"batch", "wait", "reading"}
        BY <3>4 DEF WatchWait, WatchWake, WatchEvent, Rest
      <4> QED BY <4>1
    <3>5. CASE WatchRead
      <4>1. CASE EndLoop(watcher.e, TRUE) \/ EndLoop(watcher.e, FALSE)
        BY <3>1, <3>2, <3>5, <4>1 DEF WatchRead
      <4>2. CASE watcher' = [at |-> "stuck", k |-> fdtab[watcher.e.fd], e |-> watcher.e, todo |-> watcher.todo]
        <5>1. watcher'.at = "stuck"
          BY <4>2
        <5> QED BY <5>1
      <4>3. watcher.at = "reading"
        BY <3>5, Zenon DEF WatchRead
      <4>4. \/ EndLoop(watcher.e, TRUE) \/ EndLoop(watcher.e, FALSE)
            \/ watcher' = [at |-> "stuck", k |-> fdtab[watcher.e.fd], e |-> watcher.e, todo |-> watcher.todo]
            \/ ReadChunk(fdtab[watcher.e.fd]) \/ ReadEnd(fdtab[watcher.e.fd])
        BY <3>5, Zenon DEF WatchRead
      <4>5. watcher.at \in {"reading", "stuck"}
        BY <4>3
      <4>6. ASSUME NEW k, ReadChunk(k) \/ ReadEnd(k)
            PROVE  watcher'.at = "ended" => watcher'.e.to_close
        BY <3>3, <4>5, <4>6
      <4>7. PICK k : k = fdtab[watcher.e.fd]
        OBVIOUS
      <4>8. CASE ReadChunk(fdtab[watcher.e.fd]) \/ ReadEnd(fdtab[watcher.e.fd])
        <5>1. ReadChunk(k) \/ ReadEnd(k)
          BY <4>7, <4>8
        <5> QED BY <4>6, <5>1
      <4> QED BY <4>1, <4>2, <4>4, <4>8
    <3>6. CASE WatchReadReturns
      BY <3>3, <3>6 DEF WatchReadReturns
    <3> QED BY <1>4, <3>4, <3>5, <3>6
  <2> QED BY <1>3, <2>1, <2>2, <2>3 DEF Watched
<1>5. CASE WatchErase
  <2>1. /\ watcher.at = "ended" /\ epoll' = epoll \ {watcher.e.fd} /\ UNCHANGED deferred
        /\ watcher' = [watcher EXCEPT !.at = "done"]
    BY <1>5, Zenon DEF WatchErase
  <2>2. watcher'.at = "done" /\ watcher'.e = watcher.e /\ watcher.e.to_close
    BY <2>1 DEF TypeOK, WatcherState, Watched
  <2>3. \A fd \in Fd : EndReported(fd) => EndReported(fd)'
    BY <1>1, <2>1 DEF EndReported
  <2>4. EndReported(watcher.e.fd)'
    BY <2>2 DEF EndReported
  <2>5. ASSUME NEW fd \in Fd, Needed(fd)' PROVE fd \in epoll' \/ EndReported(fd)'
    <3>1. CASE fd = watcher.e.fd
      BY <2>2, <3>1 DEF EndReported
    <3>2. CASE fd # watcher.e.fd
      BY <1>3, <2>1, <2>3, <2>5, <3>2
    <3> QED BY <3>1, <3>2
  <2> QED BY <2>2, <2>5 DEF Watched
<1>6. CASE WatchCount
  <2>1. /\ watcher.at = "done" /\ UNCHANGED <<deferred, epoll>>
        /\ watcher' = [watcher EXCEPT !.at = "counted"]
    BY <1>6, Zenon DEF WatchCount
  <2>2. watcher'.at = "counted" /\ watcher'.e = watcher.e
    BY <2>1 DEF TypeOK, WatcherState
  <2>3. \A fd \in Fd : EndReported(fd) => EndReported(fd)'
    BY <1>1, <2>1, <2>2 DEF EndReported
  <2> QED BY <1>3, <2>1, <2>2, <2>3 DEF Watched
<1>7. CASE WatchDefer
  <2>1. /\ watcher.at = "counted" /\ UNCHANGED epoll /\ deferred' = Append(deferred, watcher.e)
        /\ watcher' = Rest(watcher.todo)
    BY <1>7, Zenon DEF WatchDefer
  <2>2. watcher'.at # "ended"
    BY <2>1 DEF Rest
  <2>3. /\ deferred \in Seq(Lambda) /\ Len(deferred) + 1 \in DOMAIN deferred'
        /\ deferred'[Len(deferred) + 1] = watcher.e
        /\ \A i \in DOMAIN deferred : i \in DOMAIN deferred' /\ deferred'[i] = deferred[i]
    BY <2>1 DEF TypeOK
  <2>4. \A fd \in Fd : EndReported(fd) => EndReported(fd)'
    BY <1>1, <2>1, <2>3 DEF EndReported
  <2> QED BY <1>3, <2>1, <2>2, <2>4 DEF Watched
<1> QED BY <1>4, <1>5, <1>6, <1>7 DEF WatcherStep

(* The loop thread closes what it takes out, and no other entry has the    *)
(* number.                                                                 *)
LEMMA WatchedClose ==
  ASSUME TypeOK, Ownership, Watched, NEW c \in Conn, NEW s \in StreamId, Live(c, s),
         close_stream(c, s), UNCHANGED <<deferred, watcher>>,
         loop.at = "close" => loop.c = c /\ loop.s = s, loop'.at # "insert"
  PROVE  Watched'
<1>1. epoll' = epoll \ {streams[c][s].fd} /\ streams' = [streams EXCEPT ![c][s] = NoStream]
  BY Zenon DEF close_stream, CloseFd
<1>2. ASSUME NEW d \in Conn, NEW t \in StreamId, Live(d, t)'
      PROVE  Live(d, t) /\ FdOf(d, t)' = FdOf(d, t) /\ FdOf(d, t) # FdOf(c, s) /\ FdOf(d, t) \in Fd
  <2>1. ~(d = c /\ t = s) /\ streams'[d][t] = streams[d][t]
    BY <1>1, <1>2 DEF TypeOK, Live
  <2>2. Live(d, t) /\ FdOf(d, t)' = FdOf(d, t)
    BY <1>2, <2>1 DEF Live, FdOf
  <2>3. FdOf(d, t) \in Fd
    BY <2>2 DEF TypeOK, Live, Stream, FdOf
  <2> QED BY <2>1, <2>2, <2>3 DEF Ownership, OneOwner
<1>3. ASSUME NEW fd \in Fd, Needed(fd)' PROVE fd \in epoll' \/ EndReported(fd)'
  <2>1. PICK d \in Conn, t \in StreamId : Live(d, t)' /\ FdOf(d, t)' = fd
    BY <1>3 DEF Needed
  <2>2. fd \in epoll \/ EndReported(fd)
    BY <1>2, <2>1 DEF Watched, Needed
  <2>3. fd # streams[c][s].fd
    BY <1>2, <2>1 DEF FdOf
  <2> QED BY <1>1, <2>2, <2>3 DEF EndReported
<1> QED BY <1>3 DEF Watched

(* The lambda that reports an end closes the entry with that number. *)
LEMMA WatchedDeferred ==
  ASSUME TypeOK, Ownership, Watched, RunDeferred
  PROVE  Watched'
<1> USE DEF mgrVars, deferVars, kernelVars, poolVars, netVars
<1>1. /\ loop.at = "idle" /\ deferred # <<>> /\ deferred' = Tail(deferred)
      /\ UNCHANGED <<manager, streams, watcher, epoll>>
  BY Zenon DEF RunDeferred
<1> PICK e : e = Head(deferred)
  OBVIOUS
<1>2. /\ e = deferred[1]
      /\ \A i \in DOMAIN deferred : i = 1 \/ (i - 1 \in DOMAIN deferred' /\ deferred'[i - 1] = deferred[i])
  <2>1. deferred \in Seq(Lambda)
    BY DEF TypeOK
  <2> QED BY <1>1, <2>1
<1>3. \/ Owners(e.fd) = {} /\ loop' = [at |-> "finish"]
      \/ \E o \in Owners(e.fd) :
           \/ ~e.to_close /\ loop' = [at |-> "finish"]
           \/ loop' = [at |-> "close", c |-> o[1], s |-> o[2]]
  BY Zenon DEF RunDeferred, Uncount
<1>4. loop'.at # "insert"
  BY <1>3
<1>5. ASSUME NEW fd \in Fd, Needed(fd)' PROVE fd \in epoll' \/ EndReported(fd)'
  <2>1. PICK c \in Conn, s \in StreamId : Live(c, s) /\ FdOf(c, s) = fd
    BY <1>1, <1>4, <1>5 DEF Needed, Live, FdOf
  <2>2. fd \in epoll \/ EndReported(fd)
    BY <2>1 DEF Watched, Needed
  <2>3. CASE e.fd = fd /\ e.to_close
    <3>1. <<c, s>> \in Owners(e.fd)
      BY <2>1, <2>3 DEF Owners, FdOf, Ownership, EntriesOpen
    <3>2. PICK o \in Owners(e.fd) : loop' = [at |-> "close", c |-> o[1], s |-> o[2]]
      BY <1>3, <2>3, <3>1
    <3>3. loop'.at = "close" /\ streams'[loop'.c][loop'.s].fd = fd
      BY <1>1, <2>3, <3>2 DEF Owners
    <3> QED BY <3>3 DEF EndReported
  <2>4. CASE ~(e.fd = fd /\ e.to_close)
    <3>1. CASE \E i \in DOMAIN deferred : deferred[i].fd = fd /\ deferred[i].to_close
      BY <1>2, <2>4, <3>1 DEF EndReported
    <3> QED BY <1>1, <2>2, <3>1 DEF EndReported
  <2> QED BY <2>3, <2>4
<1> QED BY <1>1, <1>5 DEF Watched

LEMMA WatchedLoop ==
  ASSUME TypeOK, Ownership, Watched, LoopStep
  PROVE  Watched'
<1> USE DEF mgrVars, deferVars, kernelVars, poolVars, netVars
<1>1. CASE ConnectFails \/ Wake \/ Finish \/ Destruct
  <2>1. /\ UNCHANGED <<streams, epoll, deferred, watcher>> /\ loop.at # "close"
        /\ loop' = Idle \/ loop' = [at |-> "update", todo |-> watched_sockets]
    BY <1>1 DEF ConnectFails, Wake, Finish, Destruct
  <2>2. loop'.at # "insert"
    BY <2>1 DEF Idle
  <2> QED BY <2>1, <2>2, Unmoved, WatchedKept
<1>2. CASE ConnectSucceeds
  <2>1. /\ UNCHANGED <<streams, deferred, watcher>> /\ epoll' = epoll \cup {loop.fd}
        /\ loop.at = "connect" /\ loop' = [loop EXCEPT !.at = "insert"]
    BY <1>2, Zenon DEF ConnectSucceeds
  <2>2. loop'.fd = loop.fd
    BY <2>1 DEF TypeOK, LoopState
  <2>3. ASSUME NEW fd \in Fd, Needed(fd)', fd # loop.fd PROVE fd \in epoll' \/ EndReported(fd)'
    <3>1. Needed(fd)
      BY <2>1, <2>2, <2>3 DEF Needed, Live, FdOf
    <3> QED BY <2>1, <3>1 DEF Watched, EndReported
  <2> QED BY <2>1, <2>3 DEF Watched
<1>3. CASE ConnectInsert
  <2> PICK c, s, fd : c = loop.c /\ s = loop.s /\ fd = loop.fd
    OBVIOUS
  <2>1. /\ UNCHANGED <<epoll, deferred, watcher>> /\ loop.at = "insert"
        /\ loop' = [at |-> "wake", locked |-> {c}]
        /\ streams' = [streams EXCEPT ![c][s] =
                          [stream_type |-> loop.type, fd |-> fd, buffer |-> BUFFER_COUNT]]
    BY <1>3, Zenon DEF ConnectInsert
  <2>2. c \in Conn /\ s \in StreamId /\ loop'.at = "wake"
    BY <2>1 DEF TypeOK, LoopState
  <2>3. /\ streams'[c][s].fd = fd
        /\ \A d \in Conn, t \in StreamId : d # c \/ t # s => streams'[d][t] = streams[d][t]
    BY <2>1, <2>2 DEF TypeOK
  <2>4. ASSUME NEW f \in Fd, Needed(f)' PROVE f \in epoll' \/ EndReported(f)'
    <3>1. PICK d \in Conn, t \in StreamId : Live(d, t)' /\ FdOf(d, t)' = f
      BY <2>2, <2>4 DEF Needed
    <3>2. Needed(f)
      <4>1. CASE d = c /\ t = s
        BY <2>1, <2>3, <3>1, <4>1 DEF Needed, FdOf
      <4>2. CASE ~(d = c /\ t = s)
        BY <2>3, <3>1, <4>2 DEF Needed, Live, FdOf
      <4> QED BY <4>1, <4>2
    <3>3. f \in epoll \/ EndReported(f)
      BY <3>2 DEF Watched
    <3> QED BY <2>1, <3>3 DEF EndReported
  <2> QED BY <2>1, <2>4 DEF Watched
<1>4. CASE UpdateNext
  <2>1. PICK c \in loop.todo :
          /\ update_streams(c, ws[c], has_backpressure[c])
          /\ loop' = IF loop.todo = {c} THEN Idle ELSE [loop EXCEPT !.todo = @ \ {c}]
    BY <1>4, Zenon DEF UpdateNext
  <2>2. loop.at = "update" /\ UNCHANGED <<deferred, watcher, epoll>>
    BY <1>4, Zenon DEF UpdateNext
  <2>3. c \in Conn
    BY <2>2 DEF TypeOK, LoopState
  <2>4. loop'.at # "insert"
    <3>1. CASE loop' = Idle
      BY <3>1 DEF Idle
    <3>2. CASE loop' = [loop EXCEPT !.todo = @ \ {c}]
      <4>1. loop'.at = loop.at
        BY <3>2 DEF TypeOK, LoopState
      <4> QED BY <2>2, <4>1
    <3> QED BY <2>1, <3>1, <3>2, Zenon
  <2>5. SameEntries
    BY <2>1, <2>3, UpdateSameEntries
  <2> QED BY <2>2, <2>4, <2>5, WatchedKept
<1>5. CASE DeferredClose
  <2> PICK c, s : c = loop.c /\ s = loop.s
    OBVIOUS
  <2>1. /\ loop.at = "close" /\ close_stream(c, s) /\ UNCHANGED <<deferred, watcher>>
        /\ loop' = [at |-> "finish"]
    BY <1>5, Zenon DEF DeferredClose, Uncount
  <2>2. c \in Conn /\ s \in StreamId /\ Live(c, s) /\ loop'.at # "insert"
    BY <2>1 DEF TypeOK, LoopState, Ownership, LoopOwns
  <2> QED BY <2>1, <2>2, WatchedClose
<1>6. CASE ForceClose
  <2> PICK c : c = loop.c
    OBVIOUS
  <2>1. PICK s \in loop.todo : close_stream(c, s) /\ loop' = [loop EXCEPT !.todo = @ \ {s}]
    BY <1>6, Zenon DEF ForceClose
  <2>2. loop.at = "force" /\ UNCHANGED <<deferred, watcher>>
    BY <1>6, Zenon DEF ForceClose
  <2>3. c \in Conn /\ s \in StreamId /\ Live(c, s)
    BY <2>1, <2>2 DEF TypeOK, LoopState, Ownership, LoopOwns
  <2>4. loop'.at # "insert"
    BY <2>1, <2>2 DEF TypeOK, LoopState
  <2> QED BY <2>1, <2>2, <2>3, <2>4, WatchedClose
<1> QED BY <1>1, <1>2, <1>3, <1>4, <1>5, <1>6, WatchedDeferred DEF LoopStep

LEMMA WatchedOutside ==
  ASSUME TypeOK, Ownership, Watched, Outside
  PROVE  Watched'
<1> USE DEF mgrVars, deferVars, kernelVars, poolVars, netVars
<1>1. UNCHANGED <<deferred, watcher, epoll>>
  <2>1. ASSUME NEW c \in Conn, Open(c) \/ Drain(c) \/ WsClosed(c) \/ ClientReceive(c)
        PROVE  UNCHANGED <<deferred, watcher, epoll>>
    BY <2>1, Zenon DEF Open, Drain, WsClosed, ClientReceive
  <2>2. ASSUME NEW c \in Conn, NEW s \in StreamId, RecvData(c, s) \/ RecvClose(c, s)
        PROVE  UNCHANGED <<deferred, watcher, epoll>>
    BY <2>2, Zenon DEF RecvData, RecvClose
  <2>3. ASSUME NEW c \in Conn, NEW s \in StreamId, NEW type \in Asked, RecvConnect(c, s, type)
        PROVE  UNCHANGED <<deferred, watcher, epoll>>
    <3>1. UNCHANGED <<deferred, watcher>> /\ handle_connect(c, s, type)
      BY <2>3, Zenon DEF RecvConnect
    <3>2. UNCHANGED epoll
      BY <3>1, Zenon DEF handle_connect
    <3> QED BY <3>1, <3>2
  <2>4. ASSUME NEW k \in DOMAIN sock, TargetSend(k) \/ TargetClose(k)
        PROVE  UNCHANGED <<deferred, watcher, epoll>>
    BY <2>4, Zenon DEF TargetSend, TargetClose
  <2> QED BY <2>1, <2>2, <2>3, <2>4, Zenon DEF Outside
<1>2. SameEntries
  <2>1. ASSUME NEW c \in Conn, Drain(c) PROVE SameEntries
    BY <2>1, UpdateSameEntries DEF Drain
  <2>2. ASSUME NEW c \in Conn, NEW s \in StreamId, RecvData(c, s) PROVE SameEntries
    <3>1. UNCHANGED streams \/ (Live(c, s) /\ charge(c, s))
      BY <2>2, Zenon DEF RecvData, handle_data
    <3> QED BY <3>1, Unmoved, ChargeSameEntries
  <2>3. ASSUME UNCHANGED streams PROVE SameEntries
    BY <2>3, Unmoved
  <2> QED BY <2>1, <2>2, <2>3, Zenon DEF Outside, Open, Construct, WsClosed, ClientReceive, RecvClose,
               RecvConnect, TargetSend, TargetClose
<1>3. (loop.at = "close" => UNCHANGED <<loop, streams>>) /\ (loop'.at = "insert" => UNCHANGED loop)
  <2>1. CASE UNCHANGED <<loop, streams>>
    BY <2>1
  <2>2. CASE loop.at = "idle" /\ loop'.at # "insert"
    BY <2>2
  <2>3. ASSUME NEW c \in Conn, Drain(c) \/ WsClosed(c) PROVE loop.at = "idle" /\ loop'.at # "insert"
    <3>1. /\ loop.at = "idle"
          /\ \/ loop' = [at |-> "wake", locked |-> {}]
             \/ loop' = [at |-> "force", c |-> c, todo |-> {s \in StreamId : Live(c, s)}]
      BY <2>3, Zenon DEF Drain, WsClosed
    <3> QED BY <3>1
  <2>4. ASSUME NEW c \in Conn, NEW s \in StreamId, RecvData(c, s)
        PROVE  loop.at = "idle" /\ UNCHANGED loop
    BY <2>4, Zenon DEF RecvData
  <2>5. ASSUME NEW c \in Conn, NEW s \in StreamId, NEW type \in Asked, RecvConnect(c, s, type)
        PROVE  loop.at = "idle" /\ loop'.at # "insert"
    <3>1. loop.at = "idle" /\ (UNCHANGED loop \/ \E fd \in Fd :
             loop' = [at |-> "connect", c |-> c, s |-> s, type |-> type, fd |-> fd])
      BY <2>5, Zenon DEF RecvConnect, handle_connect
    <3> QED BY <3>1
  <2>6. ASSUME NEW c \in Conn, Open(c) \/ ClientReceive(c) PROVE UNCHANGED <<loop, streams>>
    BY <2>6, Zenon DEF Open, Construct, ClientReceive
  <2>7. ASSUME NEW c \in Conn, NEW s \in StreamId, RecvClose(c, s) PROVE UNCHANGED <<loop, streams>>
    BY <2>7, Zenon DEF RecvClose
  <2>8. ASSUME NEW k \in DOMAIN sock, TargetSend(k) \/ TargetClose(k) PROVE UNCHANGED <<loop, streams>>
    BY <2>8, Zenon DEF TargetSend, TargetClose
  <2>9. "idle" # "close" /\ "idle" # "insert"
    OBVIOUS
  <2> QED BY <2>1, <2>2, <2>3, <2>4, <2>5, <2>6, <2>7, <2>8, <2>9, Zenon DEF Outside
<1> QED BY <1>1, <1>2, <1>3, WatchedKept

(* No stream is left whose target nobody listens to: a descriptor that is  *)
(* not in the epoll set any more has its end in a lambda that will close   *)
(* it, also when the watcher's erase_fd, which goes by number, hits a      *)
(* socket that took the number over (SystemWatcher::watch).                *)
THEOREM UnwatchedAreClosing == Spec => []UnwatchedIsClosing
<1>1. Init => Watched
  BY DEF Init, Watched, Needed, Live, Idle
<1>2. TypeOK /\ Ownership /\ Watched /\ [Next]_vars => Watched'
  <2> SUFFICES ASSUME TypeOK, Ownership, Watched, [Next]_vars PROVE Watched'
    OBVIOUS
  <2>1. ASSUME NEW w \in Worker, WorkerStep(w) PROVE UNCHANGED <<streams, epoll, deferred, watcher, loop>>
    BY <2>1, Zenon DEF WorkerStep, WorkerPop, WorkerLock, WorkerNoStream, WorkerNoManager, WorkerWrite,
                       WorkerSigpipe, mgrVars, deferVars, kernelVars
  <2>2. ASSUME UNCHANGED vars \/ Resting PROVE UNCHANGED <<streams, epoll, deferred, watcher, loop>>
    BY <2>2, Zenon DEF Resting, vars, mgrVars, deferVars, kernelVars
  <2>3. ASSUME UNCHANGED <<streams, epoll, deferred, watcher, loop>> PROVE Watched'
    BY <2>3, Unmoved, WatchedKept
  <2> QED BY <2>1, <2>2, <2>3, WatchedWatcher, WatchedLoop, WatchedOutside, Zenon DEF Next
<1>3. TypeOK /\ Watched => UnwatchedIsClosing
  <2> SUFFICES ASSUME TypeOK, Watched, NEW c \in Conn, NEW s \in StreamId, Live(c, s)
               PROVE  FdOf(c, s) \in epoll \/ EndReported(FdOf(c, s))
    BY DEF UnwatchedIsClosing
  <2>1. FdOf(c, s) \in Fd
    BY DEF TypeOK, Live, Stream, FdOf
  <2> QED BY <2>1 DEF Watched, Needed
<1>. QED  BY <1>1, <1>2, <1>3, OwnershipInvariant, TypeCorrect, PTL DEF Spec
=============================================================================
