-------------------------- MODULE WoefulTypeProofs --------------------------
(***************************************************************************)
(* Type correctness of the server and exactness of send_queue_len, for any *)
(* number of clients, streams, descriptors and pool threads.  Neither goes *)
(* without the other: send_queue_len-- stays a natural number only because *)
(* the counter counts the lambda that runs it.                             *)
(***************************************************************************)
EXTENDS WoefulProperties, SequenceTheorems, FiniteSetTheorems, TLAPS

(* One websocket, as in TypeOK. *)
Websocket == [out : Seq(Packet), backlog : Nat]

(* The socket a read() is blocked on has been opened. *)
StuckOnSocket == watcher.at = "stuck" => watcher.k \in DOMAIN sock

(* What uWS takes of a batch of packets is a sequence of packets. *)
LEMMA AcceptedType ==
  ASSUME NEW w \in Websocket, NEW packets \in Seq(Packet)
  PROVE  Accepted(w, packets) \in Seq(Packet)
<1> DEFINE room == IF w.backlog > MAX_BACKPRESSURE THEN 0
                   ELSE KernelRoom(w) + MAX_BACKPRESSURE + 1 - w.backlog
           n == IF Len(packets) <= room THEN Len(packets) ELSE room
<1>1. Len(packets) \in Nat /\ Len(w.out) \in Nat /\ w.backlog \in Nat
  BY DEF Websocket
<1>2. room \in Int
  BY <1>1, StateAssumption DEF KernelRoom
<1>3. n \in Int /\ n <= Len(packets)
  BY <1>1, <1>2
<1>4. SubSeq(packets, 1, n) \in Seq(Packet)
  <2>. HIDE DEF n
  <2>1. CASE n >= 1
    BY <2>1, <1>1, <1>3, SubSeqProperties
  <2>2. CASE n < 1
    BY <2>2, <1>1, <1>3, SubSeqEmpty, EmptySeq
  <2>. QED  BY <2>1, <2>2, <1>3
<1>. QED  BY <1>4 DEF Accepted

(* ws->send leaves a well-formed websocket. *)
LEMMA SendType ==
  ASSUME NEW c, NEW w \in Websocket, NEW packets \in Seq(Packet)
  PROVE  Send(c, w, packets) \in Websocket
<1>1. Accepted(w, packets) \in Seq(Packet)
  BY AcceptedType
<1>2. Len(Accepted(w, packets)) \in Nat
  BY <1>1
<1>3. KernelRoom(w) \in Int
  BY StateAssumption DEF KernelRoom, Websocket
<1>. QED  BY <1>1, <1>2, <1>3 DEF Send, Websocket

(* The globals of server.cpp start with values of their types. *)
THEOREM InitType == Init => TypeOK
<1> SUFFICES ASSUME Init PROVE TypeOK
  OBVIOUS
<1> USE StateAssumption DEF Init
<1>1. Len(<<>>) = 0
  OBVIOUS
<1>2. client \in [Conn -> ClientState]
  BY DEF InitClient, ClientState
<1>3. worker \in [Worker -> WorkerState]
  BY DEF Idle, WorkerState
<1>4. loop \in LoopState /\ watcher \in WatcherState
  BY DEF Idle, LoopState, WatcherState
<1>5. fdtab \in [Fd -> 0 .. Len(sock)]
  OBVIOUS
<1>6. ws \in [Conn -> [out : Seq(Packet), backlog : Nat]]
  OBVIOUS
<1>7. streams \in [Conn -> [StreamId -> Stream \cup {NoStream}]]
  OBVIOUS
<1>8. deferred \in Seq(Lambda) /\ sock \in Seq(Socket) /\ tasks \in Seq(Task)
  OBVIOUS
<1>9. /\ manager \in [Conn -> {"none", "open", "closing", "deleted"}]
      /\ send_queue_len \in Nat /\ epoll \subseteq Fd /\ pipe \in 0 .. PIPE_SIZE
  OBVIOUS
<1>10. has_backpressure \in [Conn -> BOOLEAN] /\ crashed \in BOOLEAN
  BY Zenon
<1>. QED  BY <1>2, <1>3, <1>4, <1>5, <1>6, <1>7, <1>8, <1>9, <1>10, Zenon DEF TypeOK

(* Sending to one client leaves every websocket well formed. *)
LEMMA SendToType ==
  ASSUME TypeOK, NEW c \in Conn, NEW packets \in Seq(Packet), SendTo(c, packets)
  PROVE  ws' \in [Conn -> Websocket]
<1>1. Send(c, ws[c], packets) \in Websocket
  BY SendType DEF TypeOK, Websocket
<1>. QED  BY <1>1 DEF SendTo, TypeOK, Websocket

(* The packets the server builds (CONTINUE, CLOSE, DATA) are packets. *)
LEMMA PacketTypes ==
  /\ <<Continue(0)>> \in Seq(Packet)
  /\ \A s \in StreamId : /\ <<Continue(s)>> \in Seq(Packet)
                         /\ <<Close("0x02", s)>> \in Seq(Packet)
                         /\ <<Close("0x41", s)>> \in Seq(Packet)
                         /\ \A d \in Seq(Chunk) : <<Data(s, d)>> \in Seq(Packet)
<1>1. Continue(0) \in Packet
  BY StateAssumption DEF Continue, Packet
<1>2. ASSUME NEW s \in StreamId
      PROVE  /\ Continue(s) \in Packet
             /\ Close("0x02", s) \in Packet /\ Close("0x41", s) \in Packet
             /\ \A d \in Seq(Chunk) : Data(s, d) \in Packet
  BY StateAssumption DEF Continue, Close, Data, Packet
<1>. QED  BY <1>1, <1>2

(* close() keeps the type of the descriptor table. *)
LEMMA CloseFdType ==
  ASSUME TypeOK, NEW fd, fdtab' = [fdtab EXCEPT ![fd] = 0], Len(sock') = Len(sock)
  PROVE  fdtab' \in [Fd -> 0 .. Len(sock')]
<1>1. Len(sock) \in Nat
  BY DEF TypeOK
<1>2. fdtab \in [Fd -> 0 .. Len(sock)]
  BY DEF TypeOK
<1>3. fdtab' = [x \in Fd |-> IF x = fd THEN 0 ELSE fdtab[x]]
  BY <1>2, Zenon
<1>4. \A x \in Fd : fdtab'[x] \in 0 .. Len(sock)
  BY <1>1, <1>2, <1>3
<1>5. fdtab' \in [Fd -> 0 .. Len(sock)]
  BY <1>3, <1>4
<1>. QED  BY <1>5

(* update_streams keeps the types of the websockets and of the map. *)
LEMMA UpdateStreamsType ==
  ASSUME TypeOK, NEW c \in Conn, NEW w \in Websocket, NEW hb, update_streams(c, w, hb)
  PROVE  /\ ws' \in [Conn -> Websocket]
         /\ streams' \in [Conn -> [StreamId -> Stream \cup {NoStream}]]
<1>1. CASE ws' = [ws EXCEPT ![c] = w] /\ UNCHANGED streams
  BY <1>1 DEF TypeOK, Websocket
<1> DEFINE refilled == [s \in StreamId |->
              IF s \in Empty(c) THEN [streams[c][s] EXCEPT !.buffer = BUFFER_COUNT]
              ELSE streams[c][s]]
<1>2. CASE /\ streams' = [streams EXCEPT ![c] = refilled]
           /\ \E order \in SetToSeqs(Empty(c)) :
                ws' = [ws EXCEPT ![c] =
                         Send(c, w, [i \in DOMAIN order |-> Continue(order[i])])]
  <2>1. PICK order \in SetToSeqs(Empty(c)) :
          ws' = [ws EXCEPT ![c] = Send(c, w, [i \in DOMAIN order |-> Continue(order[i])])]
    BY <1>2
  <2>2. Empty(c) \subseteq StreamId
    BY DEF Empty
  <2>3. Cardinality(Empty(c)) \in Nat
    BY <2>2, StateAssumption, FS_Subset, FS_CardinalityType
  <2>4. order \in [1 .. Cardinality(Empty(c)) -> StreamId]
    BY <2>2 DEF SetToSeqs
  <2> DEFINE packets == [i \in DOMAIN order |-> Continue(order[i])]
  <2>5. \A i \in DOMAIN order : Continue(order[i]) \in Packet
    BY <2>4, StateAssumption DEF Continue, Packet
  <2>6. packets \in Seq(Packet)
    BY <2>3, <2>4, <2>5
  <2>7. Send(c, w, packets) \in Websocket
    <3>. HIDE DEF packets
    <3>. QED  BY <2>6, SendType
  <2>8. ws' \in [Conn -> Websocket]
    BY <2>1, <2>7 DEF TypeOK, Websocket
  <2>9. ASSUME NEW s \in StreamId PROVE refilled[s] \in Stream \cup {NoStream}
    <3>1. streams[c][s] \in Stream \cup {NoStream}
      BY DEF TypeOK
    <3>2. CASE s \in Empty(c)
      <4>1. streams[c][s] \in Stream
        BY <3>1, <3>2 DEF Empty, Live
      <4>2. BUFFER_COUNT \in 0 .. U32 - 1
        BY StateAssumption
      <4>. QED  BY <3>2, <4>1, <4>2 DEF Stream
    <3>. QED  BY <3>1, <3>2
  <2>10. refilled \in [StreamId -> Stream \cup {NoStream}]
    BY <2>9
  <2>11. streams' \in [Conn -> [StreamId -> Stream \cup {NoStream}]]
    <3>. HIDE DEF refilled
    <3>. QED  BY <1>2, <2>10 DEF TypeOK
  <2>. QED  BY <2>8, <2>11
<1>. QED  BY <1>1, <1>2, Zenon DEF update_streams

(* handle_data's accounting keeps buffer in the range of a uint32_t. *)
LEMMA ChargeType ==
  ASSUME TypeOK, NEW c \in Conn, NEW s \in StreamId, Live(c, s), charge(c, s)
  PROVE  /\ ws' \in [Conn -> Websocket]
         /\ streams' \in [Conn -> [StreamId -> Stream \cup {NoStream}]]
<1> DEFINE left == (streams[c][s].buffer + U32 - 1) % U32
<1>1. streams[c][s] \in Stream
  BY DEF TypeOK, Live
<1>2. left \in 0 .. U32 - 1 /\ BUFFER_COUNT \in 0 .. U32 - 1
  <2>1. streams[c][s].buffer + U32 - 1 \in Int /\ U32 \in Nat /\ U32 > 0
    BY <1>1, StateAssumption DEF Stream
  <2>. QED  BY <2>1, StateAssumption
<1>3. ASSUME NEW n \in 0 .. U32 - 1, streams' = [streams EXCEPT ![c][s].buffer = n]
      PROVE  streams' \in [Conn -> [StreamId -> Stream \cup {NoStream}]]
  <2>1. [streams[c][s] EXCEPT !.buffer = n] \in Stream
    BY <1>1 DEF Stream
  <2>2. streams' = [streams EXCEPT ![c] = [streams[c] EXCEPT ![s] =
                      [streams[c][s] EXCEPT !.buffer = n]]]
    BY <1>3
  <2>3. [streams[c] EXCEPT ![s] = [streams[c][s] EXCEPT !.buffer = n]]
          \in [StreamId -> Stream \cup {NoStream}]
    BY <2>1 DEF TypeOK
  <2>. QED  BY <2>2, <2>3 DEF TypeOK
<1>4. UNCHANGED ws \/ SendTo(c, <<Continue(s)>>)
  BY DEF charge
<1>5. ws' \in [Conn -> Websocket]
  BY <1>4, PacketTypes, SendToType DEF TypeOK, Websocket
<1>6. \/ UNCHANGED streams
      \/ streams' = [streams EXCEPT ![c][s].buffer = left]
      \/ streams' = [streams EXCEPT ![c][s].buffer = BUFFER_COUNT]
  BY Zenon DEF charge
<1>. HIDE DEF left
<1>. QED  BY <1>2, <1>3, <1>5, <1>6 DEF TypeOK

(* A socket replaced by a socket leaves a sequence of sockets. *)
LEMMA SockType ==
  ASSUME TypeOK, NEW k, NEW v, k \in DOMAIN sock => v \in Socket,
         sock' = [sock EXCEPT ![k] = v]
  PROVE  sock' \in Seq(Socket) /\ Len(sock') = Len(sock)
<1>1. sock \in Seq(Socket) /\ Len(sock) \in Nat /\ DOMAIN sock = 1 .. Len(sock)
  BY DEF TypeOK
<1>2. sock' = [i \in 1 .. Len(sock) |-> IF i = k THEN v ELSE sock[i]]
  BY <1>1, Zenon
<1>3. \A i \in 1 .. Len(sock) : (IF i = k THEN v ELSE sock[i]) \in Socket
  BY <1>1
<1>4. sock' \in [1 .. Len(sock) -> Socket]
  BY <1>2, <1>3, Zenon
<1>. QED  BY <1>1, <1>4

(* The watcher's read loop ends with a well-formed lambda. *)
LEMMA EndLoopType ==
  ASSUME NEW e \in Lambda, NEW to_close \in BOOLEAN, EndLoop(e, to_close),
         watcher.todo \in SUBSET (Fd \cup {PipeFd})
  PROVE  watcher' \in WatcherState
<1>1. [e EXCEPT !.to_close = to_close] \in Lambda
  BY DEF Lambda
<1> DEFINE f == [e EXCEPT !.to_close = to_close]
<1>2. \/ watcher' = [at |-> "ended", e |-> f, todo |-> watcher.todo]
      \/ watcher' = [at |-> "done", e |-> f, todo |-> watcher.todo]
  BY Zenon DEF EndLoop
<1> HIDE DEF f
<1>3. f \in Lambda
  BY <1>1 DEF f
<1>. QED  BY <1>2, <1>3 DEF WatcherState

(* One read() keeps the types of the watcher and of the sockets. *)
LEMMA ReadType ==
  ASSUME TypeOK, NEW k \in DOMAIN sock, watcher.at \in {"reading", "stuck"},
         ReadChunk(k) \/ ReadEnd(k)
  PROVE  watcher' \in WatcherState /\ sock' \in Seq(Socket) /\ Len(sock') = Len(sock)
<1>1. watcher.e \in Lambda /\ watcher.todo \in SUBSET (Fd \cup {PipeFd})
  BY DEF TypeOK, WatcherState
<1>2. sock[k] \in Socket /\ k \in Nat
  BY DEF TypeOK
<1>3. CASE ReadEnd(k)
  <2>1. EndLoop(watcher.e, TRUE) /\ sock' = sock
    BY <1>3, Zenon DEF ReadEnd
  <2>. QED  BY <1>1, <2>1, EndLoopType DEF TypeOK
<1>4. CASE ReadChunk(k)
  <2> DEFINE ch == [k |-> k, n |-> Head(sock[k].inq)]
             e == [watcher.e EXCEPT !.data = Append(@, ch)]
             v == [sock[k] EXCEPT !.inq = Tail(@)]
  <2>1. sock[k].inq \in Seq(Nat) /\ sock[k].inq # <<>>
    BY <1>2, <1>4, Zenon DEF ReadChunk, Socket
  <2>2. Head(sock[k].inq) \in Nat /\ Tail(sock[k].inq) \in Seq(Nat)
    BY <2>1
  <2>3. ch \in Chunk
    BY <1>2, <2>2 DEF Chunk
  <2>4. e \in Lambda
    <3> HIDE DEF ch
    <3>1. Append(watcher.e.data, ch) \in Seq(Chunk)
      BY <1>1, <2>3 DEF Lambda
    <3>. QED  BY <1>1, <3>1 DEF Lambda
  <2>5. v \in Socket
    BY <1>2, <2>2 DEF Socket
  <2>6. sock' = [sock EXCEPT ![k] = v]
    BY <1>4, Zenon DEF ReadChunk
  <2>7. EndLoop(e, FALSE) \/ watcher' = [at |-> "reading", e |-> e, todo |-> watcher.todo]
    BY <1>4, Zenon DEF ReadChunk
  <2> HIDE DEF v, e
  <2>8. sock' \in Seq(Socket) /\ Len(sock') = Len(sock)
    BY <2>5, <2>6, SockType
  <2>9. CASE EndLoop(e, FALSE)
    BY <1>1, <2>4, <2>8, <2>9, EndLoopType
  <2>10. CASE watcher' = [at |-> "reading", e |-> e, todo |-> watcher.todo]
    BY <1>1, <2>4, <2>8, <2>10 DEF WatcherState
  <2>. QED  BY <2>7, <2>9, <2>10
<1>. QED  BY <1>3, <1>4

(* The end of a lambda takes send_queue_len down to a natural number,      *)
(* provided it was positive: where QueueLenExact is needed.                *)
LEMMA UncountType ==
  ASSUME TypeOK, send_queue_len > 0, Uncount
  PROVE  send_queue_len' \in Nat /\ loop' \in LoopState
BY DEF Uncount, TypeOK, LoopState

(* close_stream keeps the types of all it touches. *)
LEMMA CloseStreamType ==
  ASSUME TypeOK, NEW c \in Conn, NEW s \in StreamId, close_stream(c, s)
  PROVE  /\ ws' \in [Conn -> [out : Seq(Packet), backlog : Nat]]
         /\ streams' \in [Conn -> [StreamId -> Stream \cup {NoStream}]]
         /\ sock' \in Seq(Socket)
         /\ fdtab' \in [Fd -> 0 .. Len(sock')]
         /\ epoll' \subseteq Fd /\ pipe' \in 0 .. PIPE_SIZE
<1>1. ws' \in [Conn -> [out : Seq(Packet), backlog : Nat]]
  BY PacketTypes, SendToType DEF close_stream, Websocket
<1>2. streams' \in [Conn -> [StreamId -> Stream \cup {NoStream}]]
  BY DEF close_stream, TypeOK
<1>3. UNCHANGED <<pipe, sock>> /\ epoll' \subseteq Fd
  BY DEF close_stream, CloseFd, TypeOK
<1>4. fdtab' \in [Fd -> 0 .. Len(sock')]
  BY <1>3, CloseFdType DEF close_stream, CloseFd
<1>. QED  BY <1>1, <1>2, <1>3, <1>4 DEF TypeOK

(***************************************************************************)
(* The loop thread inside a handler.                                       *)
(***************************************************************************)
LEMMA LoopStepType ==
  ASSUME TypeOK, QueueLenExact, LoopStep
  PROVE  TypeOK'
<1> USE DEF mgrVars, deferVars, kernelVars, poolVars, netVars
<1>1. CASE ConnectFails
  <2>1. loop.at = "connect" /\ loop.c \in Conn /\ loop.s \in StreamId
    BY <1>1 DEF ConnectFails, TypeOK, LoopState
  <2>2. ws' \in [Conn -> [out : Seq(Packet), backlog : Nat]]
    BY <1>1, <2>1, PacketTypes, SendToType DEF ConnectFails, Websocket
  <2>3. sock' \in Seq(Socket) /\ Len(sock') = Len(sock)
    <3> DEFINE k == fdtab[loop.fd]
               v == [sock[k] EXCEPT !.eof = TRUE]
    <3>1. k \in DOMAIN sock => v \in Socket
      <4>1. k \in DOMAIN sock => sock[k] \in Socket
        BY DEF TypeOK
      <4>. QED  BY <4>1 DEF Socket
    <3>2. sock' = [sock EXCEPT ![k] = v]
      BY <1>1 DEF ConnectFails
    <3>. HIDE DEF k, v
    <3>. QED  BY <3>1, <3>2, SockType
  <2>4. fdtab' \in [Fd -> 0 .. Len(sock')]
    BY <1>1, <2>3, CloseFdType DEF ConnectFails
  <2>5. loop' \in LoopState
    BY <1>1 DEF ConnectFails, LoopState, Idle
  <2>. QED  BY <1>1, <2>2, <2>3, <2>4, <2>5, Zenon DEF TypeOK, ConnectFails
<1>2. CASE ConnectSucceeds
  <2>1. loop' \in LoopState /\ epoll' \subseteq Fd
    BY <1>2 DEF ConnectSucceeds, TypeOK, LoopState
  <2>. QED  BY <1>2, <2>1, Zenon DEF TypeOK, ConnectSucceeds
<1>3. CASE ConnectInsert
  <2>1. /\ loop.at = "insert" /\ loop.c \in Conn /\ loop.s \in StreamId
        /\ loop.type \in StreamType /\ loop.fd \in Fd
    BY <1>3 DEF ConnectInsert, TypeOK, LoopState
  <2>2. [stream_type |-> loop.type, fd |-> loop.fd, buffer |-> BUFFER_COUNT] \in Stream
    BY <2>1, StateAssumption DEF Stream
  <2>3. streams' \in [Conn -> [StreamId -> Stream \cup {NoStream}]]
    BY <1>3, <2>1, <2>2 DEF ConnectInsert, TypeOK
  <2>4. loop' \in LoopState
    BY <1>3, <2>1 DEF ConnectInsert, LoopState
  <2>. QED  BY <1>3, <2>3, <2>4, Zenon DEF TypeOK, ConnectInsert
<1>4. CASE Wake
  <2>1. pipe' \in 0 .. PIPE_SIZE
    BY <1>4, StateAssumption DEF Wake, TypeOK
  <2>2. loop' \in LoopState
    BY <1>4 DEF Wake, LoopState, Idle
  <2>. QED  BY <1>4, <2>1, <2>2, Zenon DEF TypeOK, Wake
<1>5. CASE RunDeferred
  <2> DEFINE e == Head(deferred)
  <2>1. deferred # <<>> /\ deferred \in Seq(Lambda) /\ loop.at = "idle"
    BY <1>5 DEF RunDeferred, TypeOK
  <2>2. e \in Lambda /\ deferred' \in Seq(Lambda) /\ Len(deferred) > 0
    BY <1>5, <2>1 DEF RunDeferred
  <2>3. send_queue_len > 0
    BY <2>1, <2>2 DEF QueueLenExact
  <2>4. CASE Uncount /\ UNCHANGED <<ws, has_backpressure>>
    <3>1. send_queue_len' \in Nat /\ loop' \in LoopState
      BY <2>3, <2>4, UncountType
    <3>. QED  BY <1>5, <2>2, <2>4, <3>1, Zenon DEF TypeOK, RunDeferred
  <2>5. ASSUME NEW o \in Owners(e.fd),
               has_backpressure' = [has_backpressure EXCEPT ![o[1]] =
                                      @ \/ SendStatus(ws[o[1]]) = "BACKPRESSURE"],
               SendTo(o[1], <<Data(o[2], e.data)>>),
               \/ Uncount
               \/ /\ loop' = [at |-> "close", c |-> o[1], s |-> o[2]]
                  /\ UNCHANGED send_queue_len
        PROVE  TypeOK'
    <3>1. o[1] \in Conn /\ o[2] \in StreamId
      BY DEF Owners, watched_sockets
    <3>2. e.data \in Seq(Chunk)
      BY <2>2 DEF Lambda
    <3>3. ws' \in [Conn -> [out : Seq(Packet), backlog : Nat]]
      BY <2>5, <3>1, <3>2, PacketTypes, SendToType DEF Websocket
    <3>4. has_backpressure' \in [Conn -> BOOLEAN]
      BY <2>5, Zenon DEF TypeOK
    <3>5. send_queue_len' \in Nat /\ loop' \in LoopState
      <4>1. CASE Uncount
        BY <2>3, <4>1, UncountType
      <4>2. CASE loop' = [at |-> "close", c |-> o[1], s |-> o[2]] /\ UNCHANGED send_queue_len
        BY <3>1, <4>2 DEF LoopState, TypeOK
      <4>. QED  BY <2>5, <4>1, <4>2
    <3>. QED  BY <1>5, <2>2, <3>3, <3>4, <3>5, Zenon DEF TypeOK, RunDeferred
  <2>. QED  BY <1>5, <2>4, <2>5, Zenon DEF RunDeferred
<1>6. CASE DeferredClose
  <2>1. loop.at = "close" /\ loop.c \in Conn /\ loop.s \in StreamId
    BY <1>6 DEF DeferredClose, TypeOK, LoopState
  <2>2. send_queue_len > 0
    BY <2>1 DEF QueueLenExact, TypeOK
  <2>3. send_queue_len' \in Nat /\ loop' \in LoopState
    BY <1>6, <2>2, UncountType DEF DeferredClose
  <2>4. close_stream(loop.c, loop.s)
    BY <1>6 DEF DeferredClose
  <2>. QED  BY <1>6, <2>1, <2>3, <2>4, CloseStreamType, Zenon DEF TypeOK, DeferredClose
<1>7. CASE UpdateNext
  <2>1. loop.at = "update" /\ loop.todo \subseteq Conn
    BY <1>7 DEF UpdateNext, TypeOK, LoopState
  <2>2. PICK c \in loop.todo :
          /\ update_streams(c, ws[c], has_backpressure[c])
          /\ loop' = IF loop.todo = {c} THEN Idle ELSE [loop EXCEPT !.todo = @ \ {c}]
    BY <1>7 DEF UpdateNext
  <2>3. c \in Conn /\ ws[c] \in Websocket
    BY <2>1 DEF TypeOK, Websocket
  <2>4. /\ ws' \in [Conn -> [out : Seq(Packet), backlog : Nat]]
        /\ streams' \in [Conn -> [StreamId -> Stream \cup {NoStream}]]
    BY <2>2, <2>3, UpdateStreamsType DEF Websocket
  <2>5. loop' \in LoopState
    BY <2>1, <2>2 DEF TypeOK, LoopState, Idle
  <2>. QED  BY <1>7, <2>4, <2>5, Zenon DEF TypeOK, UpdateNext
<1>8. CASE ForceClose
  <2>1. loop.at = "force" /\ loop.c \in Conn /\ loop.todo \subseteq StreamId
    BY <1>8 DEF ForceClose, TypeOK, LoopState
  <2>2. PICK s \in loop.todo : close_stream(loop.c, s) /\ loop' = [loop EXCEPT !.todo = @ \ {s}]
    BY <1>8 DEF ForceClose
  <2>3. loop' \in LoopState
    BY <2>1, <2>2 DEF TypeOK, LoopState
  <2>4. s \in StreamId
    BY <2>1
  <2>. QED  BY <1>8, <2>1, <2>2, <2>3, <2>4, CloseStreamType, Zenon DEF TypeOK, ForceClose
<1>9. CASE Destruct
  <2>1. manager' \in [Conn -> {"none", "open", "closing", "deleted"}]
    BY <1>9 DEF Destruct, TypeOK
  <2>2. loop' \in LoopState
    BY <1>9 DEF Destruct, LoopState, Idle
  <2>. QED  BY <1>9, <2>1, <2>2, Zenon DEF TypeOK, Destruct
<1>10. CASE Finish
  <2>1. watched_sockets \in SUBSET Conn
    BY DEF watched_sockets
  <2>2. loop' \in LoopState
    BY <1>10, <2>1 DEF Finish, LoopState, Idle
  <2>. QED  BY <1>10, <2>2, Zenon DEF TypeOK, Finish
<1>. QED  BY <1>1, <1>2, <1>3, <1>4, <1>5, <1>6, <1>7, <1>8, <1>9, <1>10 DEF LoopStep

(***************************************************************************)
(* The watcher thread.                                                     *)
(***************************************************************************)
LEMMA RestType ==
  ASSUME NEW todo \in SUBSET (Fd \cup {PipeFd})
  PROVE  Rest(todo) \in WatcherState
BY DEF Rest, WatcherState

(* Every step of the watcher thread keeps the types. *)
LEMMA WatcherStepType ==
  ASSUME TypeOK, StuckOnSocket, WatcherStep
  PROVE  TypeOK'
<1> USE DEF mgrVars, deferVars, kernelVars, poolVars, netVars
<1>1. CASE WatchWait
  <2>1. Ready \subseteq Fd \cup {PipeFd}
    BY DEF Ready, TypeOK
  <2>2. watcher' \in WatcherState
    BY <1>1, <2>1 DEF WatchWait, WatcherState
  <2>. QED  BY <1>1, <2>2, Zenon DEF TypeOK, WatchWait
<1>2. CASE WatchWake
  <2>1. watcher.todo \in SUBSET (Fd \cup {PipeFd})
    BY <1>2 DEF WatchWake, TypeOK, WatcherState
  <2>2. watcher' \in WatcherState
    BY <1>2, <2>1, RestType DEF WatchWake
  <2>3. pipe' \in 0 .. PIPE_SIZE
    BY <1>2, StateAssumption DEF WatchWake, TypeOK
  <2>. QED  BY <1>2, <2>2, <2>3, Zenon DEF TypeOK, WatchWake
<1>3. CASE WatchEvent
  <2>1. watcher.todo \in SUBSET (Fd \cup {PipeFd})
    BY <1>3 DEF WatchEvent, TypeOK, WatcherState
  <2>2. PICK fd \in watcher.todo \ {PipeFd} :
          watcher' = [at   |-> "reading",
                      e    |-> [fd |-> fd, data |-> <<>>, to_close |-> FALSE],
                      todo |-> watcher.todo \ {fd}]
    BY <1>3, Zenon DEF WatchEvent
  <2>3. [fd |-> fd, data |-> <<>>, to_close |-> FALSE] \in Lambda
    BY <2>1 DEF Lambda
  <2>4. watcher' \in WatcherState
    BY <2>1, <2>2, <2>3 DEF WatcherState
  <2>. QED  BY <1>3, <2>4, Zenon DEF TypeOK, WatchEvent
<1>4. CASE WatchRead
  <2> DEFINE k == fdtab[watcher.e.fd]
  <2>1. watcher.at = "reading"
    BY <1>4, Zenon DEF WatchRead
  <2>2. watcher.e \in Lambda /\ watcher.todo \in SUBSET (Fd \cup {PipeFd})
    BY <2>1 DEF TypeOK, WatcherState
  <2>3. k \in Nat /\ (k # 0 => k \in DOMAIN sock)
    BY <2>2 DEF TypeOK, Lambda
  <2>4. \/ k # 0 /\ (ReadChunk(k) \/ ReadEnd(k))
        \/ UNCHANGED sock /\ \E b \in BOOLEAN : EndLoop(watcher.e, b)
        \/ /\ UNCHANGED sock
           /\ watcher' = [at |-> "stuck", k |-> k, e |-> watcher.e, todo |-> watcher.todo]
    BY <1>4, Zenon DEF WatchRead
  <2> HIDE DEF k
  <2>5. watcher' \in WatcherState /\ sock' \in Seq(Socket) /\ Len(sock') = Len(sock)
    <3>1. CASE k # 0 /\ (ReadChunk(k) \/ ReadEnd(k))
      BY <2>1, <2>3, <3>1, ReadType
    <3>2. CASE UNCHANGED sock /\ \E b \in BOOLEAN : EndLoop(watcher.e, b)
      BY <2>2, <3>2, EndLoopType DEF TypeOK
    <3>3. CASE /\ UNCHANGED sock
               /\ watcher' = [at |-> "stuck", k |-> k, e |-> watcher.e, todo |-> watcher.todo]
      BY <2>2, <2>3, <3>3 DEF TypeOK, WatcherState
    <3>. QED  BY <2>4, <3>1, <3>2, <3>3
  <2>6. fdtab' \in [Fd -> 0 .. Len(sock')]
    BY <1>4, <2>5, Zenon DEF WatchRead, TypeOK
  <2>. QED  BY <1>4, <2>5, <2>6, Zenon DEF TypeOK, WatchRead
<1>5. CASE WatchReadReturns
  <2>1. watcher.at = "stuck" /\ (ReadChunk(watcher.k) \/ ReadEnd(watcher.k))
    BY <1>5, Zenon DEF WatchReadReturns
  <2>2. watcher' \in WatcherState /\ sock' \in Seq(Socket) /\ Len(sock') = Len(sock)
    BY <2>1, ReadType DEF StuckOnSocket
  <2>3. fdtab' \in [Fd -> 0 .. Len(sock')]
    BY <1>5, <2>2, Zenon DEF WatchReadReturns, TypeOK
  <2>. QED  BY <1>5, <2>2, <2>3, Zenon DEF TypeOK, WatchReadReturns
<1>6. CASE WatchCount
  <2>1. watcher' \in WatcherState
    BY <1>6 DEF WatchCount, TypeOK, WatcherState
  <2>2. send_queue_len' \in Nat
    BY <1>6 DEF WatchCount, TypeOK
  <2>. QED  BY <1>6, <2>1, <2>2, Zenon DEF TypeOK, WatchCount
<1>8. CASE WatchErase
  <2>1. watcher' \in WatcherState
    BY <1>8 DEF WatchErase, TypeOK, WatcherState
  <2>2. epoll' \subseteq Fd
    BY <1>8 DEF WatchErase, TypeOK
  <2>. QED  BY <1>8, <2>1, <2>2, Zenon DEF TypeOK, WatchErase
<1>7. CASE WatchDefer
  <2>1. watcher.e \in Lambda /\ watcher.todo \in SUBSET (Fd \cup {PipeFd})
    BY <1>7 DEF WatchDefer, TypeOK, WatcherState
  <2>2. watcher' \in WatcherState /\ deferred' \in Seq(Lambda)
    BY <1>7, <2>1, RestType DEF WatchDefer, TypeOK
  <2>. QED  BY <1>7, <2>2, Zenon DEF TypeOK, WatchDefer
<1>. QED  BY <1>1, <1>2, <1>3, <1>4, <1>5, <1>6, <1>7, <1>8 DEF WatcherStep

(***************************************************************************)
(* A pool thread.                                                          *)
(***************************************************************************)
LEMMA WorkerStepType ==
  ASSUME TypeOK, NEW w \in Worker, WorkerStep(w)
  PROVE  TypeOK'
<1> USE DEF mgrVars, deferVars, kernelVars, poolVars, netVars
<1>1. CASE WorkerPop(w)
  <2>1. tasks \in Seq(Task) /\ tasks # <<>>
    BY <1>1 DEF WorkerPop, TypeOK
  <2>2. Head(tasks) \in Task /\ tasks' \in Seq(Task)
    BY <1>1, <2>1 DEF WorkerPop
  <2>3. worker' \in [Worker -> WorkerState]
    BY <1>1, <2>2 DEF WorkerPop, TypeOK, WorkerState
  <2>. QED  BY <1>1, <2>2, <2>3, Zenon DEF TypeOK, WorkerPop
<1>2. CASE WorkerLock(w)
  <2>1. worker[w] \in WorkerState /\ worker[w].at = "start"
    BY <1>2 DEF WorkerLock, TypeOK
  <2>2. [worker[w] EXCEPT !.at = "poll"] \in WorkerState
    BY <2>1 DEF WorkerState
  <2>3. worker' = [worker EXCEPT ![w] = [worker[w] EXCEPT !.at = "poll"]]
    BY <1>2 DEF WorkerLock
  <2>4. worker' \in [Worker -> WorkerState]
    BY <2>2, <2>3 DEF TypeOK
  <2>. QED  BY <1>2, <2>4, Zenon DEF TypeOK, WorkerLock
<1>3. CASE WorkerNoStream(w)
  BY <1>3, Zenon DEF TypeOK, WorkerNoStream
<1>4. CASE WorkerNoManager(w)
  <2>1. worker' \in [Worker -> WorkerState]
    <3>1. [at |-> "hung"] \in WorkerState
      BY DEF WorkerState
    <3>2. UNCHANGED worker \/ worker' = [worker EXCEPT ![w] = [at |-> "hung"]]
      BY <1>4, Zenon DEF WorkerNoManager
    <3>. QED  BY <3>1, <3>2 DEF TypeOK
  <2>2. crashed' \in BOOLEAN
    BY <1>4, Zenon DEF WorkerNoManager
  <2>. QED  BY <1>4, <2>1, <2>2, Zenon DEF TypeOK, WorkerNoManager
<1>5. CASE WorkerWrite(w)
  <2> DEFINE t == worker[w].task
             k == fdtab[streams[t.c][t.s].fd]
             v == [sock[k] EXCEPT !.rx = Append(@, t)]
  <2>1. worker' \in [Worker -> WorkerState]
    BY <1>5 DEF WorkerWrite, TypeOK, WorkerState, Idle
  <2>2. t \in Task
    <3>1. worker[w] \in WorkerState /\ worker[w].at = "poll"
      BY <1>5 DEF WorkerWrite, TypeOK
    <3>. QED  BY <3>1 DEF WorkerState
  <2>3. sock' \in Seq(Socket) /\ Len(sock') = Len(sock)
    <3>1. CASE UNCHANGED sock
      BY <3>1 DEF TypeOK
    <3>2. CASE sock' = [sock EXCEPT ![k].rx = Append(@, t)]
      <4>1. sock' = [sock EXCEPT ![k] = v]
        BY <3>2
      <4>2. k \in DOMAIN sock => sock[k] \in Socket
        BY DEF TypeOK
      <4>3. k \in DOMAIN sock => v \in Socket
        <5>1. k \in DOMAIN sock => Append(sock[k].rx, t) \in Seq(Task)
          <6>. HIDE DEF k, t
          <6>. QED  BY <2>2, <4>2 DEF Socket
        <5>. HIDE DEF k, t
        <5>. QED  BY <4>2, <5>1 DEF Socket
      <4>. HIDE DEF k, v
      <4>. QED  BY <4>1, <4>3, SockType
    <3>. QED  BY <1>5, <3>1, <3>2, Zenon DEF WorkerWrite
  <2>4. fdtab' \in [Fd -> 0 .. Len(sock')]
    BY <1>5, <2>3, Zenon DEF WorkerWrite, TypeOK
  <2>. QED  BY <1>5, <2>1, <2>3, <2>4, Zenon DEF TypeOK, WorkerWrite
<1>6. CASE WorkerSigpipe(w)
  BY <1>6, Zenon DEF TypeOK, WorkerSigpipe
<1>. QED  BY <1>1, <1>2, <1>3, <1>4, <1>5, <1>6 DEF WorkerStep

(***************************************************************************)
(* Clients, uWebSockets and targets.                                       *)
(***************************************************************************)
LEMMA TargetType ==
  ASSUME TypeOK, NEW k \in DOMAIN sock, TargetSend(k) \/ TargetClose(k)
  PROVE  TypeOK'
<1> USE DEF mgrVars, deferVars, kernelVars, poolVars, netVars
<1>1. sock[k] \in Socket
  BY DEF TypeOK
<1>2. CASE TargetSend(k)
  <2> DEFINE v == [sock[k] EXCEPT !.sent = @ + 1, !.inq = Append(@, sock[k].sent + 1)]
  <2>1. sock[k].sent + 1 \in Nat /\ Append(sock[k].inq, sock[k].sent + 1) \in Seq(Nat)
    BY <1>1 DEF Socket
  <2>2. v \in Socket
    BY <1>1, <2>1 DEF Socket
  <2>3. sock' = [sock EXCEPT ![k] = v]
    BY <1>2 DEF TargetSend
  <2>4. sock' \in Seq(Socket) /\ Len(sock') = Len(sock)
    <3>. HIDE DEF v
    <3>. QED  BY <2>2, <2>3, SockType
  <2>5. fdtab' \in [Fd -> 0 .. Len(sock')]
    BY <1>2, <2>4, Zenon DEF TargetSend, TypeOK
  <2>. QED  BY <1>2, <2>4, <2>5, Zenon DEF TypeOK, TargetSend
<1>3. CASE TargetClose(k)
  <2> DEFINE v == [sock[k] EXCEPT !.eof = TRUE]
  <2>2. v \in Socket
    BY <1>1 DEF Socket
  <2>3. sock' = [sock EXCEPT ![k] = v]
    BY <1>3 DEF TargetClose
  <2>4. sock' \in Seq(Socket) /\ Len(sock') = Len(sock)
    <3>. HIDE DEF v
    <3>. QED  BY <2>2, <2>3, SockType
  <2>5. fdtab' \in [Fd -> 0 .. Len(sock')]
    BY <1>3, <2>4, Zenon DEF TargetClose, TypeOK
  <2>. QED  BY <1>3, <2>4, <2>5, Zenon DEF TypeOK, TargetClose
<1>. QED  BY <1>2, <1>3

(* Every packet receive() handles keeps the types. *)
LEMMA ReceiveType ==
  ASSUME TypeOK, NEW c \in Conn, NEW s \in StreamId,
         \/ RecvData(c, s) \/ RecvClose(c, s)
         \/ \E type \in Asked : RecvConnect(c, s, type)
  PROVE  TypeOK'
<1> USE DEF mgrVars, deferVars, kernelVars, poolVars, netVars
<1>1. client[c] \in ClientState /\ client \in [Conn -> ClientState]
  BY DEF TypeOK
<1>2. CASE RecvData(c, s)
  <2> DEFINE n == client[c].sent[s] + 1
             cr == IF client[c].state[s] = "tcp" /\ client[c].credit[s] > 0
                   THEN client[c].credit[s] - 1 ELSE client[c].credit[s]
             v == [client[c] EXCEPT !.sent[s] = n, !.credit[s] = cr]
  <2>1. n \in Nat /\ cr \in Nat
    BY <1>1 DEF ClientState
  <2>2. v \in ClientState
    <3>. HIDE DEF n, cr
    <3>. QED  BY <1>1, <2>1 DEF ClientState
  <2>3. client' = [client EXCEPT ![c] = v]
    BY <1>2 DEF RecvData
  <2>4. client' \in [Conn -> ClientState]
    <3>. HIDE DEF v
    <3>. QED  BY <1>1, <2>2, <2>3
  <2>5. /\ tasks' \in Seq(Task)
        /\ ws' \in [Conn -> [out : Seq(Packet), backlog : Nat]]
        /\ streams' \in [Conn -> [StreamId -> Stream \cup {NoStream}]]
    <3>1. handle_data(c, s, n)
      BY <1>2 DEF RecvData
    <3>. HIDE DEF n
    <3>2. CASE ~Live(c, s)
      BY <3>1, <3>2 DEF handle_data, TypeOK
    <3>3. CASE Live(c, s)
      <4>1. [c |-> c, s |-> s, data |-> n] \in Task
        BY <2>1 DEF Task
      <4>2. tasks' = Append(tasks, [c |-> c, s |-> s, data |-> n])
        BY <3>1, <3>3, Zenon DEF handle_data
      <4>3. tasks' \in Seq(Task)
        BY <4>1, <4>2 DEF TypeOK
      <4>. QED  BY <3>1, <3>3, <4>3, ChargeType DEF handle_data, Websocket
    <3>. QED  BY <3>2, <3>3
  <2>. QED  BY <1>2, <2>4, <2>5, Zenon DEF TypeOK, RecvData
<1>3. CASE RecvClose(c, s)
  <2>1. [client[c] EXCEPT !.state[s] = "closed"] \in ClientState
    BY <1>1 DEF ClientState
  <2>2. client' = [client EXCEPT ![c] = [client[c] EXCEPT !.state[s] = "closed"]]
    BY <1>3 DEF RecvClose
  <2>3. client' \in [Conn -> ClientState]
    BY <1>1, <2>1, <2>2
  <2>. QED  BY <1>3, <2>3, Zenon DEF TypeOK, RecvClose
<1>4. ASSUME NEW type \in Asked, RecvConnect(c, s, type)
      PROVE  TypeOK'
  <2> DEFINE v == [client[c] EXCEPT !.state[s] = type, !.credit[s] = client[c].credit[0]]
  <2>1. type \in StreamType
    BY StateAssumption DEF StreamType
  <2>2. v \in ClientState
    BY <1>1, <2>1 DEF ClientState
  <2>3. client' = [client EXCEPT ![c] = v]
    <3>1. client' = [client EXCEPT ![c].state[s] = type,
                                   ![c].credit[s] = client[c].credit[0]]
      BY <1>4, Zenon DEF RecvConnect
    <3>. QED  BY <1>1, <3>1
  <2>4. client' \in [Conn -> ClientState]
    <3>. HIDE DEF v
    <3>. QED  BY <1>1, <2>2, <2>3
  <2>5. handle_connect(c, s, type)
    BY <1>4 DEF RecvConnect
  <2>6. CASE SendTo(c, <<Close("0x41", s)>>) /\ UNCHANGED <<loop, kernelVars>>
    <3>1. ws' \in [Conn -> [out : Seq(Packet), backlog : Nat]]
      BY <2>6, PacketTypes, SendToType DEF Websocket
    <3>. QED  BY <1>4, <2>4, <2>6, <3>1, Zenon DEF TypeOK, RecvConnect
  <2>7. ASSUME NEW fd \in Fd,
               sock' = Append(sock, [c |-> c, s |-> s, fd |-> fd, sent |-> 0,
                                     inq |-> <<>>, eof |-> FALSE, rx |-> <<>>]),
               fdtab' = [fdtab EXCEPT ![fd] = Len(sock) + 1],
               loop' = [at |-> "connect", c |-> c, s |-> s, type |-> type, fd |-> fd],
               UNCHANGED <<epoll, pipe, ws>>
        PROVE  TypeOK'
    <3>1. [c |-> c, s |-> s, fd |-> fd, sent |-> 0, inq |-> <<>>, eof |-> FALSE,
           rx |-> <<>>] \in Socket
      BY DEF Socket
    <3>2. sock' \in Seq(Socket) /\ Len(sock') = Len(sock) + 1 /\ Len(sock) \in Nat
      BY <2>7, <3>1 DEF TypeOK
    <3>3. fdtab' \in [Fd -> 0 .. Len(sock')]
      BY <2>7, <3>2 DEF TypeOK
    <3>4. loop' \in LoopState
      BY <2>1, <2>7 DEF LoopState
    <3>. QED  BY <1>4, <2>4, <2>7, <3>2, <3>3, <3>4, Zenon DEF TypeOK, RecvConnect
  <2>. QED  BY <2>5, <2>6, <2>7, Zenon DEF handle_connect
<1>. QED  BY <1>2, <1>3, <1>4

(* The other websocket callbacks, and the client, keep the types. *)
LEMMA WebsocketType ==
  ASSUME TypeOK, NEW c \in Conn,
         Open(c) \/ Drain(c) \/ WsClosed(c) \/ ClientReceive(c)
  PROVE  TypeOK'
<1> USE DEF mgrVars, deferVars, kernelVars, poolVars, netVars
<1>1. CASE Open(c)
  <2>1. ws' \in [Conn -> [out : Seq(Packet), backlog : Nat]]
    BY <1>1, PacketTypes, SendToType DEF Open, Construct, Websocket
  <2>2. manager' \in [Conn -> {"none", "open", "closing", "deleted"}]
    BY <1>1 DEF Open, Construct, TypeOK
  <2>. QED  BY <1>1, <2>1, <2>2, Zenon DEF TypeOK, Open, Construct
<1>2. CASE Drain(c)
  <2>1. Moved(ws[c]) \in Websocket
    <3>1. ws[c] \in Websocket /\ Len(ws[c].out) \in Nat /\ ws[c].backlog \in Nat
      BY DEF TypeOK, Websocket
    <3> DEFINE room == SOCKBUF - (Len(ws[c].out) - ws[c].backlog)
               b == IF ws[c].backlog > room THEN ws[c].backlog - room ELSE 0
    <3>2. b \in Nat
      BY <3>1, StateAssumption
    <3>3. Moved(ws[c]) = [ws[c] EXCEPT !.backlog = b]
      BY DEF Moved
    <3>. HIDE DEF b
    <3>. QED  BY <3>1, <3>2, <3>3 DEF Websocket
  <2>2. /\ ws' \in [Conn -> [out : Seq(Packet), backlog : Nat]]
        /\ streams' \in [Conn -> [StreamId -> Stream \cup {NoStream}]]
    BY <1>2, <2>1, UpdateStreamsType DEF Drain, Websocket
  <2>3. has_backpressure' \in [Conn -> BOOLEAN]
    BY <1>2, Zenon DEF Drain, TypeOK
  <2>4. loop' \in LoopState
    BY <1>2 DEF Drain, LoopState
  <2>. QED  BY <1>2, <2>2, <2>3, <2>4, Zenon DEF TypeOK, Drain
<1>3. CASE WsClosed(c)
  <2>1. manager' \in [Conn -> {"none", "open", "closing", "deleted"}]
    BY <1>3 DEF WsClosed, TypeOK
  <2>3. loop' \in LoopState
    BY <1>3 DEF WsClosed, LoopState
  <2>4. ws' \in [Conn -> [out : Seq(Packet), backlog : Nat]]
    BY <1>3 DEF WsClosed, TypeOK
  <2>5. InitClient \in ClientState
    BY DEF InitClient, ClientState
  <2>6. client' \in [Conn -> ClientState]
    BY <1>3, <2>5 DEF WsClosed, TypeOK
  <2>. QED  BY <1>3, <2>1, <2>3, <2>4, <2>6, Zenon DEF TypeOK, WsClosed
<1>4. CASE ClientReceive(c)
  <2> DEFINE p == Head(ws[c].out)
             me == client[c]
  <2>1. ws[c].out \in Seq(Packet) /\ Len(ws[c].out) > 0
    <3>1. ws[c] \in [out : Seq(Packet), backlog : Nat]
      BY DEF TypeOK
    <3>2. Len(ws[c].out) > ws[c].backlog
      BY <1>4, Zenon DEF ClientReceive
    <3>. QED  BY <3>1, <3>2
  <2>2. p \in Packet /\ Tail(ws[c].out) \in Seq(Packet)
    BY <2>1
  <2>3. ws' \in [Conn -> [out : Seq(Packet), backlog : Nat]]
    BY <1>4, <2>2 DEF ClientReceive, TypeOK
  <2>4. me \in ClientState
    BY DEF TypeOK
  <2> HIDE DEF p, me
  <2>5. CASE p.type = "CONTINUE"
    <3>1. p.stream \in StreamId \cup {0} /\ p.buffer \in Nat
      BY <2>2, <2>5 DEF Packet
    <3>2. [me EXCEPT !.credit[p.stream] = p.buffer] \in ClientState
      BY <2>4, <3>1 DEF ClientState
    <3>3. client' = [client EXCEPT ![c] = [me EXCEPT !.credit[p.stream] = p.buffer]]
      BY <1>4, <2>5 DEF ClientReceive, p, me
    <3>4. client' \in [Conn -> ClientState]
      BY <3>2, <3>3 DEF TypeOK
    <3>. QED  BY <1>4, <2>3, <3>4, Zenon DEF TypeOK, ClientReceive
  <2>6. CASE p.type = "CLOSE"
    <3>1. p.stream \in StreamId
      BY <2>2, <2>6 DEF Packet
    <3>2. [me EXCEPT !.state[p.stream] = "closed"] \in ClientState
      BY <2>4, <3>1 DEF ClientState
    <3>3. client' = [client EXCEPT ![c] = [me EXCEPT !.state[p.stream] = "closed"]]
      BY <1>4, <2>6 DEF ClientReceive, p, me
    <3>4. client' \in [Conn -> ClientState]
      BY <3>2, <3>3 DEF TypeOK
    <3>. QED  BY <1>4, <2>3, <3>4, Zenon DEF TypeOK, ClientReceive
  <2>7. CASE p.type = "DATA"
    <3>1. p.stream \in StreamId /\ p.data \in Seq(Chunk)
      BY <2>2, <2>7 DEF Packet
    <3>2. me.got[p.stream] \o p.data \in Seq(Chunk)
      BY <2>4, <3>1 DEF ClientState
    <3>3. [me EXCEPT !.got[p.stream] = @ \o p.data] \in ClientState
      BY <2>4, <3>1, <3>2 DEF ClientState
    <3>4. client' = [client EXCEPT ![c] = [me EXCEPT !.got[p.stream] = @ \o p.data]]
      BY <1>4, <2>7 DEF ClientReceive, p, me
    <3>5. client' \in [Conn -> ClientState]
      BY <3>3, <3>4 DEF TypeOK
    <3>. QED  BY <1>4, <2>3, <3>5, Zenon DEF TypeOK, ClientReceive
  <2>8. p.type \in {"CONTINUE", "CLOSE", "DATA"}
    BY <2>2 DEF Packet
  <2>. QED  BY <2>5, <2>6, <2>7, <2>8
<1>. QED  BY <1>1, <1>2, <1>3, <1>4

(***************************************************************************)
(* QueueLenExact.  All that matters of a step is what it does to the two   *)
(* counters and to the three places an event can be in.                    *)
(***************************************************************************)
LEMMA QueueLenKept ==
  ASSUME QueueLenExact, UNCHANGED deferVars,
         (watcher'.at = "counted") <=> (watcher.at = "counted"),
         (loop'.at = "close") <=> (loop.at = "close")
  PROVE  QueueLenExact'
BY DEF QueueLenExact, deferVars

(* The end of a lambda uncounts one event. *)
LEMMA UncountQueueLen ==
  ASSUME Uncount
  PROVE  send_queue_len' = send_queue_len - 1 /\ loop'.at # "close"
BY DEF Uncount

(* Every step keeps send_queue_len exact. *)
LEMMA QueueLenStep ==
  ASSUME TypeOK, QueueLenExact, Next
  PROVE  QueueLenExact'
<1> USE DEF mgrVars, kernelVars, poolVars, netVars
<1>1. CASE LoopStep
  <2>1. CASE RunDeferred
    <3>1. deferred \in Seq(Lambda) /\ deferred # <<>> /\ loop.at = "idle"
          /\ deferred' = Tail(deferred) /\ watcher' = watcher
      BY <2>1 DEF RunDeferred, TypeOK
    <3>2. Len(deferred') = Len(deferred) - 1 /\ Len(deferred) \in Nat /\ Len(deferred') \in Nat
      BY <3>1
    <3>3. CASE Uncount
      <4>1. send_queue_len' = send_queue_len - 1 /\ loop'.at # "close"
        BY <3>3, UncountQueueLen
      <4>2. CASE watcher.at = "counted"
        BY <3>1, <3>2, <4>1, <4>2 DEF QueueLenExact
      <4>3. CASE watcher.at # "counted"
        BY <3>1, <3>2, <4>1, <4>3 DEF QueueLenExact
      <4>. QED  BY <4>2, <4>3
    <3>4. CASE loop'.at = "close" /\ send_queue_len' = send_queue_len
      <4>1. CASE watcher.at = "counted"
        BY <3>1, <3>2, <3>4, <4>1 DEF QueueLenExact
      <4>2. CASE watcher.at # "counted"
        BY <3>1, <3>2, <3>4, <4>2 DEF QueueLenExact
      <4>. QED  BY <4>1, <4>2
    <3>5. \/ Uncount
          \/ \E o \in Owners(Head(deferred).fd) :
               /\ loop' = [at |-> "close", c |-> o[1], s |-> o[2]]
               /\ send_queue_len' = send_queue_len
      BY <2>1, Zenon DEF RunDeferred
    <3>. QED  BY <3>3, <3>4, <3>5
  <2>2. CASE DeferredClose
    <3>1. loop.at = "close" /\ Uncount /\ deferred' = deferred /\ watcher' = watcher
      BY <2>2 DEF DeferredClose
    <3>. QED  BY <3>1, UncountQueueLen DEF QueueLenExact, TypeOK
  <2>3. CASE ConnectFails
    BY <2>3, QueueLenKept DEF ConnectFails, Idle
  <2>4. CASE ConnectSucceeds
    BY <2>4, QueueLenKept DEF ConnectSucceeds, TypeOK, LoopState
  <2>5. CASE ConnectInsert
    BY <2>5, QueueLenKept DEF ConnectInsert
  <2>6. CASE Wake
    BY <2>6, QueueLenKept DEF Wake, Idle
  <2>7. CASE UpdateNext
    <3>1. loop'.at # "close"
      BY <2>7 DEF UpdateNext, Idle, TypeOK, LoopState
    <3>. QED  BY <2>7, <3>1, QueueLenKept DEF UpdateNext
  <2>8. CASE ForceClose
    <3>1. loop'.at # "close"
      BY <2>8 DEF ForceClose, TypeOK, LoopState
    <3>. QED  BY <2>8, <3>1, QueueLenKept DEF ForceClose
  <2>9. CASE Destruct
    BY <2>9, QueueLenKept DEF Destruct, Idle
  <2>10. CASE Finish
    BY <2>10, QueueLenKept DEF Finish, Idle
  <2>. QED  BY <1>1, <2>1, <2>2, <2>3, <2>4, <2>5, <2>6, <2>7, <2>8, <2>9, <2>10 DEF LoopStep
<1>2. CASE WatcherStep
  <2>1. CASE WatchCount
    <3>1. watcher.at = "done" /\ watcher'.at = "counted"
      BY <2>1 DEF WatchCount, TypeOK, WatcherState
    <3>2. send_queue_len' = send_queue_len + 1 /\ deferred' = deferred /\ loop' = loop
      BY <2>1 DEF WatchCount
    <3>3. Len(deferred) \in Nat
      BY DEF TypeOK
    <3>4. CASE loop.at = "close"
      BY <3>1, <3>2, <3>3, <3>4 DEF QueueLenExact
    <3>5. CASE loop.at # "close"
      BY <3>1, <3>2, <3>3, <3>5 DEF QueueLenExact
    <3>. QED  BY <3>4, <3>5
  <2>2. CASE WatchDefer
    <3>1. watcher.at = "counted" /\ watcher'.at # "counted"
      BY <2>2 DEF WatchDefer, Rest
    <3>2. Len(deferred') = Len(deferred) + 1 /\ Len(deferred) \in Nat
      BY <2>2 DEF WatchDefer, TypeOK
    <3>3. send_queue_len' = send_queue_len /\ loop' = loop
      BY <2>2 DEF WatchDefer
    <3>4. CASE loop.at = "close"
      BY <3>1, <3>2, <3>3, <3>4 DEF QueueLenExact
    <3>5. CASE loop.at # "close"
      BY <3>1, <3>2, <3>3, <3>5 DEF QueueLenExact
    <3>. QED  BY <3>4, <3>5
  <2>3. CASE WatchWait
    BY <2>3, QueueLenKept DEF WatchWait
  <2>4. CASE WatchWake
    BY <2>4, QueueLenKept DEF WatchWake, Rest
  <2>5. CASE WatchEvent
    BY <2>5, QueueLenKept DEF WatchEvent
  <2>6. CASE WatchErase
    <3>1. watcher.at = "ended" /\ watcher'.at = "done"
      BY <2>6 DEF WatchErase, TypeOK, WatcherState
    <3>. QED  BY <2>6, <3>1, QueueLenKept DEF WatchErase
  <2>7. CASE WatchRead \/ WatchReadReturns
    <3>1. UNCHANGED <<deferVars, loop>> /\ watcher.at \in {"reading", "stuck"}
      BY <2>7, Zenon DEF WatchRead, WatchReadReturns
    <3>2. watcher'.at \in {"reading", "stuck", "ended", "done"}
      <4>1. \/ \E e, b : EndLoop(e, b)
            \/ \E e : watcher' = [at |-> "reading", e |-> e, todo |-> watcher.todo]
            \/ \E k : watcher' = [at |-> "stuck", k |-> k, e |-> watcher.e, todo |-> watcher.todo]
        BY <2>7, Zenon DEF WatchRead, WatchReadReturns, ReadChunk, ReadEnd
      <4>. QED  BY <4>1 DEF EndLoop
    <3>. QED  BY <3>1, <3>2, QueueLenKept
  <2>. QED  BY <1>2, <2>1, <2>2, <2>3, <2>4, <2>5, <2>6, <2>7 DEF WatcherStep
<1>3. CASE \E w \in Worker : WorkerStep(w)
  <2>1. UNCHANGED <<deferVars, watcher, loop>>
    BY <1>3, Zenon DEF WorkerStep, WorkerPop, WorkerLock, WorkerNoStream,
         WorkerNoManager, WorkerWrite, WorkerSigpipe
  <2>. QED  BY <2>1, QueueLenKept
<1>4. CASE Outside
  <2>1. ASSUME NEW c \in Conn, Open(c) \/ Drain(c) \/ WsClosed(c) \/ ClientReceive(c)
        PROVE  QueueLenExact'
    <3>1. UNCHANGED <<deferVars, watcher>> /\ (UNCHANGED loop \/ loop.at = "idle")
      BY <2>1, Zenon DEF Open, Drain, WsClosed, ClientReceive
    <3>2. UNCHANGED loop \/ loop'.at # "close"
      <4>1. CASE Open(c)
        BY <4>1 DEF Open
      <4>2. CASE Drain(c)
        BY <4>2 DEF Drain
      <4>3. CASE WsClosed(c)
        BY <4>3 DEF WsClosed
      <4>4. CASE ClientReceive(c)
        BY <4>4, Zenon DEF ClientReceive
      <4>. QED  BY <2>1, <4>1, <4>2, <4>3, <4>4
    <3>. QED  BY <3>1, <3>2, QueueLenKept
  <2>2. ASSUME NEW c \in Conn, NEW s \in StreamId, RecvData(c, s) \/ RecvClose(c, s)
        PROVE  QueueLenExact'
    BY <2>2, QueueLenKept DEF RecvData, RecvClose
  <2>3. ASSUME NEW c \in Conn, NEW s \in StreamId, NEW type \in Asked, RecvConnect(c, s, type)
        PROVE  QueueLenExact'
    <3>1. UNCHANGED <<deferVars, watcher>> /\ loop.at = "idle" /\ handle_connect(c, s, type)
      BY <2>3, Zenon DEF RecvConnect
    <3>2. loop' = loop \/ \E fd \in Fd :
            loop' = [at |-> "connect", c |-> c, s |-> s, type |-> type, fd |-> fd]
      BY <3>1, Zenon DEF handle_connect
    <3>3. loop'.at # "close"
      BY <3>1, <3>2
    <3>. QED  BY <3>1, <3>3, QueueLenKept
  <2>4. ASSUME NEW k \in DOMAIN sock, TargetSend(k) \/ TargetClose(k)
        PROVE  QueueLenExact'
    BY <2>4, QueueLenKept DEF TargetSend, TargetClose
  <2>. QED  BY <1>4, <2>1, <2>2, <2>3, <2>4, Zenon DEF Outside
<1>5. CASE Resting
  <2>1. UNCHANGED <<deferVars, watcher, loop>>
    BY <1>5, Zenon DEF Resting, vars
  <2>. QED  BY <2>1, QueueLenKept
<1>. QED  BY <1>1, <1>2, <1>3, <1>4, <1>5 DEF Next

(* Every step keeps the types, given that send_queue_len is exact. *)
LEMMA TypeStep ==
  ASSUME TypeOK, StuckOnSocket, QueueLenExact, Next
  PROVE  TypeOK'
<1>1. CASE LoopStep
  BY <1>1, LoopStepType
<1>2. CASE WatcherStep
  BY <1>2, WatcherStepType
<1>3. CASE \E w \in Worker : WorkerStep(w)
  BY <1>3, WorkerStepType
<1>4. CASE Outside
  BY <1>4, TargetType, ReceiveType, WebsocketType, Zenon DEF Outside
<1>5. CASE Resting
  BY <1>5, Zenon DEF Resting, vars, mgrVars, deferVars, kernelVars, poolVars, netVars, TypeOK
<1>. QED  BY <1>1, <1>2, <1>3, <1>4, <1>5 DEF Next

(* No socket is forgotten: sock only grows. *)
LEMMA SocketsStay ==
  ASSUME TypeOK, Next
  PROVE  DOMAIN sock \subseteq DOMAIN sock'
<1> USE DEF mgrVars, deferVars, kernelVars, poolVars, netVars
<1>1. ASSUME NEW k, NEW v, sock' = [sock EXCEPT ![k] = v]
      PROVE  DOMAIN sock \subseteq DOMAIN sock'
  BY <1>1 DEF TypeOK
<1>2. ASSUME NEW v, sock' = Append(sock, v)
      PROVE  DOMAIN sock \subseteq DOMAIN sock'
  BY <1>2 DEF TypeOK
<1>3. CASE LoopStep
  <2>1. UNCHANGED sock \/ \E k, v : sock' = [sock EXCEPT ![k] = v]
    BY <1>3, Zenon DEF LoopStep, ConnectFails, ConnectSucceeds, ConnectInsert, Wake,
         RunDeferred, DeferredClose, close_stream, CloseFd, Finish, UpdateNext,
         ForceClose, Destruct
  <2>. QED  BY <1>1, <2>1
<1>4. CASE WatcherStep
  <2>1. UNCHANGED sock \/ \E k, v : sock' = [sock EXCEPT ![k] = v]
    BY <1>4, Zenon DEF WatcherStep, WatchWait, WatchWake, WatchEvent, WatchRead,
         WatchReadReturns, ReadChunk, ReadEnd, WatchErase, WatchCount, WatchDefer
  <2>. QED  BY <1>1, <2>1
<1>5. CASE \E w \in Worker : WorkerStep(w)
  <2>1. UNCHANGED sock \/ \E k, v : sock' = [sock EXCEPT ![k] = v]
    BY <1>5, Zenon DEF WorkerStep, WorkerPop, WorkerLock, WorkerNoStream, WorkerNoManager,
         WorkerWrite, WorkerSigpipe
  <2>. QED  BY <1>1, <2>1
<1>6. CASE Outside
  <2>1. CASE \E k \in DOMAIN sock : TargetSend(k) \/ TargetClose(k)
    <3>1. PICK k \in DOMAIN sock : TargetSend(k) \/ TargetClose(k)
      BY <2>1
    <3>2. CASE TargetSend(k)
      BY <3>2 DEF TargetSend, TypeOK
    <3>3. CASE TargetClose(k)
      BY <3>3 DEF TargetClose, TypeOK
    <3>. QED  BY <3>1, <3>2, <3>3
  <2>2. CASE \E c \in Conn :
               \/ Open(c) \/ Drain(c) \/ WsClosed(c) \/ ClientReceive(c)
               \/ \E s \in StreamId : RecvData(c, s) \/ RecvClose(c, s)
               \/ \E s \in StreamId, type \in Asked : RecvConnect(c, s, type)
    <3>1. ASSUME NEW c \in Conn, Open(c) \/ Drain(c) \/ WsClosed(c) \/ ClientReceive(c)
          PROVE  UNCHANGED sock
      BY <3>1, Zenon DEF Open, Drain, WsClosed, ClientReceive
    <3>2. ASSUME NEW c \in Conn, NEW s \in StreamId, RecvData(c, s) \/ RecvClose(c, s)
          PROVE  UNCHANGED sock
      BY <3>2, Zenon DEF RecvData, RecvClose
    <3>3. ASSUME NEW c \in Conn, NEW s \in StreamId, NEW type \in Asked,
                 RecvConnect(c, s, type)
          PROVE  UNCHANGED sock \/ \E v : sock' = Append(sock, v)
      <4>1. handle_connect(c, s, type)
        BY <3>3, Zenon DEF RecvConnect
      <4>. QED  BY <4>1, Zenon DEF handle_connect
    <3>. QED  BY <1>2, <2>2, <3>1, <3>2, <3>3
  <2>. QED  BY <1>6, <2>1, <2>2, Zenon DEF Outside
<1>7. CASE Resting
  BY <1>7, Zenon DEF Resting, vars
<1>. QED  BY <1>3, <1>4, <1>5, <1>6, <1>7 DEF Next

(* A read() blocks only on an open socket. *)
LEMMA StuckStep ==
  ASSUME TypeOK, StuckOnSocket, Next
  PROVE  StuckOnSocket'
<1> USE DEF mgrVars, deferVars, kernelVars, poolVars, netVars
<1>1. DOMAIN sock \subseteq DOMAIN sock'
  BY SocketsStay
<1>2. CASE UNCHANGED watcher
  BY <1>1, <1>2 DEF StuckOnSocket
<1>3. CASE WatcherStep
  <2>1. CASE WatchRead
    <3>1. watcher.at = "reading"
      BY <2>1, Zenon DEF WatchRead
    <3>2. watcher.e.fd \in Fd
      BY <3>1 DEF TypeOK, WatcherState, Lambda
    <3> DEFINE k == fdtab[watcher.e.fd]
    <3>3. k # 0 => k \in DOMAIN sock
      BY <3>2 DEF TypeOK
    <3>4. \/ \E e, b : EndLoop(e, b)
          \/ \E e : watcher' = [at |-> "reading", e |-> e, todo |-> watcher.todo]
          \/ /\ k # 0
             /\ watcher' = [at |-> "stuck", k |-> k, e |-> watcher.e, todo |-> watcher.todo]
      BY <2>1, Zenon DEF WatchRead, ReadChunk, ReadEnd
    <3> HIDE DEF k
    <3>. QED  BY <1>1, <3>3, <3>4 DEF StuckOnSocket, EndLoop
  <2>2. CASE WatchReadReturns
    <3>1. \/ \E e, b : EndLoop(e, b)
          \/ \E e : watcher' = [at |-> "reading", e |-> e, todo |-> watcher.todo]
      BY <2>2, Zenon DEF WatchReadReturns, ReadChunk, ReadEnd
    <3>. QED  BY <3>1 DEF StuckOnSocket, EndLoop
  <2>3. CASE WatchWait \/ WatchWake \/ WatchEvent \/ WatchDefer
    BY <2>3 DEF StuckOnSocket, WatchWait, WatchWake, WatchEvent, WatchDefer, Rest
  <2>4. CASE WatchErase \/ WatchCount
    BY <2>4 DEF StuckOnSocket, WatchErase, WatchCount, TypeOK, WatcherState
  <2>. QED  BY <1>3, <2>1, <2>2, <2>3, <2>4 DEF WatcherStep
<1>4. UNCHANGED watcher \/ WatcherStep
  <2>1. LoopStep => UNCHANGED watcher
    BY Zenon DEF LoopStep, ConnectFails, ConnectSucceeds, ConnectInsert, Wake,
         RunDeferred, DeferredClose, Finish, UpdateNext, ForceClose, Destruct
  <2>2. (\E w \in Worker : WorkerStep(w)) => UNCHANGED watcher
    BY Zenon DEF WorkerStep, WorkerPop, WorkerLock, WorkerNoStream, WorkerNoManager,
         WorkerWrite, WorkerSigpipe
  <2>3. Outside => UNCHANGED watcher
    <3>1. ASSUME NEW c \in Conn, Open(c) \/ Drain(c) \/ WsClosed(c) \/ ClientReceive(c)
          PROVE  UNCHANGED watcher
      BY <3>1, Zenon DEF Open, Drain, WsClosed, ClientReceive
    <3>2. ASSUME NEW c \in Conn, NEW s \in StreamId, RecvData(c, s) \/ RecvClose(c, s)
          PROVE  UNCHANGED watcher
      BY <3>2, Zenon DEF RecvData, RecvClose
    <3>3. ASSUME NEW c \in Conn, NEW s \in StreamId, NEW type \in Asked,
                 RecvConnect(c, s, type)
          PROVE  UNCHANGED watcher
      BY <3>3, Zenon DEF RecvConnect
    <3>4. ASSUME NEW k \in DOMAIN sock, TargetSend(k) \/ TargetClose(k)
          PROVE  UNCHANGED watcher
      BY <3>4, Zenon DEF TargetSend, TargetClose
    <3>. QED  BY <3>1, <3>2, <3>3, <3>4, Zenon DEF Outside
  <2>4. Resting => UNCHANGED watcher
    BY Zenon DEF Resting, vars
  <2>. QED  BY <2>1, <2>2, <2>3, <2>4, Zenon DEF Next
<1>. QED  BY <1>2, <1>3, <1>4

(* Every variable of the server keeps its type, and send_queue_len is at   *)
(* all times the number of events between the watcher's ++ and the         *)
(* lambda's -- (so that the size_t never wraps), for any number of         *)
(* clients, streams, descriptors and pool threads and any clients.         *)
THEOREM TypeCorrect == Spec => [](TypeOK /\ QueueLenExact)
<1> DEFINE Inv == TypeOK /\ StuckOnSocket /\ QueueLenExact
<1>1. Init => Inv
  BY InitType DEF Init, QueueLenExact, StuckOnSocket, Idle
<1>2. Inv /\ [Next]_vars => Inv'
  <2>1. CASE Next
    BY <2>1, TypeStep, StuckStep, QueueLenStep
  <2>2. CASE UNCHANGED vars
    BY <2>2, Zenon DEF vars, mgrVars, deferVars, kernelVars, poolVars, netVars, TypeOK,
         StuckOnSocket, QueueLenExact
  <2>. QED  BY <2>1, <2>2
<1>3. Inv => TypeOK /\ QueueLenExact
  OBVIOUS
<1> HIDE DEF Inv
<1>. QED  BY <1>1, <1>2, <1>3, PTL DEF Spec

(* No handler, whatever a client or a target does, leaves a variable of    *)
(* the server outside its type: in particular every descriptor, stream and *)
(* manager that a queued task, a deferred lambda or a thread holds is one. *)
THEOREM TypesKept == Spec => []TypeOK
BY TypeCorrect, PTL
=============================================================================
