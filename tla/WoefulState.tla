---------------------------- MODULE WoefulState ----------------------------
(***************************************************************************)
(* The state that the threads of a running Woeful server share.            *)
(*                                                                         *)
(*   loop thread     runs the uWebSockets callbacks and the deferred       *)
(*                   lambdas (server.cpp, websocketManager.{h,cpp})        *)
(*   watcher thread  SystemWatcher::watch (websocketManager.cpp)           *)
(*   pool threads    run the write tasks submitted by handle_data          *)
(*                                                                         *)
(* together with what they work on: the kernel's descriptor table and      *)
(* epoll set, the target sockets, the websocket of every client, and the   *)
(* Wisp client at its other end.                                           *)
(***************************************************************************)
EXTENDS Integers, Sequences, FiniteSets, SequencesExt

CONSTANTS
  Conn,              \* websocket connections, by the id server.cpp gives them
  StreamId,          \* Wisp stream ids a client may use
  Fd,                \* descriptor numbers socket() may return
  PipeFd,            \* EpollWrapper::pipes[0]
  Worker,            \* threads of the BS::thread_pool
  NoStream,          \* a stream id with no entry in WebSocketManager::streams
  BUFFER_COUNT,      \* packets.h: initial credit of a stream, and epoll batch size
  MAX_QUEUE,         \* packets.h: deferred sends above which no credit is given
  MAX_WS_FRAME,      \* packets.h: counted here in chunks of SEGMENT_SIZE bytes
  MAX_BACKPRESSURE,  \* websocketManager.h: counted here in packets
  U32,               \* 2^32, the modulus of SocketStreamData::buffer
  SOCKBUF,           \* packets the kernel holds for one websocket
  PIPE_SIZE,         \* wakes the pipe holds before write() blocks
  Conforming,        \* TRUE: clients obey the Wisp flow control and never reuse ids
  Asked,             \* stream types clients ask for
  MaxSock,           \* bound: sockets opened in a behaviour
  MaxChunk,          \* bound: chunks a target sends
  MaxData            \* bound: DATA packets a client sends on one stream

ASSUME StateAssumption ==
  /\ IsFiniteSet(StreamId)
  /\ 0 \notin StreamId                             \* the id of the initial CONTINUE
  /\ Asked \subseteq {"tcp", "udp"}
  /\ PipeFd \notin Fd
  /\ BUFFER_COUNT \in Nat \ {0} /\ SOCKBUF \in Nat \ {0} /\ PIPE_SIZE \in Nat \ {0}
  /\ MAX_QUEUE \in Nat /\ MAX_WS_FRAME \in Nat /\ MAX_BACKPRESSURE \in Nat
  /\ MaxSock \in Nat /\ MaxChunk \in Nat /\ MaxData \in Nat
  /\ U32 \in Nat /\ U32 > BUFFER_COUNT
  /\ Conforming \in BOOLEAN

VARIABLES
  manager,           \* life of each WebSocketManager; live ones are watched_sockets
  streams,           \* WebSocketManager::streams
  has_backpressure,  \* WebSocketManager::has_backpressure
  loop,              \* where the loop thread stands in the handler it runs
  deferred,          \* lambdas handed to uWS::Loop::defer and not yet run
  send_queue_len,    \* SystemWatcher::send_queue_len
  watcher,           \* where the watcher thread stands
  epoll,             \* descriptors registered with EpollWrapper::epfd
  pipe,              \* wakes written to EpollWrapper::pipes and not yet read
  fdtab,             \* descriptor -> index in sock of the open socket, 0 if closed
  sock,              \* every socket ever opened to a target, in order
  tasks,             \* write tasks queued in the thread pool
  worker,            \* where each pool thread stands
  ws,                \* packets on their way to each client, and uWS's share of them
  client,            \* the Wisp client's own state
  crashed            \* the process has died

mgrVars    == <<manager, streams, has_backpressure>>
deferVars  == <<deferred, send_queue_len>>
kernelVars == <<epoll, pipe, fdtab, sock>>
poolVars   == <<tasks, worker>>
netVars    == <<ws, client>>

vars == <<mgrVars, loop, deferVars, watcher, kernelVars, poolVars, netVars, crashed>>

----------------------------------------------------------------------------
(* What the variables hold.                                                *)

StreamType == {"tcp", "udp"}                       \* 0x01 and 0x02

(* SocketStreamData *)
Stream == [stream_type : StreamType, fd : Fd, buffer : 0 .. U32 - 1]

ASSUME NoStreamAssumption == NoStream \notin Stream

(* A chunk is the n-th SEGMENT_SIZE read of what the target of socket k    *)
(* sent; a deferred lambda captures the descriptor number, the chunks read *)
(* and to_close.                                                           *)
Chunk == [k : Nat, n : Nat]
Lambda == [fd : Fd, data : Seq(Chunk), to_close : BOOLEAN]

(* The lambda handle_data submits: it captures the manager and the packet. *)
Task == [c : Conn, s : StreamId, data : Nat]

(* A socket and its peer: the stream it was opened for, its number, how    *)
(* many chunks the target has sent, which of them are unread, whether the  *)
(* target is gone, and the payloads written to it.                         *)
Socket == [c : Conn, s : StreamId, fd : Fd, sent : Nat, inq : Seq(Nat),
           eof : BOOLEAN, rx : Seq(Task)]

(* Packets from the server to a client. *)
Packet == [type : {"CONTINUE"}, stream : StreamId \cup {0}, buffer : Nat]
   \cup [type : {"CLOSE"}, stream : StreamId, reason : {"0x02", "0x41"}]
   \cup [type : {"DATA"}, stream : StreamId, data : Seq(Chunk)]

LoopState == [at : {"idle", "finish"}]
   \cup [at : {"connect", "insert"}, c : Conn, s : StreamId, type : StreamType, fd : Fd]
   \cup [at : {"wake"}, locked : SUBSET Conn]
   \cup [at : {"close"}, c : Conn, s : StreamId]
   \cup [at : {"update"}, todo : SUBSET Conn]
   \cup [at : {"force"}, c : Conn, todo : SUBSET StreamId]

WatcherState == [at : {"wait"}]
   \cup [at : {"batch"}, todo : SUBSET (Fd \cup {PipeFd})]
   \cup [at : {"reading", "ended", "done", "counted"}, e : Lambda,
         todo : SUBSET (Fd \cup {PipeFd})]
   \cup [at : {"stuck"}, k : Nat, e : Lambda, todo : SUBSET (Fd \cup {PipeFd})]

WorkerState == [at : {"idle", "hung"}] \cup [at : {"start", "poll"}, task : Task]

ClientState == [state : [StreamId -> StreamType \cup {"unused", "closed"}],
                credit : [StreamId \cup {0} -> Nat],
                sent : [StreamId -> Nat],
                got : [StreamId -> Seq(Chunk)]]

(* One type invariant for all the variables above. *)
TypeOK ==
  /\ manager \in [Conn -> {"none", "open", "closing", "deleted"}]
  /\ streams \in [Conn -> [StreamId -> Stream \cup {NoStream}]]
  /\ has_backpressure \in [Conn -> BOOLEAN]
  /\ loop \in LoopState
  /\ deferred \in Seq(Lambda)
  /\ send_queue_len \in Nat
  /\ watcher \in WatcherState
  /\ epoll \subseteq Fd
  /\ pipe \in 0 .. PIPE_SIZE
  /\ sock \in Seq(Socket)
  /\ fdtab \in [Fd -> 0 .. Len(sock)]
  /\ tasks \in Seq(Task)
  /\ worker \in [Worker -> WorkerState]
  /\ ws \in [Conn -> [out : Seq(Packet), backlog : Nat]]
  /\ client \in [Conn -> ClientState]
  /\ crashed \in BOOLEAN

----------------------------------------------------------------------------
Idle == [at |-> "idle"]

InitClient == [state  |-> [s \in StreamId |-> "unused"],
               credit |-> [s \in StreamId \cup {0} |-> 0],
               sent   |-> [s \in StreamId |-> 0],
               got    |-> [s \in StreamId |-> <<>>]]

(* The globals of server.cpp: no websocket, a watcher about to call        *)
(* epoll_wait, an idle pool.                                               *)
Init ==
  /\ manager = [c \in Conn |-> "none"]
  /\ streams = [c \in Conn |-> [s \in StreamId |-> NoStream]]
  /\ has_backpressure = [c \in Conn |-> FALSE]
  /\ loop = Idle
  /\ deferred = <<>>
  /\ send_queue_len = 0
  /\ watcher = [at |-> "wait"]
  /\ epoll = {}
  /\ pipe = 0
  /\ fdtab = [f \in Fd |-> 0]
  /\ sock = <<>>
  /\ tasks = <<>>
  /\ worker = [w \in Worker |-> Idle]
  /\ ws = [c \in Conn |-> [out |-> <<>>, backlog |-> 0]]
  /\ client = [c \in Conn |-> InitClient]
  /\ crashed = FALSE

(* SystemWatcher::watched_sockets: entered by the constructor of a manager *)
(* and left by its destructor, both on the loop thread.                    *)
watched_sockets == {c \in Conn : manager[c] \in {"open", "closing"}}

Live(c, s) == streams[c][s] # NoStream
=============================================================================
