-------------------------- MODULE WoefulProperties --------------------------
(***************************************************************************)
(* What the threads of the server must keep true of the state they share.  *)
(***************************************************************************)
EXTENDS Woeful

FdOf(c, s) == streams[c][s].fd

(* handle_connect has a descriptor that is not in streams yet. *)
Connecting(fd) == loop.at \in {"connect", "insert"} /\ loop.fd = fd

(* fd is open, and its socket was opened for stream s of connection c. *)
OpenFor(fd, c, s) ==
  /\ fdtab[fd] \in DOMAIN sock
  /\ sock[fdtab[fd]].c = c /\ sock[fdtab[fd]].s = s

(* Every entry of streams belongs to a manager that still exists and names *)
(* an open descriptor, whose socket was opened for this very stream; so    *)
(* does the descriptor handle_connect is about to enter.                   *)
EntriesOpen ==
  /\ \A c \in Conn, s \in StreamId :
       Live(c, s) => c \in watched_sockets /\ OpenFor(FdOf(c, s), c, s)
  /\ loop.at \in {"connect", "insert"} =>
       manager[loop.c] = "open" /\ OpenFor(loop.fd, loop.c, loop.s)

(* No descriptor number is in two entries at once, nor in an entry while   *)
(* handle_connect holds it: the search of the deferred lambda, which goes  *)
(* by number over all managers, finds at most one stream.                  *)
OneOwner ==
  /\ \A c, d \in Conn, s, t \in StreamId :
       Live(c, s) /\ Live(d, t) /\ FdOf(c, s) = FdOf(d, t) => c = d /\ s = t
  /\ \A c \in Conn, s \in StreamId : Live(c, s) => ~Connecting(FdOf(c, s))

(* While a write task is between its find() and the end of its write(),    *)
(* the manager it captured exists and the stream is in its map: the task   *)
(* looks the stream up again after poll() without testing the result.      *)
WriterHoldsStream ==
  \A w \in Worker : worker[w].at = "poll" =>
    LET t == worker[w].task IN t.c \in watched_sockets /\ Live(t.c, t.s)

(* send_queue_len counts the events between the watcher's ++ and the       *)
(* lambda's --, no matter where the two threads are; in particular the     *)
(* size_t never wraps.                                                     *)
QueueLenExact ==
  send_queue_len = Len(deferred)
                   + (IF watcher.at = "counted" THEN 1 ELSE 0)
                   + (IF loop.at = "close" THEN 1 ELSE 0)

(* With clients that use an id once, every open descriptor is reachable:   *)
(* it is in streams or in the hands of handle_connect.                     *)
NoDescriptorLeak ==
  Conforming => \A fd \in Fd : fdtab[fd] # 0 =>
                  \/ Connecting(fd)
                  \/ \E c \in Conn, s \in StreamId : Live(c, s) /\ FdOf(c, s) = fd

(* The watcher has reported, or is about to report, the end of number fd. *)
EndReported(fd) ==
  \/ \E i \in DOMAIN deferred : deferred[i].fd = fd /\ deferred[i].to_close
  \/ watcher.at \in {"done", "counted"} /\ watcher.e.fd = fd /\ watcher.e.to_close
  \/ loop.at = "close" /\ streams[loop.c][loop.s].fd = fd

(* A stream whose descriptor is not watched any more is about to be        *)
(* closed: no stream is left in streams whose target nobody listens to,    *)
(* not even when the watcher erases a number that was reused meanwhile.    *)
UnwatchedIsClosing ==
  \A c \in Conn, s \in StreamId :
    Live(c, s) => FdOf(c, s) \in epoll \/ EndReported(FdOf(c, s))

----------------------------------------------------------------------------
(* Flow control.                                                           *)

InFlight(c, p) == \E i \in DOMAIN ws[c].out : ws[c].out[i] = p

(* A conforming client never holds more credit than the server's buffer    *)
(* for that stream, and a CONTINUE is on its way only to a client without  *)
(* credit: so buffer never goes below zero and wraps.                      *)
CreditCovered ==
  Conforming => \A c \in Conn, s \in StreamId :
    Live(c, s) /\ streams[c][s].stream_type = "tcp" /\ client[c].state[s] = "tcp" =>
      /\ client[c].credit[s] <= streams[c][s].buffer
      /\ streams[c][s].buffer <= BUFFER_COUNT
      /\ InFlight(c, Continue(s)) =>
           client[c].credit[s] = 0 /\ streams[c][s].buffer = BUFFER_COUNT

(* The streams, as far as their credit is concerned: TCP streams that are  *)
(* open at both ends.                                                      *)
Spending == {i \in Conn \X StreamId :
               /\ Live(i[1], i[2]) /\ streams[i[1]][i[2]].stream_type = "tcp"
               /\ client[i[1]].state[i[2]] = "tcp"}
Credits == [i \in Conn \X StreamId |-> IF i \in Spending THEN client[i[1]].credit[i[2]] ELSE 0]
Buffers == [i \in Conn \X StreamId |-> IF i \in Spending THEN streams[i[1]][i[2]].buffer ELSE 0]
Grants  == [i \in Conn \X StreamId |-> i \in Spending /\ InFlight(i[1], Continue(i[2]))]

Credit == INSTANCE WispCredit WITH
  Stream <- Conn \X StreamId, Room <- BUFFER_COUNT,
  open <- Spending, credit <- Credits, buffer <- Buffers, granted <- Grants

(* As long as uWebSockets drops nothing, the server, its refills in three  *)
(* places and the queues between it and the client are the flow control of *)
(* WispCredit: a CONTINUE is sent only for an empty buffer, never a second *)
(* one before the first has arrived, and no credit is lost or made up.     *)
CreditKept == Credit!Spec

(* has_backpressure stays set only while uWebSockets keeps something, and  *)
(* so only while a drain callback, the one place that clears it, is still  *)
(* to come.                                                                *)
BackpressureWillDrain ==
  \A c \in Conn : manager[c] = "open" /\ has_backpressure[c] => ws[c].backlog > 0

----------------------------------------------------------------------------
(* What the two ends see.                                                  *)

(* No other socket ever had the number of socket k. *)
OwnNumber(k) == \A j \in DOMAIN sock : sock[j].fd = sock[k].fd => j = k

(* Chunks of one socket are in the order in which the target sent them,    *)
(* inside a packet d and from packet d to a later packet e.                *)
InOrder(d) == \A i, j \in DOMAIN d : i < j /\ d[i].k = d[j].k => d[i].n < d[j].n
Precedes(d, e) == \A i \in DOMAIN d, j \in DOMAIN e : d[i].k = e[j].k => d[i].n < e[j].n

IsData(p, s) == p.type = "DATA" /\ p.stream = s

StreamInOrder(got, out, s) ==
  /\ InOrder(got)
  /\ \A i \in DOMAIN out : IsData(out[i], s) =>
       /\ InOrder(out[i].data) /\ Precedes(got, out[i].data)
       /\ \A j \in DOMAIN out : i < j /\ IsData(out[j], s) => Precedes(out[i].data, out[j].data)

(* What a target sends arrives in order and at most once: what the client  *)
(* has received, followed by what is on its way to it.                     *)
DownloadOrder ==
  \A c \in Conn, s \in StreamId : StreamInOrder(client[c].got[s], ws[c].out, s)

(* Chunk x is among the chunks d. *)
Carries(d, x) == \E i \in DOMAIN d : d[i] = x

(* A client that has received got, and to which out is under way, has      *)
(* chunk x of stream s before the i-th packet.                             *)
SentBefore(got, out, s, i, x) ==
  \/ Carries(got, x)
  \/ \E j \in DOMAIN out : j < i /\ IsData(out[j], s) /\ Carries(out[j].data, x)

(* A CLOSE that answers the end of a target comes after everything that    *)
(* target sent (as long as uWebSockets drops nothing), unless its          *)
(* descriptor number has been used twice.                                  *)
CloseIsLast ==
  \A c \in Conn, k \in DOMAIN sock : \A i \in DOMAIN ws[c].out :
    LET s == sock[k].s
    IN  sock[k].c = c /\ OwnNumber(k) /\ ws[c].out[i] = Close("0x02", s) =>
          /\ sock[k].eof
          /\ \A n \in 1 .. sock[k].sent :
               SentBefore(client[c].got[s], ws[c].out, s, i, [k |-> k, n |-> n])

(* Some socket of stream s of client c has, or had, the number of the      *)
(* socket each of the chunks d was read from.                              *)
ByNumber(d, c, s) ==
  \A i \in DOMAIN d : \E k \in DOMAIN sock :
    sock[k].c = c /\ sock[k].s = s /\ sock[k].fd = sock[d[i].k].fd

(* Data goes astray only where a descriptor number is used again: what a   *)
(* client gets on a stream was read from a socket with the number of the   *)
(* stream's own.                                                           *)
AstrayByReuse ==
  \A c \in Conn, s \in StreamId :
    /\ ByNumber(client[c].got[s], c, s)
    /\ \A i \in DOMAIN ws[c].out : IsData(ws[c].out[i], s) => ByNumber(ws[c].out[i].data, c, s)

(* After CLOSE a stream is silent: it is not in the map, and no packet of  *)
(* it follows.                                                             *)
ClosedIsSilent ==
  Conforming => \A c \in Conn : \A i \in DOMAIN ws[c].out :
    ws[c].out[i].type = "CLOSE" =>
      /\ ~Live(c, ws[c].out[i].stream)
      /\ \A j \in DOMAIN ws[c].out : j > i => ws[c].out[j].stream # ws[c].out[i].stream

(* A target receives the payloads of its stream in the order in which the  *)
(* client sent them.                                                       *)
UploadOrder ==
  \A k \in DOMAIN sock : \A i, j \in DOMAIN sock[k].rx :
    i < j => sock[k].rx[i].data < sock[k].rx[j].data

(* Every chunk a client gets was sent by the target of that very stream. *)
FromOwn(d, c, s) == \A i \in DOMAIN d : sock[d[i].k].c = c /\ sock[d[i].k].s = s

RightClient ==
  \A c \in Conn, s \in StreamId :
    /\ FromOwn(client[c].got[s], c, s)
    /\ \A i \in DOMAIN ws[c].out : IsData(ws[c].out[i], s) => FromOwn(ws[c].out[i].data, c, s)

(* A write task that handle_data accepted finds its stream. *)
TaskFindsStream ==
  \A w \in Worker : worker[w].at = "start" => Live(worker[w].task.c, worker[w].task.s)

----------------------------------------------------------------------------
(* Actions.                                                                *)

(* A task that stays in poll() over this step keeps its entry, and its     *)
(* descriptor keeps standing for the same socket.                          *)
PollKept ==
  \A w \in Worker :
    worker[w].at = "poll" /\ worker'[w] = worker[w] =>
      LET t  == worker[w].task
          fd == streams[t.c][t.s].fd
      IN  /\ streams'[t.c][t.s] # NoStream
          /\ streams'[t.c][t.s].fd = fd
          /\ fdtab'[fd] = fdtab[fd]

(* No step changes what the descriptor of a task in poll() stands for:     *)
(* neither the entry, nor the socket behind the number.                    *)
PollUndisturbed == [][PollKept]_vars

----------------------------------------------------------------------------
(* Liveness: the first two under CooperativeSpec, the others also need the *)
(* clients, FairSpec.                                                      *)

(* The loop thread gets through every handler: as long as targets take     *)
(* what is written to them and answer a blocked read(), neither a lock     *)
(* held in poll(-1) nor a pipe that is full because the watcher is stuck   *)
(* holds it up for ever, not even while numbers pass from stream to stream.*)
LoopReturns == loop.at # "idle" ~> (loop.at = "idle" \/ crashed)

(* Under the same condition a stream whose target goes away is closed,     *)
(* whoever had its number before and whatever the watcher, which may be    *)
(* stuck, or may have erased the number by mistake, still has to say.      *)
EndIsSeen ==
  \A c \in Conn, s \in StreamId :
    (Live(c, s) /\ sock[fdtab[streams[c][s].fd]].eof) ~> (~Live(c, s) \/ crashed)

(* A stream that is out of buffer when the target traffic of any stream is *)
(* being forwarded gets it back, also through backpressure.                *)
RefilledByTraffic ==
  \A c \in Conn, s \in StreamId :
    (Live(c, s) /\ streams[c][s].buffer = 0 /\ deferred # <<>>)
      ~> (~Live(c, s) \/ streams[c][s].buffer > 0 \/ crashed)

(* A stream that is out of buffer gets it back. *)
Replenished ==
  \A c \in Conn, s \in StreamId :
    (Live(c, s) /\ streams[c][s].buffer = 0)
      ~> (~Live(c, s) \/ streams[c][s].buffer > 0 \/ crashed)
=============================================================================
