------------------------ MODULE WoefulDownloadProofs ------------------------
(***************************************************************************)
(* What becomes of the data targets send, for any number of clients,       *)
(* streams, descriptors and pool threads: it arrives in order and at most  *)
(* once, it goes astray only where a descriptor number is used again, and  *)
(* a CLOSE comes after all of it.                                          *)
(***************************************************************************)
EXTENDS WoefulFlowProofs

----------------------------------------------------------------------------
(* The order of the chunks.                                                *)

(* Whether the watcher has an event in hand. *)
HasEvent == watcher.at \in {"reading", "stuck", "ended", "done", "counted"}

(* What has been read and not been sent: the lambdas, then the event. *)
Pending == [i \in 1..(Len(deferred) + IF HasEvent THEN 1 ELSE 0) |->
              IF i <= Len(deferred) THEN deferred[i].data ELSE watcher.e.data]

(* The chunks d have been read from the sockets q: what is unread is later. *)
Read(d, q) ==
  \A i \in DOMAIN d :
    /\ d[i].k \in DOMAIN q /\ d[i].n <= q[d[i].k].sent
    /\ \A j \in DOMAIN q[d[i].k].inq : d[i].n < q[d[i].k].inq[j]

(* What is unread of a socket is in order. *)
UnreadLine(q) ==
  \A k \in DOMAIN q : \A i \in DOMAIN q[k].inq :
    /\ q[k].inq[i] <= q[k].sent
    /\ \A j \in DOMAIN q[k].inq : i < j => q[k].inq[i] < q[k].inq[j]

(* So is what has been read and not been sent, ... *)
PendingLine(p, q) ==
  \A i \in DOMAIN p :
    /\ InOrder(p[i]) /\ Read(p[i], q)
    /\ \A j \in DOMAIN p : i < j => Precedes(p[i], p[j])

(* ... and it is behind everything that has been sent.                     *)
Behind(d, p, q) == Read(d, q) /\ \A j \in DOMAIN p : Precedes(d, p[j])

SentLine(got, out, s, p, q) ==
  /\ StreamInOrder(got, out, s)
  /\ Behind(got, p, q)
  /\ \A i \in DOMAIN out : IsData(out[i], s) => Behind(out[i].data, p, q)

(* The inductive invariant. *)
DownloadLine ==
  /\ UnreadLine(sock)
  /\ PendingLine(Pending, sock)
  /\ \A c \in Conn, s \in StreamId : SentLine(client[c].got[s], ws[c].out, s, Pending, sock)

(* Sockets go on: nothing is lost, and what becomes unread is new. *)
GoesOn(q, r) ==
  \A k \in DOMAIN q :
    /\ k \in DOMAIN r /\ q[k].sent <= r[k].sent
    /\ \A i \in DOMAIN r[k].inq :
         (\E j \in DOMAIN q[k].inq : r[k].inq[i] = q[k].inq[j]) \/ q[k].sent < r[k].inq[i]

LEMMA SocketFields ==
  ASSUME NEW q \in Seq(Socket), NEW k \in DOMAIN q
  PROVE  /\ q[k] \in Socket /\ q[k].sent \in Nat /\ q[k].inq \in Seq(Nat)
         /\ \A i \in DOMAIN q[k].inq : q[k].inq[i] \in Nat
<1>1. q[k] \in Socket
  OBVIOUS
<1>2. q[k].sent \in Nat /\ q[k].inq \in Seq(Nat)
  BY <1>1 DEF Socket
<1> QED BY <1>1, <1>2

LEMMA ReadStays ==
  ASSUME NEW d \in Seq(Chunk), NEW q \in Seq(Socket), NEW r \in Seq(Socket), GoesOn(q, r), Read(d, q)
  PROVE  Read(d, r)
<1> SUFFICES ASSUME NEW i \in DOMAIN d
             PROVE  /\ d[i].k \in DOMAIN r /\ d[i].n <= r[d[i].k].sent
                    /\ \A j \in DOMAIN r[d[i].k].inq : d[i].n < r[d[i].k].inq[j]
  BY DEF Read
<1>0. d[i] \in Chunk /\ \E k, n : k = d[i].k /\ n = d[i].n
  OBVIOUS
<1> PICK k, n : k = d[i].k /\ n = d[i].n
  BY <1>0
<1>1. n \in Nat
  BY <1>0 DEF Chunk
<1>2. k \in DOMAIN q /\ n <= q[k].sent /\ \A j \in DOMAIN q[k].inq : n < q[k].inq[j]
  BY DEF Read
<1>3. k \in DOMAIN r /\ q[k].sent <= r[k].sent
  BY <1>2 DEF GoesOn
<1>4. q[k].sent \in Nat /\ r[k].sent \in Nat /\ \A j \in DOMAIN r[k].inq : r[k].inq[j] \in Nat
  BY <1>2, <1>3, SocketFields
<1>5. ASSUME NEW j \in DOMAIN r[k].inq PROVE n < r[k].inq[j]
  <2>1. (\E m \in DOMAIN q[k].inq : r[k].inq[j] = q[k].inq[m]) \/ q[k].sent < r[k].inq[j]
    BY <1>2 DEF GoesOn
  <2>2. CASE \E m \in DOMAIN q[k].inq : r[k].inq[j] = q[k].inq[m]
    BY ONLY <1>2, <2>2, Zenon
  <2>3. CASE q[k].sent < r[k].inq[j]
    BY ONLY <1>1, <1>2, <1>4, <1>5, <2>3, SMT
  <2> QED BY <2>1, <2>2, <2>3
<1>6. n <= r[k].sent
  BY ONLY <1>1, <1>2, <1>3, <1>4, SMT
<1> QED BY <1>3, <1>5, <1>6, Zenon

(* Pending data moves up, or an empty event is added. *)
MovesUp(p, r) ==
  \E n \in {0, 1} : \A j \in DOMAIN r :
    r[j] = <<>> \/ (j + n \in DOMAIN p /\ r[j] = p[j + n])

LEMMA NothingPrecedes ==
  ASSUME NEW d
  PROVE  /\ Precedes(d, <<>>) /\ Precedes(<<>>, d) /\ InOrder(<<>>) /\ \A q : Read(<<>>, q)
  BY DEF Precedes, InOrder, Read

LEMMA PendingStays ==
  ASSUME NEW p, NEW r, NEW q \in Seq(Socket), NEW u \in Seq(Socket), GoesOn(q, u), MovesUp(p, r),
         \A i \in DOMAIN p : p[i] \in Seq(Chunk),
         DOMAIN r \subseteq Int, PendingLine(p, q)
  PROVE  PendingLine(r, u)
<1>1. PICK n \in {0, 1} : \A j \in DOMAIN r :
         r[j] = <<>> \/ (j + n \in DOMAIN p /\ r[j] = p[j + n])
  BY DEF MovesUp
<1> SUFFICES ASSUME NEW i \in DOMAIN r
             PROVE  /\ InOrder(r[i]) /\ Read(r[i], u)
                    /\ \A j \in DOMAIN r : i < j => Precedes(r[i], r[j])
  BY DEF PendingLine
<1>2. CASE r[i] = <<>>
  BY <1>2, NothingPrecedes
<1>3. CASE i + n \in DOMAIN p /\ r[i] = p[i + n]
  <2>1. InOrder(p[i + n]) /\ Read(p[i + n], q) /\ \A j \in DOMAIN p : i + n < j => Precedes(p[i + n], p[j])
    BY <1>3 DEF PendingLine
  <2>2. Read(p[i + n], u)
    BY <1>3, <2>1, ReadStays
  <2>3. ASSUME NEW j \in DOMAIN r, i < j PROVE Precedes(r[i], r[j])
    <3>1. CASE r[j] = <<>>
      BY <3>1, NothingPrecedes
    <3>2. CASE j + n \in DOMAIN p /\ r[j] = p[j + n]
      <4>1. i + n < j + n
        BY <1>1, <2>3
      <4> QED BY <1>3, <2>1, <3>2, <4>1
    <3> QED BY <1>1, <3>1, <3>2
  <2> QED BY <1>3, <2>1, <2>2, <2>3
<1> QED BY <1>1, <1>2, <1>3

LEMMA BehindStays ==
  ASSUME NEW d \in Seq(Chunk), NEW p, NEW r, NEW q \in Seq(Socket), NEW u \in Seq(Socket),
         GoesOn(q, u), MovesUp(p, r), Behind(d, p, q)
  PROVE  Behind(d, r, u)
<1>1. Read(d, u)
  BY ReadStays DEF Behind
<1>2. ASSUME NEW j \in DOMAIN r PROVE Precedes(d, r[j])
  BY NothingPrecedes DEF MovesUp, Behind
<1> QED BY <1>1, <1>2 DEF Behind

(* A queue of packets to which no DATA of the stream is added. *)
NoMoreData(out, new, s) == \A i \in DOMAIN new : IsData(new[i], s) => i \in DOMAIN out /\ new[i] = out[i]

LEMMA DataType ==
  ASSUME NEW out \in Seq(Packet), NEW i \in DOMAIN out, NEW s, IsData(out[i], s)
  PROVE  out[i].data \in Seq(Chunk)
<1>1. out[i] \in Packet
  OBVIOUS
<1>2. out[i].type = "DATA"
  BY DEF IsData
<1> QED BY <1>1, <1>2 DEF Packet

LEMMA SentStays ==
  ASSUME NEW got \in Seq(Chunk), NEW out \in Seq(Packet), NEW new \in Seq(Packet), NEW s, NEW p, NEW r,
         NEW q \in Seq(Socket), NEW u \in Seq(Socket), GoesOn(q, u), MovesUp(p, r),
         NoMoreData(out, new, s), SentLine(got, out, s, p, q), NEW now, now = got \/ now = <<>>
  PROVE  SentLine(now, new, s, r, u)
<1>1. InOrder(now) /\ Behind(now, r, u)
  BY NothingPrecedes, BehindStays DEF SentLine, StreamInOrder, Behind
<1>2. ASSUME NEW i \in DOMAIN new, IsData(new[i], s)
      PROVE  /\ InOrder(new[i].data) /\ Precedes(now, new[i].data)
             /\ \A j \in DOMAIN new : i < j /\ IsData(new[j], s) => Precedes(new[i].data, new[j].data)
             /\ Behind(new[i].data, r, u)
  <2>1. i \in DOMAIN out /\ new[i] = out[i]
    BY <1>2 DEF NoMoreData
  <2>2. /\ InOrder(out[i].data) /\ Precedes(got, out[i].data) /\ Behind(out[i].data, p, q)
        /\ \A j \in DOMAIN out : i < j /\ IsData(out[j], s) => Precedes(out[i].data, out[j].data)
    BY <1>2, <2>1 DEF SentLine, StreamInOrder
  <2>3. out[i].data \in Seq(Chunk)
    BY <1>2, <2>1, DataType
  <2>4. Behind(out[i].data, r, u)
    BY <2>2, <2>3, BehindStays
  <2>5. ASSUME NEW j \in DOMAIN new, i < j, IsData(new[j], s) PROVE Precedes(new[i].data, new[j].data)
    <3>1. j \in DOMAIN out /\ new[j] = out[j]
      BY <2>5 DEF NoMoreData
    <3> QED BY <2>1, <2>2, <2>5, <3>1
  <2>6. Precedes(now, new[i].data)
    BY <2>1, <2>2, NothingPrecedes
  <2> QED BY <2>1, <2>2, <2>4, <2>5, <2>6
<1> QED BY <1>1, <1>2 DEF SentLine, StreamInOrder

LEMMA PendingType ==
  ASSUME TypeOK
  PROVE  /\ Len(deferred) \in Nat /\ DOMAIN deferred = 1..Len(deferred)
         /\ DOMAIN Pending = 1..(Len(deferred) + IF HasEvent THEN 1 ELSE 0)
         /\ DOMAIN Pending \subseteq Int
         /\ \A i \in DOMAIN deferred : i \in DOMAIN Pending /\ Pending[i] = deferred[i].data
         /\ HasEvent => Pending[Len(deferred) + 1] = watcher.e.data /\ watcher.e \in Lambda
         /\ \A i \in DOMAIN Pending : Pending[i] \in Seq(Chunk)
<1>1. deferred \in Seq(Lambda)
  BY DEF TypeOK
<1>2. /\ Len(deferred) \in Nat /\ DOMAIN deferred = 1..Len(deferred)
      /\ \A i \in DOMAIN deferred : deferred[i] \in Lambda
  BY <1>1
<1>3. DOMAIN Pending = 1..(Len(deferred) + IF HasEvent THEN 1 ELSE 0)
  BY DEF Pending
<1>4. \A i \in DOMAIN deferred : i \in DOMAIN Pending /\ Pending[i] = deferred[i].data
  BY <1>2, <1>3 DEF Pending
<1>5. HasEvent => watcher.e \in Lambda
  BY DEF HasEvent, TypeOK, WatcherState
<1>6. HasEvent => Pending[Len(deferred) + 1] = watcher.e.data
  BY <1>2, <1>3 DEF Pending
<1>7. \A i \in DOMAIN deferred : deferred[i].data \in Seq(Chunk)
  BY <1>2 DEF Lambda
<1>8. HasEvent => watcher.e.data \in Seq(Chunk)
  BY <1>5 DEF Lambda
<1>9. \A i \in DOMAIN Pending : i \in DOMAIN deferred \/ (HasEvent /\ i = Len(deferred) + 1)
  <2>1. CASE HasEvent
    BY <1>2, <1>3, <2>1
  <2>2. CASE ~HasEvent
    BY <1>2, <1>3, <2>2
  <2> QED BY <2>1, <2>2
<1>10. \A i \in DOMAIN Pending : Pending[i] \in Seq(Chunk)
  BY <1>4, <1>6, <1>7, <1>8, <1>9, Zenon
<1>11. DOMAIN Pending \subseteq Int
  BY <1>3
<1> QED BY <1>2, <1>3, <1>4, <1>5, <1>6, <1>10, <1>11

(* The lambdas stay, and the event stays, ends or begins. *)
LEMMA PendingMoves ==
  ASSUME TypeOK, TypeOK', UNCHANGED deferred,
         HasEvent' => watcher'.e.data = <<>> \/ (HasEvent /\ watcher'.e.data = watcher.e.data)
  PROVE  MovesUp(Pending, Pending')
<1>1. ASSUME NEW j \in DOMAIN Pending'
      PROVE  Pending'[j] = <<>> \/ (j + 0 \in DOMAIN Pending /\ Pending'[j] = Pending[j + 0])
  <2>0. DOMAIN Pending' = 1..(Len(deferred') + IF HasEvent' THEN 1 ELSE 0)
    BY DEF Pending
  <2>1. j \in Int /\ j + 0 = j
    BY <2>0
  <2>2. CASE j \in DOMAIN deferred
    <3>1. Pending[j] = deferred[j].data /\ j \in DOMAIN Pending
      BY <2>2, PendingType
    <3>2. j <= Len(deferred)
      BY <2>2, PendingType
    <3>3. Pending'[j] = deferred'[j].data
      BY <3>2 DEF Pending
    <3> QED BY <2>1, <3>1, <3>3
  <2>3. CASE j \notin DOMAIN deferred
    <3>1. HasEvent' /\ j = Len(deferred) + 1 /\ ~(j <= Len(deferred))
      <4>1. Len(deferred) \in Nat /\ DOMAIN deferred = 1..Len(deferred)
        BY PendingType
      <4>2. CASE HasEvent'
        BY <2>0, <2>3, <4>1, <4>2
      <4>3. CASE ~HasEvent'
        BY <2>0, <2>3, <4>1, <4>3
      <4> QED BY <4>2, <4>3
    <3>2. Pending'[j] = watcher'.e.data
      BY <3>1 DEF Pending
    <3>3. CASE watcher'.e.data = <<>>
      BY <3>2, <3>3
    <3>4. CASE HasEvent /\ watcher'.e.data = watcher.e.data
      <4>1. Pending[Len(deferred) + 1] = watcher.e.data /\ Len(deferred) + 1 \in DOMAIN Pending
        BY <3>4, PendingType
      <4> QED BY <2>1, <3>1, <3>2, <3>4, <4>1
    <3> QED BY <3>1, <3>3, <3>4
  <2> QED BY <2>2, <2>3
<1> QED BY <1>1 DEF MovesUp

(* A step in which sockets keep what is unread, but for new ones. *)
SameUnread(q, r) ==
  /\ \A k \in DOMAIN q : k \in DOMAIN r /\ r[k].sent = q[k].sent /\ r[k].inq = q[k].inq
  /\ \A k \in DOMAIN r : k \notin DOMAIN q => r[k].inq = <<>>

LEMMA UnreadStays ==
  ASSUME NEW q \in Seq(Socket), NEW r, SameUnread(q, r), UnreadLine(q)
  PROVE  GoesOn(q, r) /\ UnreadLine(r)
<1>1. \A k \in DOMAIN q : q[k].sent \in Nat
  BY SocketFields
<1>2. \A k \in DOMAIN q : q[k].sent <= q[k].sent
  BY <1>1
<1>3. GoesOn(q, r)
  BY <1>2, Zenon DEF GoesOn, SameUnread
<1>4. ASSUME NEW k \in DOMAIN r, NEW i \in DOMAIN r[k].inq
      PROVE  r[k].inq[i] <= r[k].sent /\ \A j \in DOMAIN r[k].inq : i < j => r[k].inq[i] < r[k].inq[j]
  <2>1. k \in DOMAIN q
    BY <1>4 DEF SameUnread
  <2> QED BY <2>1, <1>4, Zenon DEF SameUnread, UnreadLine
<1> QED BY <1>3, <1>4 DEF UnreadLine

(* A step that concerns no data on its way to a client. *)
StreamKept(c, s) ==
  /\ client'[c].got[s] = client[c].got[s] \/ client'[c].got[s] = <<>>
  /\ NoMoreData(ws[c].out, ws'[c].out, s)

LEMMA StreamTypes ==
  ASSUME TypeOK, NEW c \in Conn
  PROVE  ws[c].out \in Seq(Packet) /\ \A s \in StreamId : client[c].got[s] \in Seq(Chunk)
<1>1. client[c] \in ClientState /\ ws[c].out \in Seq(Packet)
  BY DEF TypeOK
<1> QED BY <1>1 DEF ClientState

LEMMA DownloadStays ==
  ASSUME TypeOK, TypeOK', DownloadLine, GoesOn(sock, sock'), UnreadLine(sock'), MovesUp(Pending, Pending'),
         \A c \in Conn, s \in StreamId : StreamKept(c, s)
  PROVE  DownloadLine'
<1>1. sock \in Seq(Socket) /\ sock' \in Seq(Socket)
  BY DEF TypeOK
<1>2. DOMAIN Pending' \subseteq Int
  BY DEF TypeOK, Pending
<1>3. PendingLine(Pending', sock')
  BY <1>1, <1>2, PendingType, PendingStays DEF DownloadLine
<1>4. ASSUME NEW c \in Conn, NEW s \in StreamId
      PROVE  SentLine(client'[c].got[s], ws'[c].out, s, Pending', sock')
  <2>1. ws[c].out \in Seq(Packet) /\ client[c].got[s] \in Seq(Chunk) /\ ws'[c].out \in Seq(Packet)
    BY StreamTypes DEF TypeOK
  <2>2. SentLine(client[c].got[s], ws[c].out, s, Pending, sock) /\ StreamKept(c, s)
    BY DEF DownloadLine
  <2> QED BY <1>1, <2>1, <2>2, SentStays DEF StreamKept
<1> QED BY <1>3, <1>4 DEF DownloadLine

----------------------------------------------------------------------------
(* What is sent besides DATA.                                              *)

LEMMA NothingAdded ==
  ASSUME NEW out, NEW s
  PROVE  NoMoreData(out, out, s)
  BY DEF NoMoreData

LEMMA OthersAdded ==
  ASSUME NEW out \in Seq(Packet), NEW more \in Seq(Packet), NEW s,
         \A i \in DOMAIN more : ~IsData(more[i], s)
  PROVE  NoMoreData(out, out \o more, s)
<1> SUFFICES ASSUME NEW i \in DOMAIN (out \o more), IsData((out \o more)[i], s)
             PROVE  i \in DOMAIN out /\ (out \o more)[i] = out[i]
  BY DEF NoMoreData
<1>1. CASE i \in DOMAIN out
  BY <1>1
<1>2. CASE i \notin DOMAIN out
  <2>1. i - Len(out) \in DOMAIN more /\ (out \o more)[i] = more[i - Len(out)]
    BY <1>2
  <2> QED BY <2>1
<1> QED BY <1>1, <1>2

(* What the clients have received stays, and so does what is sent but c's. *)
GotKept == \A d \in Conn, s \in StreamId : client'[d].got[s] = client[d].got[s]

LEMMA NothingSent ==
  ASSUME GotKept, UNCHANGED ws
  PROVE  \A d \in Conn, s \in StreamId : StreamKept(d, s)
  BY NothingAdded DEF GotKept, StreamKept

LEMMA SendKeeps ==
  ASSUME TypeOK, GotKept, NEW c \in Conn, NEW p, <<p>> \in Seq(Packet), p.type # "DATA", SendTo(c, <<p>>)
  PROVE  \A d \in Conn, s \in StreamId : StreamKept(d, s)
<1> SUFFICES ASSUME NEW d \in Conn, NEW s \in StreamId PROVE NoMoreData(ws[d].out, ws'[d].out, s)
  BY DEF GotKept, StreamKept
<1>1. p \in Packet
  <2>1. <<p>>[1] \in Packet /\ <<p>>[1] = p
    OBVIOUS
  <2> QED BY <2>1
<1>2. ws[d].out \in Seq(Packet)
  BY StreamTypes
<1>3. \A i \in DOMAIN <<p>> : ~IsData(<<p>>[i], s)
  BY DEF IsData
<1>4. ws'[d].out = ws[d].out \/ ws'[d].out = ws[d].out \o <<p>>
  BY <1>1, SendOne
<1> QED BY <1>2, <1>3, <1>4, NothingAdded, OthersAdded

(* Packets that carry no data, and are not the answer to a target's end. *)
Plain(p) == p.type = "CONTINUE" \/ (p.type = "CLOSE" /\ p.reason = "0x41")

OnlyPlain ==
  \A c \in Conn : \E more \in Seq(Packet) :
    ws'[c].out = ws[c].out \o more /\ \A i \in DOMAIN more : Plain(more[i])

LEMMA NothingPlain ==
  ASSUME NEW q \in Seq(Packet), NEW r, r = q
  PROVE  \E more \in Seq(Packet) : r = q \o more /\ \A i \in DOMAIN more : Plain(more[i])
<1>1. <<>> \in Seq(Packet) /\ q \o <<>> = q /\ DOMAIN <<>> = {}
  OBVIOUS
<1> QED BY <1>1

LEMMA UnsentPlain ==
  ASSUME TypeOK, UNCHANGED ws
  PROVE  OnlyPlain
BY StreamTypes, NothingPlain DEF OnlyPlain

LEMMA SendPlain ==
  ASSUME TypeOK, NEW c \in Conn, NEW p \in Packet, Plain(p) \/ manager[c] = "closing",
         SendTo(c, <<p>>)
  PROVE  OnlyPlain
<1> SUFFICES ASSUME NEW d \in Conn
             PROVE  \E more \in Seq(Packet) :
                      ws'[d].out = ws[d].out \o more /\ \A i \in DOMAIN more : Plain(more[i])
  BY DEF OnlyPlain
<1>1. ws[d].out \in Seq(Packet)
  BY StreamTypes
<1>2. ws'[d].out = ws[d].out \/ (Plain(p) /\ ws'[d].out = ws[d].out \o <<p>>)
  BY SendOne
<1>3. <<p>> \in Seq(Packet) /\ \A i \in DOMAIN <<p>> : <<p>>[i] = p
  OBVIOUS
<1> QED BY <1>1, <1>2, <1>3, NothingPlain

LEMMA UpdatePlain ==
  ASSUME TypeOK, NEW c \in Conn, NEW w \in Websocket, w.out = ws[c].out, NEW hb,
         update_streams(c, w, hb)
  PROVE  OnlyPlain
<1> SUFFICES ASSUME NEW d \in Conn
             PROVE  \E more \in Seq(Packet) :
                      ws'[d].out = ws[d].out \o more /\ \A i \in DOMAIN more : Plain(more[i])
  BY DEF OnlyPlain
<1>0. ws[d].out \in Seq(Packet)
  BY StreamTypes
<1>1. CASE ws' = [ws EXCEPT ![c] = w]
  <2>1. ws'[d].out = ws[d].out
    BY <1>1 DEF TypeOK
  <2> QED BY <1>0, <2>1, NothingPlain
<1>2. ASSUME NEW packets \in Seq(Packet), ws' = [ws EXCEPT ![c] = Send(c, w, packets)],
             \A i \in DOMAIN packets : \E t \in Empty(c) : packets[i] = Continue(t)
      PROVE  \E more \in Seq(Packet) :
               ws'[d].out = ws[d].out \o more /\ \A i \in DOMAIN more : Plain(more[i])
  <2>1. CASE d # c
    <3>1. ws'[d] = ws[d]
      BY <1>2, <2>1 DEF TypeOK
    <3> QED BY <1>0, <3>1, NothingPlain
  <2>2. CASE d = c
    <3>1. ws'[d] = Send(c, w, packets)
      BY <1>2, <2>2 DEF TypeOK
    <3>a. \E sent \in Seq(Packet) :
           /\ Send(c, w, packets).out = w.out \o sent
           /\ \A i \in DOMAIN sent : i \in DOMAIN packets /\ sent[i] = packets[i]
           /\ /\ w.backlog <= MAX_BACKPRESSURE /\ manager[c] # "closing"
              /\ Send(c, w, packets).backlog <= MAX_BACKPRESSURE
              => sent = packets
           /\ manager[c] = "closing" => sent = <<>>
           /\ w.backlog <= Send(c, w, packets).backlog
      BY SendOut, Zenon
    <3>2. PICK sent \in Seq(Packet) :
            /\ Send(c, w, packets).out = w.out \o sent
            /\ \A i \in DOMAIN sent : i \in DOMAIN packets /\ sent[i] = packets[i]
      BY <3>a, Zenon
    <3>3. \A i \in DOMAIN sent : sent[i].type = "CONTINUE"
      BY <1>2, <3>2, PacketFields
    <3> QED BY <2>2, <3>1, <3>2, <3>3 DEF Plain
  <2> QED BY <2>1, <2>2
<1>3. \/ UNCHANGED streams /\ ws' = [ws EXCEPT ![c] = w]
      \/ /\ Refilled(c)
         /\ \E packets \in Seq(Packet) :
              /\ ws' = [ws EXCEPT ![c] = Send(c, w, packets)]
              /\ \A i \in DOMAIN packets : \E t \in Empty(c) : packets[i] = Continue(t)
              /\ \A t \in Empty(c) : Has(packets, t, "CONTINUE")
              /\ \A i, j \in DOMAIN packets : packets[i].stream = packets[j].stream => i = j
  BY ONLY TypeOK, c \in Conn, w \in Websocket, update_streams(c, w, hb), UpdateOut, Zenon
<1> QED BY ONLY <1>1, <1>2, <1>3, Zenon

LEMMA PlainKeeps ==
  ASSUME TypeOK, GotKept, OnlyPlain
  PROVE  \A d \in Conn, s \in StreamId : StreamKept(d, s)
<1> SUFFICES ASSUME NEW d \in Conn, NEW s \in StreamId PROVE NoMoreData(ws[d].out, ws'[d].out, s)
  BY DEF GotKept, StreamKept
<1>1. PICK more \in Seq(Packet) :
        ws'[d].out = ws[d].out \o more /\ \A i \in DOMAIN more : Plain(more[i])
  BY DEF OnlyPlain
<1>2. \A i \in DOMAIN more : ~IsData(more[i], s)
  BY <1>1 DEF Plain, IsData
<1> QED BY <1>1, <1>2, StreamTypes, OthersAdded

LEMMA PlainTypes ==
  /\ Continue(0) \in Packet /\ Plain(Continue(0))
  /\ \A s \in StreamId : /\ Continue(s) \in Packet /\ Plain(Continue(s))
                         /\ Close("0x41", s) \in Packet /\ Plain(Close("0x41", s))
                         /\ Close("0x02", s) \in Packet
                         /\ \A d \in Seq(Chunk) : Data(s, d) \in Packet
BY StateAssumption DEF Packet, Plain, Continue, Close, Data

(* What the steps of the loop thread send, ... *)
LEMMA LoopSends ==
  ASSUME TypeOK, Ownership, LoopStep
  PROVE  GotKept /\ (RunDeferred \/ DeferredClose \/ OnlyPlain)
<1> USE DEF mgrVars, deferVars, kernelVars, poolVars, netVars
<1>0. UNCHANGED client
  BY Zenon DEF LoopStep, ConnectFails, ConnectSucceeds, ConnectInsert, Wake,
         RunDeferred, DeferredClose, Finish, UpdateNext, ForceClose, Destruct
<1>1. CASE ConnectSucceeds \/ ConnectInsert \/ Wake \/ Finish \/ Destruct
  <2>1. UNCHANGED ws
    BY <1>1, Zenon DEF ConnectSucceeds, ConnectInsert, Wake, Finish, Destruct
  <2> QED BY <1>0, <2>1, UnsentPlain DEF GotKept
<1>2. CASE ConnectFails
  <2>1. loop.at = "connect" /\ SendTo(loop.c, <<Close("0x41", loop.s)>>)
    BY <1>2, Zenon DEF ConnectFails
  <2>2. loop.c \in Conn /\ loop.s \in StreamId
    BY <2>1 DEF TypeOK, LoopState
  <2> QED BY <1>0, <2>1, <2>2, PlainTypes, SendPlain DEF GotKept
<1>3. CASE ForceClose
  <2>1. PICK s \in loop.todo : close_stream(loop.c, s)
    BY <1>3, Zenon DEF ForceClose
  <2>2. loop.at = "force" /\ SendTo(loop.c, <<Close("0x02", s)>>)
    BY <1>3, <2>1, Zenon DEF ForceClose, close_stream
  <2>3. loop.c \in Conn /\ s \in StreamId /\ manager[loop.c] = "closing"
    BY <2>1, <2>2 DEF TypeOK, LoopState, Ownership, LoopOwns
  <2> QED BY <1>0, <2>2, <2>3, PlainTypes, SendPlain DEF GotKept
<1>4. CASE UpdateNext
  <2>1. PICK c \in loop.todo : update_streams(c, ws[c], has_backpressure[c])
    BY <1>4, Zenon DEF UpdateNext
  <2>2. loop.at = "update"
    BY <1>4, Zenon DEF UpdateNext
  <2>3. c \in Conn /\ ws[c] \in Websocket
    BY <2>2 DEF TypeOK, LoopState, Websocket
  <2> QED BY <1>0, <2>1, <2>3, UpdatePlain DEF GotKept
<1>5. CASE RunDeferred \/ DeferredClose
  BY <1>0, <1>5 DEF GotKept
<1> QED BY <1>1, <1>2, <1>3, <1>4, <1>5 DEF LoopStep

(* ... and the callbacks, but for the close callback.                      *)
LEMMA OutsideSends ==
  ASSUME TypeOK, Outside
  PROVE  \/ GotKept /\ OnlyPlain
         \/ \E c \in Conn : WsClosed(c) \/ ClientReceive(c)
<1> USE DEF mgrVars, deferVars, kernelVars, poolVars, netVars
<1>0. UNCHANGED client => GotKept
  BY DEF GotKept
<1>a. ASSUME NEW c \in Conn, NEW v, client' = [client EXCEPT ![c] = v], v.got = client[c].got
      PROVE  GotKept
  BY <1>a DEF TypeOK, GotKept
<1>b. \A c \in Conn : client[c] \in ClientState
  BY DEF TypeOK
<1>1. ASSUME NEW c \in Conn, Open(c) PROVE GotKept /\ OnlyPlain
  <2>1. UNCHANGED client /\ SendTo(c, <<Continue(0)>>)
    BY <1>1, Zenon DEF Open, Construct
  <2> QED BY <1>0, <2>1, PlainTypes, SendPlain
<1>2. ASSUME NEW c \in Conn, Drain(c) PROVE GotKept /\ OnlyPlain
  <2>1. UNCHANGED client /\ update_streams(c, Moved(ws[c]), FALSE)
    BY <1>2, Zenon DEF Drain
  <2>2. ws[c] \in Websocket
    BY DEF TypeOK, Websocket
  <2>3. Moved(ws[c]) \in Websocket /\ Moved(ws[c]).out = ws[c].out
    BY <2>2, MovedKeepsOut
  <2> QED BY <1>0, <2>1, <2>3, UpdatePlain
<1>3. ASSUME NEW c \in Conn, NEW s \in StreamId, RecvData(c, s) PROVE GotKept /\ OnlyPlain
  <2> DEFINE v == [client[c] EXCEPT !.sent[s] = @ + 1,
                     !.credit[s] = IF client[c].state[s] = "tcp" /\ @ > 0 THEN @ - 1 ELSE @]
  <2>1. /\ UNCHANGED ws \/ SendTo(c, <<Continue(s)>>)
        /\ client' = [client EXCEPT ![c].sent[s] = @ + 1,
                        ![c].credit[s] = IF client[c].state[s] = "tcp" /\ @ > 0 THEN @ - 1 ELSE @]
    BY <1>3, Zenon DEF RecvData, handle_data, charge
  <2>2. client' = [client EXCEPT ![c] = v]
    BY <1>b, <2>1
  <2>3. v.got = client[c].got
    BY <1>b DEF ClientState
  <2> HIDE DEF v
  <2>4. GotKept
    BY <1>a, <2>2, <2>3
  <2> QED BY <2>1, <2>4, PlainTypes, SendPlain, UnsentPlain
<1>4. ASSUME NEW c \in Conn, NEW s \in StreamId, RecvClose(c, s) PROVE GotKept /\ OnlyPlain
  <2>1. UNCHANGED ws /\ client' = [client EXCEPT ![c] = [client[c] EXCEPT !.state[s] = "closed"]]
    BY <1>4 DEF RecvClose
  <2>2. [client[c] EXCEPT !.state[s] = "closed"].got = client[c].got
    BY <1>b DEF ClientState
  <2> QED BY <1>a, <2>1, <2>2, UnsentPlain
<1>5. ASSUME NEW c \in Conn, NEW s \in StreamId, NEW type \in Asked, RecvConnect(c, s, type)
      PROVE  GotKept /\ OnlyPlain
  <2> DEFINE v == [client[c] EXCEPT !.state[s] = type, !.credit[s] = client[c].credit[0]]
  <2>1. /\ UNCHANGED ws \/ SendTo(c, <<Close("0x41", s)>>)
        /\ client' = [client EXCEPT ![c].state[s] = type, ![c].credit[s] = client[c].credit[0]]
    BY <1>5, Zenon DEF RecvConnect, handle_connect
  <2>2. client' = [client EXCEPT ![c] = v]
    BY <1>b, <2>1
  <2>3. v.got = client[c].got
    BY <1>b DEF ClientState
  <2> HIDE DEF v
  <2>4. GotKept
    BY <1>a, <2>2, <2>3
  <2> QED BY <2>1, <2>4, PlainTypes, SendPlain, UnsentPlain
<1>6. ASSUME NEW k \in DOMAIN sock, TargetSend(k) \/ TargetClose(k) PROVE GotKept /\ OnlyPlain
  <2>1. UNCHANGED <<ws, client>>
    BY <1>6, Zenon DEF TargetSend, TargetClose
  <2> QED BY <1>0, <2>1, UnsentPlain
<1> QED BY <1>1, <1>2, <1>3, <1>4, <1>5, <1>6, Zenon DEF Outside

LEMMA SocketAdded ==
  ASSUME NEW q \in Seq(Socket), NEW x, NEW r, r = Append(q, x)
  PROVE  /\ DOMAIN r = DOMAIN q \cup {Len(q) + 1} /\ Len(q) + 1 \notin DOMAIN q
         /\ \A l \in DOMAIN q : r[l] = q[l]
         /\ r[Len(q) + 1] = x /\ Len(q) + 1 \in Nat \ {0}
  OBVIOUS

(* socket() in open_stream: socket k is new, and has a number nobody has. *)
Opens(c, s, fd, k) ==
  /\ DOMAIN sock' = DOMAIN sock \cup {k} /\ k \notin DOMAIN sock /\ k \in Nat \ {0}
  /\ \A l \in DOMAIN sock : sock'[l] = sock[l]
  /\ sock'[k].c = c /\ sock'[k].s = s /\ sock'[k].fd = fd
  /\ sock'[k].sent = 0 /\ sock'[k].inq = <<>>
  /\ fdtab[fd] = 0 /\ fdtab' = [fdtab EXCEPT ![fd] = k]
  /\ loop'.at = "connect" /\ loop'.c = c /\ loop'.s = s /\ loop'.fd = fd
  /\ UNCHANGED <<epoll, ws>>

LEMMA ConnectForms ==
  ASSUME TypeOK, NEW c \in Conn, NEW s \in StreamId, NEW type \in Asked, RecvConnect(c, s, type)
  PROVE  /\ loop.at = "idle" /\ manager[c] = "open"
         /\ UNCHANGED <<manager, streams, deferred, watcher>>
         /\ client' = [client EXCEPT ![c].state[s] = type, ![c].credit[s] = client[c].credit[0]]
         /\ \/ SendTo(c, <<Close("0x41", s)>>) /\ UNCHANGED <<loop, epoll, fdtab, sock>>
            \/ \E fd \in Fd : \E k : Opens(c, s, fd, k)
<1>1. /\ loop.at = "idle" /\ manager[c] = "open"
      /\ UNCHANGED <<manager, streams, deferred, watcher>>
      /\ client' = [client EXCEPT ![c].state[s] = type, ![c].credit[s] = client[c].credit[0]]
  BY Zenon DEF RecvConnect, mgrVars, deferVars
<1>2. \/ SendTo(c, <<Close("0x41", s)>>) /\ UNCHANGED <<loop, epoll, fdtab, sock>>
      \/ \E fd \in Fd :
           /\ fdtab[fd] = 0
           /\ sock' = Append(sock, [c |-> c, s |-> s, fd |-> fd, sent |-> 0,
                                    inq |-> <<>>, eof |-> FALSE, rx |-> <<>>])
           /\ fdtab' = [fdtab EXCEPT ![fd] = Len(sock) + 1]
           /\ loop' = [at |-> "connect", c |-> c, s |-> s, type |-> type, fd |-> fd]
           /\ UNCHANGED <<epoll, pipe, ws>>
  BY Zenon DEF RecvConnect, handle_connect, kernelVars
<1>3. ASSUME NEW fd \in Fd,
             /\ fdtab[fd] = 0
             /\ sock' = Append(sock, [c |-> c, s |-> s, fd |-> fd, sent |-> 0,
                                      inq |-> <<>>, eof |-> FALSE, rx |-> <<>>])
             /\ fdtab' = [fdtab EXCEPT ![fd] = Len(sock) + 1]
             /\ loop' = [at |-> "connect", c |-> c, s |-> s, type |-> type, fd |-> fd]
             /\ UNCHANGED <<epoll, pipe, ws>>
      PROVE  Opens(c, s, fd, Len(sock) + 1)
  <2>1. PICK x : x = [c |-> c, s |-> s, fd |-> fd, sent |-> 0, inq |-> <<>>, eof |-> FALSE, rx |-> <<>>]
    OBVIOUS
  <2>2. x.c = c /\ x.s = s /\ x.fd = fd /\ x.sent = 0 /\ x.inq = <<>>
    BY <2>1
  <2>3. sock \in Seq(Socket) /\ sock' = Append(sock, x)
    BY <1>3, <2>1 DEF TypeOK
  <2>4. /\ DOMAIN sock' = DOMAIN sock \cup {Len(sock) + 1} /\ Len(sock) + 1 \notin DOMAIN sock
        /\ \A l \in DOMAIN sock : sock'[l] = sock[l]
        /\ sock'[Len(sock) + 1] = x /\ Len(sock) + 1 \in Nat \ {0}
    BY ONLY <2>3, SocketAdded
  <2>5. loop'.at = "connect" /\ loop'.c = c /\ loop'.s = s /\ loop'.fd = fd
    BY <1>3
  <2> QED BY <1>3, <2>2, <2>4, <2>5, Zenon DEF Opens
<1> QED BY <1>1, <1>2, <1>3, Zenon

(* The websocket is closed: nothing is on its way, nothing was received. *)
LEMMA ClosedKeeps ==
  ASSUME TypeOK, NEW c \in Conn, WsClosed(c)
  PROVE  \A d \in Conn, s \in StreamId : StreamKept(d, s)
<1>1. /\ ws' = [ws EXCEPT ![c] = [out |-> <<>>, backlog |-> 0]]
      /\ client' = [client EXCEPT ![c] = InitClient]
  BY Zenon DEF WsClosed
<1>2. ws'[c].out = <<>> /\ \A s \in StreamId : client'[c].got[s] = <<>>
  BY <1>1 DEF TypeOK, InitClient
<1>3. \A d \in Conn : d # c => ws'[d] = ws[d] /\ client'[d] = client[d]
  BY <1>1 DEF TypeOK
<1>4. \A s : NoMoreData(ws[c].out, <<>>, s)
  BY DEF NoMoreData
<1> QED BY <1>2, <1>3, <1>4, NothingAdded, Zenon DEF StreamKept

----------------------------------------------------------------------------
(* The watcher reads a chunk.                                              *)

LEMMA OneMore ==
  ASSUME NEW d \in Seq(Chunk), NEW x \in Chunk
  PROVE  /\ Append(d, x) \in Seq(Chunk) /\ DOMAIN Append(d, x) = DOMAIN d \cup {Len(d) + 1}
         /\ Len(d) + 1 \notin DOMAIN d /\ DOMAIN d \subseteq Int
         /\ \A i \in DOMAIN d : i < Len(d) + 1 /\ ~(Len(d) + 1 < i) /\ Append(d, x)[i] = d[i]
         /\ Append(d, x)[Len(d) + 1] = x
  OBVIOUS

(* x comes after the chunks of d. *)
After(d, x) == \A i \in DOMAIN d : d[i].k = x.k => d[i].n < x.n

LEMMA OrderOfMore ==
  ASSUME NEW d \in Seq(Chunk), NEW x \in Chunk, InOrder(d), After(d, x)
  PROVE  InOrder(Append(d, x))
<1> DEFINE e == Append(d, x)
           l == Len(d) + 1
<1>1. /\ DOMAIN e = DOMAIN d \cup {l} /\ e[l] = x
      /\ \A i \in DOMAIN d : ~(l < i) /\ e[i] = d[i]
  BY OneMore
<1>2. ~(l < l)
  OBVIOUS
<1> HIDE DEF e, l
<1> SUFFICES ASSUME NEW i \in DOMAIN e, NEW j \in DOMAIN e, i < j, e[i].k = e[j].k PROVE e[i].n < e[j].n
  BY DEF InOrder, e
<1>3. i \in DOMAIN d /\ e[i] = d[i]
  BY <1>1, <1>2, Zenon
<1>4. CASE j = l
  BY <1>1, <1>3, <1>4, Zenon DEF After
<1>5. CASE j \in DOMAIN d
  BY <1>1, <1>3, <1>5, Zenon DEF InOrder
<1> QED BY <1>1, <1>4, <1>5, Zenon

LEMMA PrecedesMore ==
  ASSUME NEW d, NEW e \in Seq(Chunk), NEW x \in Chunk, Precedes(d, e), After(d, x)
  PROVE  Precedes(d, Append(e, x))
<1> DEFINE f == Append(e, x)
           l == Len(e) + 1
<1>1. /\ DOMAIN f = DOMAIN e \cup {l} /\ f[l] = x /\ \A i \in DOMAIN e : f[i] = e[i]
  BY OneMore
<1> HIDE DEF f, l
<1> SUFFICES ASSUME NEW i \in DOMAIN d, NEW j \in DOMAIN f, d[i].k = f[j].k PROVE d[i].n < f[j].n
  BY DEF Precedes, f
<1> QED BY <1>1, Zenon DEF Precedes, After

LEMMA ReadMore ==
  ASSUME NEW d \in Seq(Chunk), NEW x \in Chunk, NEW q, Read(d, q), Read(<<x>>, q)
  PROVE  Read(Append(d, x), q)
<1> DEFINE e == Append(d, x)
           l == Len(d) + 1
<1>1. /\ DOMAIN e = DOMAIN d \cup {l} /\ e[l] = x /\ \A i \in DOMAIN d : e[i] = d[i]
  BY OneMore
<1> HIDE DEF e, l
<1>2. x.k \in DOMAIN q /\ x.n <= q[x.k].sent /\ \A j \in DOMAIN q[x.k].inq : x.n < q[x.k].inq[j]
  <2>1. 1 \in DOMAIN <<x>> /\ <<x>>[1] = x
    OBVIOUS
  <2> QED BY <2>1 DEF Read
<1> SUFFICES ASSUME NEW i \in DOMAIN e
             PROVE  /\ e[i].k \in DOMAIN q /\ e[i].n <= q[e[i].k].sent
                    /\ \A j \in DOMAIN q[e[i].k].inq : e[i].n < q[e[i].k].inq[j]
  BY DEF Read, e
<1>3. CASE i = l
  BY <1>1, <1>2, <1>3, Zenon
<1>4. CASE i \in DOMAIN d
  BY <1>1, <1>4, Zenon DEF Read
<1> QED BY <1>1, <1>3, <1>4

(* read() takes the first unread chunk x of socket k. *)
Takes(q, r, k, x) ==
  /\ k \in DOMAIN q /\ q[k].inq # <<>> /\ r = [q EXCEPT ![k].inq = Tail(@)]
  /\ x = [k |-> k, n |-> Head(q[k].inq)]

LEMMA TakesFirst ==
  ASSUME NEW q \in Seq(Socket), NEW r \in Seq(Socket), NEW k, NEW x, Takes(q, r, k, x), UnreadLine(q)
  PROVE  /\ GoesOn(q, r) /\ UnreadLine(r) /\ x \in Chunk /\ Read(<<x>>, r)
         /\ \A d \in Seq(Chunk) : Read(d, q) => After(d, x)
<1>0. /\ k \in DOMAIN q /\ q[k].inq # <<>> /\ r = [q EXCEPT ![k].inq = Tail(@)]
      /\ x = [k |-> k, n |-> Head(q[k].inq)]
  BY DEF Takes
<1>1. q[k] \in Socket /\ q[k].inq \in Seq(Nat) /\ q[k].sent \in Nat /\ k \in Nat
  BY <1>0, SocketFields
<1> DEFINE h == q[k].inq
           t == Tail(h)
<1>a. h \in Seq(Nat) /\ h # <<>>
  BY <1>0, <1>1
<1>2. /\ Head(h) = h[1] /\ 1 \in DOMAIN h /\ h[1] \in Nat /\ t \in Seq(Nat)
      /\ \A i \in DOMAIN t : i \in Nat /\ 1 < i + 1 /\ i + 1 \in DOMAIN h /\ t[i] = h[i + 1]
  <2> HIDE DEF h
  <2> QED BY ONLY <1>a, SMT DEF t
<1>3. /\ DOMAIN r = DOMAIN q /\ \A m \in DOMAIN q : m # k => r[m] = q[m]
      /\ r[k] = [q[k] EXCEPT !.inq = t]
  BY <1>0
<1>4. r[k].inq = t /\ r[k].sent = q[k].sent
  BY <1>1, <1>3 DEF Socket
<1>5. x.k = k /\ x.n = h[1] /\ x \in Chunk
  BY <1>0, <1>1, <1>2 DEF Chunk
<1>6. /\ h[1] <= q[k].sent /\ \A i \in DOMAIN h : h[i] <= q[k].sent
      /\ \A i, j \in DOMAIN h : i < j => h[i] < h[j]
  BY <1>0, <1>2 DEF UnreadLine
<1> HIDE DEF h, t
<1>7. GoesOn(q, r)
  <2> SUFFICES ASSUME NEW m \in DOMAIN q
               PROVE  /\ m \in DOMAIN r /\ q[m].sent <= r[m].sent
                      /\ \A i \in DOMAIN r[m].inq :
                           (\E j \in DOMAIN q[m].inq : r[m].inq[i] = q[m].inq[j]) \/ q[m].sent < r[m].inq[i]
    BY DEF GoesOn
  <2>1. m \in DOMAIN r /\ r[m].sent = q[m].sent
    BY <1>3, <1>4
  <2>2. q[m].sent <= q[m].sent
    BY SocketFields
  <2>3. CASE m # k
    BY <1>3, <2>1, <2>2, <2>3
  <2>4. CASE m = k
    BY <1>2, <1>4, <2>1, <2>2, <2>4, Zenon DEF h
  <2> QED BY <2>3, <2>4
<1>8. UnreadLine(r)
  <2> SUFFICES ASSUME NEW m \in DOMAIN r, NEW i \in DOMAIN r[m].inq
               PROVE  /\ r[m].inq[i] <= r[m].sent
                      /\ \A j \in DOMAIN r[m].inq : i < j => r[m].inq[i] < r[m].inq[j]
    BY DEF UnreadLine
  <2>1. CASE m # k
    BY <1>3, <2>1 DEF UnreadLine
  <2>2. CASE m = k
    <3>1. i \in DOMAIN t
      BY <1>4, <2>2
    <3>2. t[i] <= q[k].sent
      BY <1>2, <1>6, <3>1
    <3>3. ASSUME NEW j \in DOMAIN t, i < j PROVE t[i] < t[j]
      <4>1. i + 1 < j + 1
        BY <1>2, <3>1, <3>3
      <4> QED BY <1>2, <1>6, <3>1, <4>1
    <3> QED BY <1>4, <2>2, <3>2, <3>3
  <2> QED BY <2>1, <2>2
<1>9. Read(<<x>>, r)
  <2>1. \A i \in DOMAIN <<x>> : <<x>>[i] = x
    OBVIOUS
  <2>2. \A j \in DOMAIN t : h[1] < t[j]
    BY <1>2, <1>6
  <2>3. x.k \in DOMAIN r /\ x.n <= r[x.k].sent /\ \A j \in DOMAIN r[x.k].inq : x.n < r[x.k].inq[j]
    BY <1>0, <1>3, <1>4, <1>5, <1>6, <2>2, Zenon
  <2> QED BY <2>1, <2>3, Zenon DEF Read
<1>10. ASSUME NEW d \in Seq(Chunk), Read(d, q) PROVE After(d, x)
  BY <1>2, <1>5, <1>10, Zenon DEF Read, After, h
<1> QED BY <1>5, <1>7, <1>8, <1>9, <1>10

(* The chunk joins the last of what is pending. *)
Joins(p, r, x) ==
  /\ DOMAIN r = DOMAIN p
  /\ \E l \in DOMAIN p : /\ r[l] = Append(p[l], x)
                         /\ \A j \in DOMAIN p : ~(l < j) /\ (j # l => r[j] = p[j])

LEMMA PendingJoined ==
  ASSUME NEW p, NEW r, NEW q \in Seq(Socket), NEW u \in Seq(Socket), NEW k, NEW x, Takes(q, u, k, x),
         UnreadLine(q), \A i \in DOMAIN p : p[i] \in Seq(Chunk), Joins(p, r, x), PendingLine(p, q)
  PROVE  /\ PendingLine(r, u)
         /\ \A d \in Seq(Chunk) : Behind(d, p, q) => Behind(d, r, u)
<1>1. GoesOn(q, u) /\ x \in Chunk /\ Read(<<x>>, u) /\ \A d \in Seq(Chunk) : Read(d, q) => After(d, x)
  BY TakesFirst
<1>2. PICK l \in DOMAIN p : /\ r[l] = Append(p[l], x)
                            /\ \A j \in DOMAIN p : ~(l < j) /\ (j # l => r[j] = p[j])
  BY DEF Joins
<1>3. DOMAIN r = DOMAIN p
  BY DEF Joins
<1>4. ASSUME NEW d \in Seq(Chunk), Read(d, q), NEW j \in DOMAIN p, Precedes(d, p[j])
      PROVE  Precedes(d, r[j])
  <2>1. After(d, x)
    BY <1>1, <1>4
  <2>2. CASE j = l
    BY <1>1, <1>2, <1>4, <2>1, <2>2, PrecedesMore
  <2>3. CASE j # l
    BY <1>2, <1>4, <2>3
  <2> QED BY <2>2, <2>3
<1>5. ASSUME NEW d \in Seq(Chunk), Behind(d, p, q) PROVE Behind(d, r, u)
  <2>1. Read(d, u)
    BY <1>1, <1>5, ReadStays DEF Behind
  <2> QED BY <1>3, <1>4, <1>5, <2>1 DEF Behind
<1>6. ASSUME NEW i \in DOMAIN r
      PROVE  /\ InOrder(r[i]) /\ Read(r[i], u)
             /\ \A j \in DOMAIN r : i < j => Precedes(r[i], r[j])
  <2>1. /\ i \in DOMAIN p /\ p[i] \in Seq(Chunk) /\ InOrder(p[i]) /\ Read(p[i], q)
        /\ \A j \in DOMAIN p : i < j => Precedes(p[i], p[j])
    BY <1>3, <1>6 DEF PendingLine
  <2>2. Read(p[i], u) /\ After(p[i], x)
    BY <1>1, <2>1, ReadStays
  <2>3. CASE i = l
    <3>1. InOrder(r[i]) /\ Read(r[i], u)
      BY <1>1, <1>2, <2>1, <2>2, <2>3, OrderOfMore, ReadMore
    <3> QED BY <1>2, <1>3, <2>3, <3>1
  <2>4. CASE i # l
    <3>1. r[i] = p[i]
      BY <1>2, <2>1, <2>4
    <3> QED BY <1>3, <1>4, <2>1, <2>2, <3>1
  <2> QED BY <2>3, <2>4
<1> QED BY <1>5, <1>6 DEF PendingLine

LEMMA DownloadRead ==
  ASSUME TypeOK, TypeOK', DownloadLine, NEW k \in DOMAIN sock, watcher.at \in {"reading", "stuck"},
         ReadChunk(k), UNCHANGED <<deferred, ws, client>>
  PROVE  DownloadLine'
<1>0. \E x : x = [k |-> k, n |-> Head(sock[k].inq)]
  OBVIOUS
<1> PICK x : x = [k |-> k, n |-> Head(sock[k].inq)]
  BY <1>0
<1>1. HasEvent /\ watcher.e \in Lambda
  BY DEF HasEvent, TypeOK, WatcherState
<1>2. HasEvent' /\ watcher'.e.data = Append(watcher.e.data, x)
  <2> DEFINE e == [watcher.e EXCEPT !.data = Append(@, x)]
             f == [e EXCEPT !.to_close = FALSE]
  <2>1. \/ watcher' = [at |-> "done", e |-> f, todo |-> watcher.todo]
        \/ watcher' = [at |-> "reading", e |-> e, todo |-> watcher.todo]
    BY Zenon DEF ReadChunk, EndLoop
  <2>2. e.data = Append(watcher.e.data, x) /\ f.data = e.data
    BY <1>1 DEF Lambda
  <2> HIDE DEF e, f
  <2>3. watcher'.at \in {"done", "reading"} /\ (watcher'.e = e \/ watcher'.e = f)
    BY <2>1
  <2> QED BY <2>2, <2>3 DEF HasEvent
<1>3. Takes(sock, sock', k, x)
  BY Zenon DEF ReadChunk, Takes
<1>4. Joins(Pending, Pending', x)
  <2> DEFINE l == Len(deferred) + 1
  <2>1. /\ Len(deferred) \in Nat /\ DOMAIN deferred = 1..Len(deferred)
        /\ DOMAIN Pending = 1..l /\ Pending[l] = watcher.e.data
    BY <1>1, PendingType
  <2>2. DOMAIN Pending' = 1..l
    BY <1>2 DEF Pending
  <2>3. Pending'[l] = watcher'.e.data
    <3>1. l \in 1..(Len(deferred') + IF HasEvent' THEN 1 ELSE 0) /\ ~(l <= Len(deferred'))
      BY <1>2, <2>1
    <3> QED BY <3>1 DEF Pending
  <2>4. ASSUME NEW j \in DOMAIN Pending PROVE ~(l < j) /\ (j # l => Pending'[j] = Pending[j])
    <3>1. ~(l < j)
      BY <2>1
    <3>2. ASSUME j # l PROVE Pending'[j] = Pending[j]
      <4>1. j \in DOMAIN deferred /\ j <= Len(deferred)
        BY <2>1, <3>2
      <4>2. Pending[j] = deferred[j].data
        BY <4>1, PendingType
      <4>3. Pending'[j] = deferred'[j].data
        BY <2>1, <2>2, <4>1 DEF Pending
      <4> QED BY <4>2, <4>3
    <3> QED BY <3>1, <3>2
  <2>5. l \in DOMAIN Pending /\ Pending'[l] = Append(Pending[l], x)
    BY <1>2, <2>1, <2>3
  <2> HIDE DEF l
  <2> QED BY <2>1, <2>2, <2>4, <2>5 DEF Joins
<1>5. sock \in Seq(Socket) /\ sock' \in Seq(Socket)
  BY DEF TypeOK
<1>6. /\ PendingLine(Pending', sock') /\ UnreadLine(sock')
      /\ \A d \in Seq(Chunk) : Behind(d, Pending, sock) => Behind(d, Pending', sock')
  <2>1. UnreadLine(sock) /\ PendingLine(Pending, sock) /\ \A i \in DOMAIN Pending : Pending[i] \in Seq(Chunk)
    BY PendingType DEF DownloadLine
  <2>2. UnreadLine(sock')
    BY ONLY <1>3, <1>5, <2>1, TakesFirst, Zenon
  <2>3. /\ PendingLine(Pending', sock')
        /\ \A d \in Seq(Chunk) : Behind(d, Pending, sock) => Behind(d, Pending', sock')
    BY ONLY <1>3, <1>4, <1>5, <2>1, PendingJoined, Zenon
  <2> QED BY <2>2, <2>3
<1>7. ASSUME NEW c \in Conn, NEW s \in StreamId
      PROVE  SentLine(client'[c].got[s], ws'[c].out, s, Pending', sock')
  <2> DEFINE got == client[c].got[s]
             out == ws[c].out
  <2>1. got \in Seq(Chunk) /\ out \in Seq(Packet)
    BY StreamTypes
  <2>2. SentLine(got, out, s, Pending, sock)
    BY DEF DownloadLine
  <2> HIDE DEF got, out
  <2>3. Behind(got, Pending', sock')
    BY <1>6, <2>1, <2>2 DEF SentLine
  <2>4. \A i \in DOMAIN out : IsData(out[i], s) => Behind(out[i].data, Pending', sock')
    BY <1>6, <2>1, <2>2, DataType DEF SentLine
  <2>5. SentLine(got, out, s, Pending', sock')
    BY <2>2, <2>3, <2>4 DEF SentLine
  <2> QED BY <2>5 DEF got, out
<1> QED BY <1>6, <1>7 DEF DownloadLine

(* A target sends a chunk. *)
LEMMA UnreadGrows ==
  ASSUME NEW q \in Seq(Socket), NEW r, NEW k \in DOMAIN q, UnreadLine(q),
         r = [q EXCEPT ![k].sent = @ + 1, ![k].inq = Append(@, q[k].sent + 1)]
  PROVE  GoesOn(q, r) /\ UnreadLine(r)
<1> DEFINE h == q[k].inq
           n == q[k].sent
           t == Append(h, n + 1)
           l == Len(h) + 1
<1>1. q[k] \in Socket /\ h \in Seq(Nat) /\ n \in Nat
  BY SocketFields
<1>2. /\ DOMAIN r = DOMAIN q /\ \A m \in DOMAIN q : m # k => r[m] = q[m]
      /\ r[k] = [q[k] EXCEPT !.sent = n + 1, !.inq = t]
  OBVIOUS
<1>3. r[k].inq = t /\ r[k].sent = n + 1
  BY <1>1, <1>2 DEF Socket
<1>4. /\ DOMAIN t = DOMAIN h \cup {l} /\ t[l] = n + 1 /\ l \in Nat
      /\ \A i \in DOMAIN h : i \in Nat /\ h[i] \in Nat /\ t[i] = h[i] /\ ~(l < i) /\ i # l
  <2> HIDE DEF h, n
  <2> QED BY ONLY <1>1, SMT DEF t, l
<1>5. /\ \A i \in DOMAIN h : h[i] <= n
      /\ \A i, j \in DOMAIN h : i < j => h[i] < h[j]
  BY DEF UnreadLine
<1> HIDE DEF h, t, n, l
<1>6. GoesOn(q, r)
  <2> SUFFICES ASSUME NEW m \in DOMAIN q
               PROVE  /\ m \in DOMAIN r /\ q[m].sent <= r[m].sent
                      /\ \A i \in DOMAIN r[m].inq :
                           (\E j \in DOMAIN q[m].inq : r[m].inq[i] = q[m].inq[j]) \/ q[m].sent < r[m].inq[i]
    BY DEF GoesOn
  <2>1. CASE m # k
    <3>1. r[m] = q[m] /\ m \in DOMAIN r
      BY <1>2, <2>1
    <3>2. q[m].sent <= q[m].sent
      BY SocketFields
    <3> QED BY <3>1, <3>2
  <2>2. CASE m = k
    <3>1. n <= n + 1 /\ n < n + 1
      BY <1>1
    <3>2. \A i \in DOMAIN t : (\E j \in DOMAIN h : t[i] = h[j]) \/ n < t[i]
      BY <1>4, <3>1, Zenon
    <3>3. k \in DOMAIN r /\ n <= r[k].sent /\ r[k].inq = t
      BY <1>2, <1>3, <3>1
    <3>4. k \in DOMAIN r /\ q[k].sent <= r[k].sent /\ \A i \in DOMAIN r[k].inq :
            (\E j \in DOMAIN q[k].inq : r[k].inq[i] = q[k].inq[j]) \/ q[k].sent < r[k].inq[i]
      BY <3>2, <3>3 DEF h, n
    <3> QED BY <2>2, <3>4
  <2> QED BY <2>1, <2>2
<1>7. UnreadLine(r)
  <2> SUFFICES ASSUME NEW m \in DOMAIN r, NEW i \in DOMAIN r[m].inq
               PROVE  /\ r[m].inq[i] <= r[m].sent
                      /\ \A j \in DOMAIN r[m].inq : i < j => r[m].inq[i] < r[m].inq[j]
    BY DEF UnreadLine
  <2>1. CASE m # k
    BY <1>2, <2>1 DEF UnreadLine
  <2>2. CASE m = k
    <3>1. i \in DOMAIN t
      BY <1>3, <2>2
    <3>2. t[i] <= n + 1
      BY <1>1, <1>4, <1>5, <3>1
    <3>3. ASSUME NEW j \in DOMAIN t, i < j PROVE t[i] < t[j]
      <4>1. i \in DOMAIN h
        BY <1>4, <3>1, <3>3
      <4> QED BY <1>1, <1>4, <1>5, <3>3, <4>1
    <3> QED BY <1>3, <2>2, <3>2, <3>3
  <2> QED BY <2>1, <2>2
<1> QED BY <1>6, <1>7

----------------------------------------------------------------------------
(* Lambdas are deferred and run.                                           *)

LEMMA PendingDeferred ==
  ASSUME TypeOK, TypeOK', WatchDefer
  PROVE  MovesUp(Pending, Pending')
<1>1. watcher.at = "counted" /\ deferred' = Append(deferred, watcher.e) /\ watcher' = Rest(watcher.todo)
  BY Zenon DEF WatchDefer
<1>2. HasEvent /\ watcher.e \in Lambda
  BY <1>1 DEF HasEvent, TypeOK, WatcherState
<1>3. ~HasEvent'
  BY <1>1 DEF HasEvent, Rest
<1> DEFINE l == Len(deferred) + 1
<1>4. /\ Len(deferred) \in Nat /\ DOMAIN deferred = 1..Len(deferred)
      /\ DOMAIN Pending = 1..l /\ Pending[l] = watcher.e.data
  BY <1>2, PendingType
<1>5. /\ Len(deferred') = l /\ deferred'[l] = watcher.e
      /\ \A j \in DOMAIN deferred : deferred'[j] = deferred[j]
  <2>1. deferred \in Seq(Lambda)
    BY DEF TypeOK
  <2> QED BY ONLY <1>1, <2>1, SMT
<1>6. DOMAIN Pending' = 1..l
  BY <1>3, <1>4, <1>5 DEF Pending
<1>7. ASSUME NEW j \in DOMAIN Pending' PROVE j + 0 \in DOMAIN Pending /\ Pending'[j] = Pending[j + 0]
  <2>1. j + 0 = j /\ j \in DOMAIN Pending /\ j <= l /\ (j = l \/ j \in DOMAIN deferred)
    BY <1>4, <1>6, <1>7
  <2>2. Pending'[j] = deferred'[j].data
    BY <1>5, <1>6, <2>1 DEF Pending
  <2>3. CASE j = l
    BY <1>4, <1>5, <2>1, <2>2, <2>3
  <2>4. CASE j \in DOMAIN deferred
    BY <1>5, <2>1, <2>2, <2>4, PendingType
  <2> QED BY <2>1, <2>3, <2>4
<1> HIDE DEF l
<1> QED BY <1>7 DEF MovesUp

(* p without its first. *)
Shifted(p, r) == \A j \in DOMAIN r : j \in Nat \ {0} /\ j + 1 \in DOMAIN p /\ r[j] = p[j + 1]

LEMMA PendingShifted ==
  ASSUME TypeOK, TypeOK', deferred # <<>>, deferred' = Tail(deferred), UNCHANGED watcher
  PROVE  /\ Shifted(Pending, Pending') /\ MovesUp(Pending, Pending')
         /\ 1 \in DOMAIN Pending /\ Pending[1] = Head(deferred).data
<1> DEFINE l == Len(deferred)
<1>1. /\ l \in Nat /\ DOMAIN deferred = 1..l /\ l # 0
      /\ DOMAIN Pending = 1..(l + IF HasEvent THEN 1 ELSE 0)
  BY PendingType DEF TypeOK
<1>2. Len(deferred') = l - 1 /\ \A j \in 1..(l - 1) : deferred'[j] = deferred[j + 1]
  <2>1. deferred \in Seq(Lambda)
    BY DEF TypeOK
  <2> QED BY <2>1
<1>3. HasEvent' = HasEvent
  BY DEF HasEvent
<1>4. DOMAIN Pending' = 1..((l - 1) + IF HasEvent THEN 1 ELSE 0)
  BY <1>2, <1>3 DEF Pending
<1>5. ASSUME NEW j \in DOMAIN Pending'
      PROVE  j \in Nat \ {0} /\ j + 1 \in DOMAIN Pending /\ Pending'[j] = Pending[j + 1]
  <2>0. j \in Nat \ {0} /\ j + 1 \in DOMAIN Pending
    <3>1. CASE HasEvent
      BY <1>1, <1>4, <3>1
    <3>2. CASE ~HasEvent
      BY <1>1, <1>4, <3>2
    <3> QED BY <3>1, <3>2
  <2>1. CASE j <= l - 1
    <3>1. j + 1 \in DOMAIN deferred /\ j \in 1..(l - 1)
      BY <1>1, <2>0, <2>1
    <3>2. Pending'[j] = deferred'[j].data
      BY <1>2, <2>1 DEF Pending
    <3> QED BY <1>2, <2>0, <3>1, <3>2, PendingType
  <2>2. CASE ~(j <= l - 1)
    <3>1. HasEvent /\ j = l
      <4>1. CASE HasEvent
        BY <1>1, <1>4, <2>2, <4>1
      <4>2. CASE ~HasEvent
        BY <1>1, <1>4, <2>2, <4>2
      <4> QED BY <4>1, <4>2
    <3>2. Pending'[j] = watcher'.e.data
      BY <1>2, <2>2 DEF Pending
    <3>3. Pending[l + 1] = watcher.e.data
      BY <3>1, PendingType
    <3> QED BY <2>0, <3>1, <3>2, <3>3
  <2> QED BY <2>1, <2>2
<1>6. 1 \in DOMAIN deferred /\ Head(deferred) = deferred[1]
  BY <1>1
<1>7. 1 \in DOMAIN Pending /\ Pending[1] = Head(deferred).data
  BY <1>6, PendingType
<1>8. Shifted(Pending, Pending')
  BY <1>5 DEF Shifted
<1>9. MovesUp(Pending, Pending')
  BY <1>5 DEF MovesUp
<1> QED BY <1>7, <1>8, <1>9

LEMMA SentMore ==
  ASSUME NEW got, NEW out \in Seq(Packet), NEW s, NEW p, NEW r, NEW q, NEW x \in Packet,
         SentLine(got, out, s, p, q), PendingLine(p, q), 1 \in DOMAIN p, Shifted(p, r),
         x = Data(s, p[1])
  PROVE  SentLine(got, out \o <<x>>, s, r, q)
<1> DEFINE new == out \o <<x>>
           l == Len(out) + 1
<1>1. /\ DOMAIN new = DOMAIN out \cup {l} /\ new[l] = x
      /\ \A i \in DOMAIN out : new[i] = out[i] /\ ~(l < i) /\ i # l
      /\ ~(l < l)
  OBVIOUS
<1>2. x.data = p[1]
  BY DEF Data
<1>3. InOrder(p[1]) /\ Read(p[1], q) /\ \A j \in DOMAIN p : 1 < j => Precedes(p[1], p[j])
  BY DEF PendingLine
<1>4. ASSUME NEW d, Behind(d, p, q) PROVE Behind(d, r, q) /\ Precedes(d, p[1])
  BY <1>4 DEF Behind, Shifted
<1>5. Behind(p[1], r, q)
  <2>1. \A j \in DOMAIN r : 1 < j + 1 /\ j + 1 \in DOMAIN p /\ r[j] = p[j + 1]
    BY DEF Shifted
  <2> QED BY <1>3, <2>1 DEF Behind
<1>6. /\ InOrder(got) /\ Behind(got, p, q)
      /\ \A i \in DOMAIN out : IsData(out[i], s) =>
           /\ InOrder(out[i].data) /\ Precedes(got, out[i].data) /\ Behind(out[i].data, p, q)
           /\ \A j \in DOMAIN out : i < j /\ IsData(out[j], s) => Precedes(out[i].data, out[j].data)
  BY DEF SentLine, StreamInOrder
<1> HIDE DEF new, l
<1>7. ASSUME NEW i \in DOMAIN new, IsData(new[i], s)
      PROVE  /\ InOrder(new[i].data) /\ Precedes(got, new[i].data) /\ Behind(new[i].data, r, q)
             /\ \A j \in DOMAIN new : i < j /\ IsData(new[j], s) => Precedes(new[i].data, new[j].data)
  <2>1. CASE i = l
    BY <1>1, <1>2, <1>3, <1>4, <1>5, <1>6, <2>1, Zenon
  <2>2. CASE i \in DOMAIN out
    BY <1>1, <1>2, <1>4, <1>6, <1>7, <2>2, Zenon
  <2> QED BY <1>1, <2>1, <2>2
<1>8. Behind(got, r, q)
  BY <1>4, <1>6
<1> QED BY <1>6, <1>7, <1>8 DEF SentLine, StreamInOrder, new

LEMMA DownloadDeferred ==
  ASSUME TypeOK, TypeOK', DownloadLine, RunDeferred
  PROVE  DownloadLine'
<1> USE DEF mgrVars, deferVars, kernelVars, poolVars, netVars
<1>1. deferred # <<>> /\ deferred' = Tail(deferred) /\ UNCHANGED <<watcher, sock, client>>
  BY Zenon DEF RunDeferred
<1>2. /\ Shifted(Pending, Pending') /\ MovesUp(Pending, Pending')
      /\ 1 \in DOMAIN Pending /\ Pending[1] = Head(deferred).data
  BY <1>1, PendingShifted
<1>3. sock \in Seq(Socket) /\ UnreadLine(sock) /\ GoesOn(sock, sock)
  <2>1. sock \in Seq(Socket) /\ UnreadLine(sock) /\ SameUnread(sock, sock)
    BY DEF TypeOK, DownloadLine, SameUnread
  <2> QED BY <2>1, UnreadStays
<1>4. GotKept
  BY <1>1 DEF GotKept
<1>5. CASE UNCHANGED ws
  BY <1>1, <1>2, <1>3, <1>4, <1>5, NothingSent, DownloadStays
<1>6. ASSUME NEW o \in Owners(Head(deferred).fd), SendTo(o[1], <<Data(o[2], Head(deferred).data)>>)
      PROVE  DownloadLine'
  <2>0. \E c, s, x : c = o[1] /\ s = o[2] /\ x = Data(o[2], Head(deferred).data)
    OBVIOUS
  <2> PICK c, s, x : c = o[1] /\ s = o[2] /\ x = Data(o[2], Head(deferred).data)
    BY <2>0
  <2>1. c \in Conn /\ s \in StreamId
    BY DEF Owners, watched_sockets
  <2>2. Head(deferred).data \in Seq(Chunk)
    BY <1>2, PendingType
  <2>3. x \in Packet /\ x = Data(s, Pending[1])
    BY <1>2, <2>1, <2>2, PacketTypes
  <2>4. SendTo(c, <<x>>)
    BY <1>6
  <2>5. /\ \A d \in Conn : d # c => ws'[d] = ws[d]
        /\ ws'[c].out = ws[c].out \/ ws'[c].out = ws[c].out \o <<x>>
    BY <2>1, <2>3, <2>4, SendOne
  <2>6. PendingLine(Pending', sock')
    <3>1. DOMAIN Pending' \subseteq Int
      BY DEF TypeOK, Pending
    <3> QED BY <1>1, <1>2, <1>3, <3>1, PendingType, PendingStays DEF DownloadLine
  <2>7. ASSUME NEW d \in Conn, NEW t \in StreamId
        PROVE  SentLine(client'[d].got[t], ws'[d].out, t, Pending', sock')
    <3>1. client[d].got[t] \in Seq(Chunk) /\ ws[d].out \in Seq(Packet)
      BY StreamTypes
    <3>2. SentLine(client[d].got[t], ws[d].out, t, Pending, sock)
      BY DEF DownloadLine
    <3>3. ASSUME NEW new \in Seq(Packet), NoMoreData(ws[d].out, new, t)
          PROVE  SentLine(client[d].got[t], new, t, Pending', sock)
      BY ONLY <1>2, <1>3, <3>1, <3>2, <3>3, SentStays
    <3>4. CASE ws'[d].out = ws[d].out
      <4>1. NoMoreData(ws[d].out, ws[d].out, t)
        BY NothingAdded
      <4> QED BY <1>1, <3>1, <3>3, <3>4, <4>1
    <3>5. CASE ws'[d].out = ws[d].out \o <<x>> /\ t = s
      <4>1. SentLine(client[d].got[t], ws[d].out \o <<x>>, t, Pending', sock)
        BY <1>2, <2>3, <3>1, <3>2, <3>5, SentMore DEF DownloadLine
      <4> QED BY <1>1, <3>5, <4>1
    <3>6. CASE ws'[d].out = ws[d].out \o <<x>> /\ t # s
      <4> DEFINE one == <<x>>
      <4>1. x.stream # t
        <5>1. Data(s, Pending[1]).stream = s
          BY PacketFields
        <5> QED BY ONLY <2>3, <3>6, <5>1
      <4>2. one \in Seq(Packet) /\ \A i \in DOMAIN one : one[i] = x
        BY ONLY <2>3, SMT
      <4> HIDE DEF one
      <4>3. \A i \in DOMAIN one : ~IsData(one[i], t)
        BY <4>1, <4>2 DEF IsData
      <4>4. NoMoreData(ws[d].out, ws[d].out \o one, t)
        BY ONLY <3>1, <4>2, <4>3, OthersAdded
      <4>5. ws[d].out \o one \in Seq(Packet) /\ ws'[d].out = ws[d].out \o one
        BY <3>1, <3>6, <4>2 DEF one
      <4> QED BY <1>1, <3>3, <4>4, <4>5
    <3> QED BY <2>5, <3>4, <3>5, <3>6
  <2> QED BY <1>1, <1>3, <2>6, <2>7 DEF DownloadLine
<1> QED BY <1>5, <1>6, Zenon DEF RunDeferred

----------------------------------------------------------------------------
(* The client receives.                                                    *)

LEMMA JoinedChunks ==
  ASSUME NEW d \in Seq(Chunk), NEW e \in Seq(Chunk)
  PROVE  /\ d \o e \in Seq(Chunk)
         /\ \A i \in DOMAIN (d \o e) :
              \/ i \in DOMAIN d /\ (d \o e)[i] = d[i]
              \/ i \notin DOMAIN d /\ i - Len(d) \in DOMAIN e /\ (d \o e)[i] = e[i - Len(d)]
         /\ \A i \in DOMAIN (d \o e), j \in DOMAIN (d \o e) : i < j =>
              (j \in DOMAIN d => i \in DOMAIN d) /\ i - Len(d) < j - Len(d)
<1>1. d \o e \in Seq(Chunk)
  OBVIOUS
<1>2. /\ DOMAIN d = 1..Len(d) /\ DOMAIN e = 1..Len(e) /\ Len(d) \in Nat /\ Len(e) \in Nat
      /\ DOMAIN (d \o e) = 1..(Len(d) + Len(e))
  OBVIOUS
<1>3. ASSUME NEW i \in DOMAIN (d \o e)
      PROVE  \/ i \in DOMAIN d /\ (d \o e)[i] = d[i]
             \/ i \notin DOMAIN d /\ i - Len(d) \in DOMAIN e /\ (d \o e)[i] = e[i - Len(d)]
  <2>1. CASE i <= Len(d)
    BY <1>2, <2>1
  <2>2. CASE ~(i <= Len(d))
    <3>1. i \notin DOMAIN d /\ i - Len(d) \in DOMAIN e
      BY ONLY <1>2, <1>3, <2>2, SMT
    <3>2. (d \o e)[i] = e[i - Len(d)]
      BY <1>2, <2>2
    <3> QED BY <3>1, <3>2
  <2> QED BY <2>1, <2>2
<1>4. ASSUME NEW i \in DOMAIN (d \o e), NEW j \in DOMAIN (d \o e), i < j
      PROVE  (j \in DOMAIN d => i \in DOMAIN d) /\ i - Len(d) < j - Len(d)
  BY ONLY <1>2, <1>4, SMT
<1> QED BY <1>1, <1>3, <1>4

LEMMA JoinedOrder ==
  ASSUME NEW d \in Seq(Chunk), NEW e \in Seq(Chunk), InOrder(d), InOrder(e), Precedes(d, e)
  PROVE  InOrder(d \o e)
<1> DEFINE f == d \o e
           l == Len(d)
<1>1. /\ \A i \in DOMAIN f : \/ i \in DOMAIN d /\ f[i] = d[i]
                             \/ i \notin DOMAIN d /\ i - l \in DOMAIN e /\ f[i] = e[i - l]
      /\ \A i \in DOMAIN f, j \in DOMAIN f : i < j => (j \in DOMAIN d => i \in DOMAIN d) /\ i - l < j - l
  BY JoinedChunks
<1> HIDE DEF f, l
<1> SUFFICES ASSUME NEW i \in DOMAIN f, NEW j \in DOMAIN f, i < j, f[i].k = f[j].k PROVE f[i].n < f[j].n
  BY DEF InOrder, f
<1>2. CASE j \in DOMAIN d
  BY <1>1, <1>2, Zenon DEF InOrder
<1>3. CASE j \notin DOMAIN d /\ i \in DOMAIN d
  BY <1>1, <1>3, Zenon DEF Precedes
<1>4. CASE j \notin DOMAIN d /\ i \notin DOMAIN d
  BY <1>1, <1>4, Zenon DEF InOrder
<1> QED BY <1>2, <1>3, <1>4

LEMMA JoinedBehind ==
  ASSUME NEW d \in Seq(Chunk), NEW e \in Seq(Chunk), NEW p, NEW q
  PROVE  /\ \A f : Precedes(d, f) /\ Precedes(e, f) => Precedes(d \o e, f)
         /\ Behind(d, p, q) /\ Behind(e, p, q) => Behind(d \o e, p, q)
<1> DEFINE g == d \o e
           l == Len(d)
<1>1. \A i \in DOMAIN g : \/ i \in DOMAIN d /\ g[i] = d[i]
                          \/ i - l \in DOMAIN e /\ g[i] = e[i - l]
  BY JoinedChunks
<1> HIDE DEF g, l
<1>2. ASSUME NEW f, Precedes(d, f), Precedes(e, f) PROVE Precedes(g, f)
  BY <1>1, <1>2, Zenon DEF Precedes
<1>3. ASSUME Read(d, q), Read(e, q) PROVE Read(g, q)
  BY <1>1, <1>3, Zenon DEF Read
<1>4. ASSUME Behind(d, p, q), Behind(e, p, q) PROVE Behind(g, p, q)
  BY <1>2, <1>3, <1>4, Zenon DEF Behind
<1> QED BY <1>2, <1>4 DEF g

LEMMA SentReceived ==
  ASSUME NEW got \in Seq(Chunk), NEW out \in Seq(Packet), out # <<>>, NEW s, NEW p, NEW q, NEW now,
         SentLine(got, out, s, p, q),
         now = IF IsData(Head(out), s) THEN got \o Head(out).data ELSE got
  PROVE  SentLine(now, Tail(out), s, p, q)
<1> DEFINE h == Head(out)
           t == Tail(out)
<1>1. /\ h = out[1] /\ 1 \in DOMAIN out
      /\ \A i \in DOMAIN t : i \in Nat /\ 1 < i + 1 /\ i + 1 \in DOMAIN out /\ t[i] = out[i + 1]
  OBVIOUS
<1>2. \A i, j \in DOMAIN t : i < j => i + 1 < j + 1
  BY <1>1
<1>3. /\ InOrder(got) /\ Behind(got, p, q)
      /\ \A i \in DOMAIN out : IsData(out[i], s) =>
           /\ InOrder(out[i].data) /\ Precedes(got, out[i].data) /\ Behind(out[i].data, p, q)
           /\ \A j \in DOMAIN out : i < j /\ IsData(out[j], s) => Precedes(out[i].data, out[j].data)
  BY DEF SentLine, StreamInOrder
<1> HIDE DEF h, t
<1>4. ASSUME NEW i \in DOMAIN t, IsData(t[i], s)
      PROVE  /\ InOrder(t[i].data) /\ Precedes(got, t[i].data) /\ Behind(t[i].data, p, q)
             /\ \A j \in DOMAIN t : i < j /\ IsData(t[j], s) => Precedes(t[i].data, t[j].data)
             /\ IsData(h, s) => Precedes(h.data, t[i].data)
  BY <1>1, <1>2, <1>3, <1>4, Zenon
<1>5. CASE ~IsData(h, s)
  <2>1. now = got
    BY <1>5 DEF h
  <2>2. SentLine(got, t, s, p, q)
    BY <1>3, <1>4 DEF SentLine, StreamInOrder
  <2> QED BY <2>1, <2>2 DEF t
<1>6. CASE IsData(h, s)
  <2>1. now = got \o h.data
    BY <1>6 DEF h
  <2>2. h.data \in Seq(Chunk) /\ InOrder(h.data) /\ Precedes(got, h.data) /\ Behind(h.data, p, q)
    BY <1>1, <1>3, <1>6, DataType
  <2>3. InOrder(now) /\ Behind(now, p, q)
    BY <1>3, <2>1, <2>2, JoinedOrder, JoinedBehind
  <2>4. \A i \in DOMAIN t : IsData(t[i], s) => Precedes(now, t[i].data)
    BY <1>4, <1>6, <2>1, <2>2, JoinedBehind
  <2>5. SentLine(now, t, s, p, q)
    BY <1>4, <2>3, <2>4 DEF SentLine, StreamInOrder
  <2> QED BY <2>5 DEF t
<1> QED BY <1>5, <1>6

LEMMA ReceiveForms ==
  ASSUME TypeOK, NEW c \in Conn, ClientReceive(c)
  PROVE  /\ UNCHANGED <<manager, streams, loop, deferred, watcher, epoll, fdtab, sock>>
         /\ ws[c].out # <<>> /\ ws'[c].out = Tail(ws[c].out)
         /\ \A d \in Conn : d # c => ws'[d] = ws[d] /\ client'[d] = client[d]
         /\ \A s \in StreamId : client'[c].got[s] =
              IF IsData(Head(ws[c].out), s) THEN client[c].got[s] \o Head(ws[c].out).data
              ELSE client[c].got[s]
         /\ \A s \in StreamId : client'[c].state[s] = "unused" => client[c].state[s] = "unused"
<1> USE DEF mgrVars, deferVars, kernelVars, poolVars, netVars
<1> DEFINE q == ws[c].out
           p == Head(q)
<1>1. /\ UNCHANGED <<manager, streams, loop, deferred, watcher, epoll, fdtab, sock>> /\ Len(q) > ws[c].backlog
      /\ ws' = [ws EXCEPT ![c].out = Tail(@)]
      /\ client' = [client EXCEPT ![c] =
           CASE p.type = "CONTINUE" -> [client[c] EXCEPT !.credit[p.stream] = p.buffer]
             [] p.type = "CLOSE"    -> [client[c] EXCEPT !.state[p.stream] = "closed"]
             [] p.type = "DATA"     -> [client[c] EXCEPT !.got[p.stream] = @ \o p.data]]
  BY Zenon DEF ClientReceive
<1>2. q \in Seq(Packet) /\ ws[c].backlog \in Nat /\ client[c] \in ClientState
  BY DEF TypeOK
<1>3. /\ \A d \in Conn : d # c => ws'[d] = ws[d] /\ client'[d] = client[d]
      /\ ws'[c].out = Tail(q)
  <2>0. ws' = [ws EXCEPT ![c].out = Tail(@)] /\ ws \in [Conn -> [out : Seq(Packet), backlog : Nat]]
    BY <1>1, Zenon DEF TypeOK
  <2>1. \A d \in Conn : d # c => ws'[d] = ws[d]
    BY ONLY <2>0, SMT
  <2>2. \A d \in Conn : d # c => client'[d] = client[d]
    BY <1>1, Zenon DEF TypeOK
  <2>3. ws'[c].out = Tail(q)
    BY ONLY c \in Conn, <2>0, SMT DEF q
  <2> QED BY <2>1, <2>2, <2>3
<1>4. client'[c] = CASE p.type = "CONTINUE" -> [client[c] EXCEPT !.credit[p.stream] = p.buffer]
                     [] p.type = "CLOSE"    -> [client[c] EXCEPT !.state[p.stream] = "closed"]
                     [] p.type = "DATA"     -> [client[c] EXCEPT !.got[p.stream] = @ \o p.data]
  BY <1>1, Zenon DEF TypeOK
<1> HIDE DEF q
<1>5. q # <<>> /\ p \in Packet
  BY <1>1, <1>2
<1> HIDE DEF p
<1>6. p.type \in {"CONTINUE", "CLOSE", "DATA"}
  BY <1>5 DEF Packet
<1>7. ASSUME NEW s \in StreamId
      PROVE  client'[c].got[s] = IF IsData(p, s) THEN client[c].got[s] \o p.data ELSE client[c].got[s]
  <2>1. CASE p.type = "CONTINUE"
    <3>1. client'[c] = [client[c] EXCEPT !.credit[p.stream] = p.buffer]
      BY <1>4, <2>1, Zenon
    <3> QED BY <1>2, <2>1, <3>1 DEF IsData, ClientState
  <2>2. CASE p.type = "CLOSE"
    <3>1. client'[c] = [client[c] EXCEPT !.state[p.stream] = "closed"]
      BY <1>4, <2>2
    <3> QED BY <1>2, <2>2, <3>1 DEF IsData, ClientState
  <2>3. CASE p.type = "DATA"
    <3>1. client'[c] = [client[c] EXCEPT !.got[p.stream] = @ \o p.data]
      BY <1>4, <2>3
    <3>2. p.stream \in StreamId
      BY <1>5, <2>3 DEF Packet
    <3> QED BY <1>2, <2>3, <3>1, <3>2 DEF IsData, ClientState
  <2> QED BY <1>6, <2>1, <2>2, <2>3
<1>8. ASSUME NEW s \in StreamId, client[c].state[s] # "unused" PROVE client'[c].state[s] # "unused"
  <2>1. CASE p.type = "CONTINUE"
    <3>1. client'[c] = [client[c] EXCEPT !.credit[p.stream] = p.buffer]
      BY <1>4, <2>1, Zenon
    <3> QED BY <1>2, <1>8, <3>1 DEF ClientState
  <2>2. CASE p.type = "CLOSE"
    <3>1. client'[c] = [client[c] EXCEPT !.state[p.stream] = "closed"]
      BY <1>4, <2>2
    <3> QED BY <1>2, <1>8, <3>1 DEF ClientState
  <2>3. CASE p.type = "DATA"
    <3>1. client'[c] = [client[c] EXCEPT !.got[p.stream] = @ \o p.data]
      BY <1>4, <2>3
    <3> QED BY <1>2, <1>8, <3>1 DEF ClientState
  <2> QED BY <1>6, <2>1, <2>2, <2>3
<1> QED BY <1>1, <1>3, <1>5, <1>7, <1>8 DEF p, q

LEMMA DownloadReceive ==
  ASSUME TypeOK, TypeOK', DownloadLine, NEW c \in Conn, ClientReceive(c)
  PROVE  DownloadLine'
<1>1. /\ UNCHANGED <<deferred, watcher, sock>> /\ ws[c].out # <<>> /\ ws'[c].out = Tail(ws[c].out)
      /\ \A d \in Conn : d # c => ws'[d] = ws[d] /\ client'[d] = client[d]
      /\ \A s \in StreamId : client'[c].got[s] =
           IF IsData(Head(ws[c].out), s) THEN client[c].got[s] \o Head(ws[c].out).data
           ELSE client[c].got[s]
  BY ReceiveForms, Zenon
<1>2. Pending' = Pending
  BY <1>1 DEF Pending, HasEvent
<1>3. ASSUME NEW d \in Conn, NEW s \in StreamId
      PROVE  SentLine(client'[d].got[s], ws'[d].out, s, Pending', sock')
  <2>1. /\ SentLine(client[d].got[s], ws[d].out, s, Pending, sock)
        /\ client[d].got[s] \in Seq(Chunk) /\ ws[d].out \in Seq(Packet)
    BY StreamTypes DEF DownloadLine
  <2>2. CASE d # c
    BY <1>1, <1>2, <2>1, <2>2
  <2>3. CASE d = c
    <3>1. SentLine(client'[c].got[s], Tail(ws[c].out), s, Pending, sock)
      BY <1>1, <2>1, <2>3, SentReceived
    <3> QED BY <1>1, <1>2, <2>3, <3>1
  <2> QED BY <2>2, <2>3
<1> QED BY <1>1, <1>2, <1>3 DEF DownloadLine

----------------------------------------------------------------------------
(* The steps that concern no data on its way.                              *)

LEMMA DownloadQuiet ==
  ASSUME TypeOK, TypeOK', DownloadLine, UNCHANGED <<deferred, watcher>>, SameUnread(sock, sock'),
         \A c \in Conn, s \in StreamId : StreamKept(c, s)
  PROVE  DownloadLine'
<1>1. GoesOn(sock, sock') /\ UnreadLine(sock')
  BY UnreadStays DEF DownloadLine, TypeOK
<1>2. MovesUp(Pending, Pending')
  BY PendingMoves DEF HasEvent
<1> QED BY <1>1, <1>2, DownloadStays

LEMMA UnreadSame ==
  ASSUME TypeOK
  PROVE  /\ UNCHANGED sock => SameUnread(sock, sock')
         /\ \A k : sock' = [sock EXCEPT ![k].eof = TRUE] => SameUnread(sock, sock')
         /\ \A k, t : sock' = [sock EXCEPT ![k].rx = Append(@, t)] => SameUnread(sock, sock')
<1>1. \A k \in DOMAIN sock : sock[k] \in Socket
  BY DEF TypeOK
<1>2. UNCHANGED sock => SameUnread(sock, sock')
  BY DEF SameUnread
<1>3. ASSUME NEW k, sock' = [sock EXCEPT ![k].eof = TRUE] PROVE SameUnread(sock, sock')
  BY <1>1, <1>3 DEF SameUnread, Socket
<1>4. ASSUME NEW k, NEW t, sock' = [sock EXCEPT ![k].rx = Append(@, t)] PROVE SameUnread(sock, sock')
  BY <1>1, <1>4 DEF SameUnread, Socket
<1> QED BY <1>2, <1>3, <1>4

LEMMA DownloadLoop ==
  ASSUME TypeOK, TypeOK', Ownership, DownloadLine, LoopStep
  PROVE  DownloadLine'
<1> USE DEF mgrVars, deferVars, kernelVars, poolVars, netVars
<1>1. GotKept /\ (RunDeferred \/ DeferredClose \/ OnlyPlain)
  BY LoopSends
<1>2. CASE DeferredClose
  <2> PICK c, s : c = loop.c /\ s = loop.s
    OBVIOUS
  <2>1. /\ loop.at = "close" /\ SendTo(c, <<Close("0x02", s)>>)
        /\ UNCHANGED <<deferred, watcher, sock>>
    BY <1>2, Zenon DEF DeferredClose, close_stream, CloseFd
  <2>2. c \in Conn /\ s \in StreamId
    BY <2>1 DEF TypeOK, LoopState
  <2>3. <<Close("0x02", s)>> \in Seq(Packet) /\ Close("0x02", s).type # "DATA"
    BY <2>2, PacketTypes, PacketFields
  <2> QED BY <1>1, <2>1, <2>2, <2>3, SendKeeps, UnreadSame, DownloadQuiet
<1>3. ASSUME OnlyPlain, ~RunDeferred, ~DeferredClose PROVE DownloadLine'
  <2>1. UNCHANGED <<deferred, watcher>>
    BY <1>3, Zenon DEF LoopStep, ConnectFails, ConnectSucceeds, ConnectInsert, Wake,
         Finish, UpdateNext, ForceClose, Destruct
  <2>2. UNCHANGED sock \/ \E k : sock' = [sock EXCEPT ![k].eof = TRUE]
    BY <1>3, Zenon DEF LoopStep, ConnectFails, ConnectSucceeds, ConnectInsert, Wake,
         Finish, UpdateNext, ForceClose, Destruct, close_stream, CloseFd
  <2>3. SameUnread(sock, sock')
    BY <2>2, UnreadSame, Zenon
  <2> QED BY <1>1, <1>3, <2>1, <2>3, PlainKeeps, DownloadQuiet
<1> QED BY <1>1, <1>2, <1>3, DownloadDeferred

LEMMA DownloadWatcher ==
  ASSUME TypeOK, TypeOK', StuckOnSocket, DownloadLine, WatcherStep
  PROVE  DownloadLine'
<1> USE DEF mgrVars, deferVars, kernelVars, poolVars, netVars
<1>1. UNCHANGED <<ws, client>>
  BY ThreadsSendNothing
<1>2. \A c \in Conn, s \in StreamId : StreamKept(c, s)
  BY <1>1, NothingSent DEF GotKept
<1>3. ASSUME UNCHANGED <<sock, deferred>>,
             HasEvent' => watcher'.e.data = <<>> \/ (HasEvent /\ watcher'.e.data = watcher.e.data)
      PROVE  DownloadLine'
  <2>1. GoesOn(sock, sock') /\ UnreadLine(sock')
    BY <1>3, UnreadSame, UnreadStays DEF DownloadLine, TypeOK
  <2>2. MovesUp(Pending, Pending')
    BY <1>3, PendingMoves
  <2> QED BY <1>2, <2>1, <2>2, DownloadStays
<1>4. CASE WatchWait \/ WatchWake
  <2>1. UNCHANGED <<sock, deferred>> /\ watcher'.at \in {"batch", "wait"}
    BY <1>4 DEF WatchWait, WatchWake, Rest
  <2> QED BY <1>3, <2>1 DEF HasEvent
<1>5. CASE WatchEvent
  <2>1. UNCHANGED <<sock, deferred>> /\ watcher'.e.data = <<>>
    BY <1>5 DEF WatchEvent
  <2> QED BY <1>3, <2>1
<1>6. CASE WatchErase \/ WatchCount
  <2>1. /\ UNCHANGED <<sock, deferred>> /\ watcher.at \in {"ended", "done"}
        /\ (watcher' = [watcher EXCEPT !.at = "done"] \/ watcher' = [watcher EXCEPT !.at = "counted"])
    BY <1>6, Zenon DEF WatchErase, WatchCount
  <2>2. HasEvent /\ watcher'.e = watcher.e
    BY <2>1 DEF HasEvent, TypeOK, WatcherState
  <2> QED BY <1>3, <2>1, <2>2
<1>7. CASE WatchDefer
  <2>1. UNCHANGED sock
    BY <1>7, Zenon DEF WatchDefer
  <2>2. GoesOn(sock, sock') /\ UnreadLine(sock')
    BY <2>1, UnreadSame, UnreadStays DEF DownloadLine, TypeOK
  <2> QED BY <1>2, <1>7, <2>2, PendingDeferred, DownloadStays
<1>8. ASSUME NEW k \in DOMAIN sock, watcher.at \in {"reading", "stuck"}, UNCHANGED deferred,
             ReadChunk(k)
      PROVE  DownloadLine'
  BY <1>1, <1>8, DownloadRead
<1>9. ASSUME watcher.at \in {"reading", "stuck"}, UNCHANGED <<sock, deferred>>, NEW b \in BOOLEAN,
             EndLoop(watcher.e, b)
      PROVE  DownloadLine'
  <2>1. HasEvent /\ watcher.e \in Lambda
    BY <1>9 DEF HasEvent, TypeOK, WatcherState
  <2>2. watcher'.e = [watcher.e EXCEPT !.to_close = b]
    BY <1>9 DEF EndLoop
  <2>3. watcher'.e.data = watcher.e.data
    BY <2>1, <2>2 DEF Lambda
  <2> QED BY <1>3, <1>9, <2>1, <2>3
<1>10. ASSUME NEW k \in DOMAIN sock, watcher.at \in {"reading", "stuck"}, UNCHANGED deferred,
              ReadChunk(k) \/ ReadEnd(k)
       PROVE  DownloadLine'
  BY <1>8, <1>9, <1>10, Zenon DEF ReadEnd
<1>11. CASE WatchReadReturns
  <2>1. watcher.at = "stuck" /\ UNCHANGED deferred /\ (ReadChunk(watcher.k) \/ ReadEnd(watcher.k))
    BY <1>11, Zenon DEF WatchReadReturns
  <2>2. watcher.k \in DOMAIN sock /\ watcher.at \in {"reading", "stuck"}
    BY <2>1 DEF StuckOnSocket
  <2> QED BY <1>10, <2>1, <2>2, Zenon
<1>12. CASE WatchRead
  <2> DEFINE k == fdtab[watcher.e.fd]
  <2>1. watcher.at = "reading" /\ UNCHANGED deferred
    BY <1>12, Zenon DEF WatchRead
  <2>2. watcher.e \in Lambda
    BY <2>1 DEF TypeOK, WatcherState
  <2>3. k # 0 => k \in DOMAIN sock
    BY <2>2 DEF TypeOK, Lambda
  <2>4. \/ k # 0 /\ (ReadChunk(k) \/ ReadEnd(k))
        \/ UNCHANGED sock /\ \E b \in BOOLEAN : EndLoop(watcher.e, b)
        \/ /\ UNCHANGED sock
           /\ watcher' = [at |-> "stuck", k |-> k, e |-> watcher.e, todo |-> watcher.todo]
    BY <1>12, Zenon DEF WatchRead
  <2> HIDE DEF k
  <2>5. watcher.at \in {"reading", "stuck"}
    BY <2>1
  <2>6. CASE UNCHANGED sock /\ watcher' = [at |-> "stuck", k |-> k, e |-> watcher.e, todo |-> watcher.todo]
    <3>1. HasEvent /\ watcher'.e = watcher.e
      BY <2>1, <2>6 DEF HasEvent
    <3> QED BY <1>3, <2>1, <2>6, <3>1
  <2> QED BY <1>9, <1>10, <2>1, <2>3, <2>4, <2>5, <2>6, Zenon
<1> QED BY <1>4, <1>5, <1>6, <1>7, <1>11, <1>12 DEF WatcherStep

LEMMA DownloadWorker ==
  ASSUME TypeOK, TypeOK', DownloadLine, NEW w \in Worker, WorkerStep(w)
  PROVE  DownloadLine'
<1> USE DEF mgrVars, deferVars, kernelVars, poolVars, netVars
<1>1. UNCHANGED <<ws, client, deferred, watcher>>
  BY Zenon DEF WorkerStep, WorkerPop, WorkerLock, WorkerNoStream, WorkerNoManager, WorkerWrite, WorkerSigpipe
<1>2. UNCHANGED sock \/ \E k, t : sock' = [sock EXCEPT ![k].rx = Append(@, t)]
  BY Zenon DEF WorkerStep, WorkerPop, WorkerLock, WorkerNoStream, WorkerNoManager, WorkerWrite, WorkerSigpipe
<1>3. SameUnread(sock, sock')
  BY <1>2, UnreadSame, Zenon
<1> QED BY <1>1, <1>3, NothingSent, DownloadQuiet DEF GotKept

LEMMA DownloadOutside ==
  ASSUME TypeOK, TypeOK', DownloadLine, Outside
  PROVE  DownloadLine'
<1> USE DEF mgrVars, deferVars, kernelVars, poolVars, netVars
<1>1. ASSUME NEW c \in Conn, WsClosed(c) PROVE DownloadLine'
  <2>1. UNCHANGED <<deferred, watcher, sock>>
    BY <1>1, Zenon DEF WsClosed
  <2> QED BY <1>1, <2>1, ClosedKeeps, UnreadSame, DownloadQuiet
<1>2. ASSUME NEW c \in Conn, ClientReceive(c) PROVE DownloadLine'
  BY <1>2, DownloadReceive
<1>3. ASSUME \A c \in Conn, s \in StreamId : StreamKept(c, s),
             \A c \in Conn : ~WsClosed(c) /\ ~ClientReceive(c)
      PROVE  DownloadLine'
  <2>1. ASSUME NEW c \in Conn, Open(c) \/ Drain(c) PROVE DownloadLine'
    <3>1. UNCHANGED <<deferred, watcher, sock>>
      BY <2>1, Zenon DEF Open, Drain
    <3> QED BY <1>3, <3>1, UnreadSame, DownloadQuiet
  <2>2. ASSUME NEW c \in Conn, NEW s \in StreamId, RecvData(c, s) \/ RecvClose(c, s)
        PROVE  DownloadLine'
    <3>1. UNCHANGED <<deferred, watcher, sock>>
      BY <2>2, Zenon DEF RecvData, RecvClose
    <3> QED BY <1>3, <3>1, UnreadSame, DownloadQuiet
  <2>3. ASSUME NEW c \in Conn, NEW s \in StreamId, NEW type \in Asked, RecvConnect(c, s, type)
        PROVE  DownloadLine'
    <3>1. /\ UNCHANGED <<deferred, watcher>>
          /\ UNCHANGED sock \/ \E fd \in Fd : \E k : Opens(c, s, fd, k)
      BY <2>3, ConnectForms
    <3>2. SameUnread(sock, sock')
      BY <3>1 DEF Opens, SameUnread
    <3> QED BY <1>3, <3>1, <3>2, DownloadQuiet
  <2>4. ASSUME NEW k \in DOMAIN sock, TargetClose(k) PROVE DownloadLine'
    <3>1. UNCHANGED <<deferred, watcher>> /\ sock' = [sock EXCEPT ![k].eof = TRUE]
      BY <2>4, Zenon DEF TargetClose
    <3>2. SameUnread(sock, sock')
      BY <3>1, UnreadSame, Zenon
    <3> QED BY <1>3, <3>1, <3>2, DownloadQuiet
  <2>5. ASSUME NEW k \in DOMAIN sock, TargetSend(k) PROVE DownloadLine'
    <3>1. /\ UNCHANGED <<deferred, watcher>>
          /\ sock' = [sock EXCEPT ![k].sent = @ + 1, ![k].inq = Append(@, sock[k].sent + 1)]
      BY <2>5, Zenon DEF TargetSend
    <3>2. GoesOn(sock, sock') /\ UnreadLine(sock')
      <4>1. sock \in Seq(Socket) /\ UnreadLine(sock) /\ k \in DOMAIN sock
        BY <2>5 DEF DownloadLine, TypeOK
      <4> QED BY ONLY <3>1, <4>1, UnreadGrows, Zenon
    <3>3. MovesUp(Pending, Pending')
      BY <3>1, PendingMoves DEF HasEvent
    <3> QED BY <1>3, <3>2, <3>3, DownloadStays
  <2> QED BY <1>3, <2>1, <2>2, <2>3, <2>4, <2>5, Zenon DEF Outside
<1> QED BY <1>1, <1>2, <1>3, OutsideSends, PlainKeeps

LEMMA DownloadInvariant == Spec => [](DownloadLine /\ StuckOnSocket)
<1>1. Init => DownloadLine /\ StuckOnSocket
  <2> SUFFICES ASSUME Init PROVE DownloadLine /\ StuckOnSocket
    OBVIOUS
  <2>1. /\ DOMAIN sock = {} /\ deferred = <<>> /\ watcher.at = "wait" /\ ~HasEvent
        /\ \A c \in Conn : ws[c].out = <<>>
    BY DEF Init, HasEvent
  <2>2. \A c \in Conn, s \in StreamId : client[c].got[s] = <<>>
    BY DEF Init, InitClient
  <2>3. DOMAIN Pending = {}
    BY <2>1 DEF Pending
  <2>4. \A p, q, s : DOMAIN p = {} => SentLine(<<>>, <<>>, s, p, q)
    BY NothingPrecedes DEF SentLine, StreamInOrder, Behind
  <2>5. \A c \in Conn, s \in StreamId : SentLine(client[c].got[s], ws[c].out, s, Pending, sock)
    BY <2>1, <2>2, <2>3, <2>4
  <2> QED BY <2>1, <2>3, <2>5 DEF DownloadLine, UnreadLine, PendingLine, StuckOnSocket
<1>2. TypeOK /\ TypeOK' /\ Ownership /\ StuckOnSocket /\ DownloadLine /\ [Next]_vars => DownloadLine'
  <2> SUFFICES ASSUME TypeOK, TypeOK', Ownership, StuckOnSocket, DownloadLine, [Next]_vars PROVE DownloadLine'
    OBVIOUS
  <2>1. ASSUME UNCHANGED vars \/ Resting PROVE DownloadLine'
    <3>1. UNCHANGED <<deferred, watcher, sock, client, ws>>
      BY <2>1, Zenon DEF Resting, vars, deferVars, kernelVars, netVars
    <3> QED BY <3>1, NothingSent, UnreadSame, DownloadQuiet DEF GotKept
  <2> QED BY <2>1, DownloadLoop, DownloadWatcher, DownloadWorker, DownloadOutside, Zenon DEF Next
<1>3. TypeOK /\ StuckOnSocket /\ [Next]_vars => StuckOnSocket'
  BY StuckStep DEF vars, kernelVars, StuckOnSocket
<1> QED BY <1>1, <1>2, <1>3, TypeCorrect, OwnershipInvariant, PTL DEF Spec

(* Whatever the clients do, what a target sends arrives in order and at    *)
(* most once, across lambdas, batches of events and descriptor reuse:      *)
(* there is one watcher, the loop runs its lambdas first in, first out,    *)
(* and a read() on a number reads what no read() has read before           *)
(* (SystemWatcher::watch, websocketManager.cpp).                           *)
THEOREM DownloadInOrder == Spec => []DownloadOrder
<1>1. DownloadLine => DownloadOrder
  BY DEF DownloadLine, SentLine, DownloadOrder
<1> QED BY <1>1, DownloadInvariant, PTL

----------------------------------------------------------------------------
(* Descriptor numbers, and the sockets that have or had them.              *)

(* Sockets keep what they were opened with, and an end is for good. *)
Onward(q, r) ==
  \A k \in DOMAIN q :
    /\ k \in DOMAIN r /\ r[k].c = q[k].c /\ r[k].s = q[k].s /\ r[k].fd = q[k].fd
    /\ q[k].eof => r[k].eof

SameOnward(q, r) == Onward(q, r) /\ DOMAIN r = DOMAIN q

LEMMA OnwardForms ==
  ASSUME NEW q \in Seq(Socket), NEW r
  PROVE  /\ r = q => SameOnward(q, r)
         /\ \A k : r = [q EXCEPT ![k].eof = TRUE] => SameOnward(q, r)
         /\ \A k, t : r = [q EXCEPT ![k].rx = Append(@, t)] => SameOnward(q, r)
         /\ \A k : r = [q EXCEPT ![k].inq = Tail(@)] => SameOnward(q, r)
         /\ \A k, v : r = [q EXCEPT ![k].sent = @ + 1, ![k].inq = Append(@, v)] => SameOnward(q, r)
         /\ \A x : r = Append(q, x) => Onward(q, r)
<1>1. \A k \in DOMAIN q : q[k] \in Socket
  OBVIOUS
<1>2. r = q => SameOnward(q, r)
  BY DEF SameOnward, Onward
<1>3. ASSUME NEW k, r = [q EXCEPT ![k].eof = TRUE] PROVE SameOnward(q, r)
  BY <1>1, <1>3 DEF SameOnward, Onward, Socket
<1>4. ASSUME NEW k, NEW t, r = [q EXCEPT ![k].rx = Append(@, t)] PROVE SameOnward(q, r)
  BY <1>1, <1>4 DEF SameOnward, Onward, Socket
<1>5. ASSUME NEW k, r = [q EXCEPT ![k].inq = Tail(@)] PROVE SameOnward(q, r)
  BY <1>1, <1>5 DEF SameOnward, Onward, Socket
<1>6. ASSUME NEW k, NEW v, r = [q EXCEPT ![k].sent = @ + 1, ![k].inq = Append(@, v)] PROVE SameOnward(q, r)
  BY <1>1, <1>6 DEF SameOnward, Onward, Socket
<1>7. ASSUME NEW x, r = Append(q, x) PROVE Onward(q, r)
  BY <1>7 DEF Onward
<1> QED BY <1>2, <1>3, <1>4, <1>5, <1>6, <1>7, Zenon

LEMMA SocketsOnward ==
  ASSUME TypeOK,
         \/ LoopStep \/ WatcherStep \/ (\E w \in Worker : WorkerStep(w)) \/ Outside
         \/ UNCHANGED vars \/ Resting
  PROVE  /\ Onward(sock, sock')
         /\ \/ DOMAIN sock' = DOMAIN sock
            \/ \E c \in Conn, s \in StreamId, type \in Asked : RecvConnect(c, s, type)
<1> USE DEF mgrVars, deferVars, kernelVars, poolVars, netVars
<1>0. sock \in Seq(Socket)
  BY DEF TypeOK
<1>1. CASE LoopStep
  <2>1. UNCHANGED sock \/ \E k : sock' = [sock EXCEPT ![k].eof = TRUE]
    BY <1>1, Zenon DEF LoopStep, ConnectFails, ConnectSucceeds, ConnectInsert, Wake,
         RunDeferred, DeferredClose, close_stream, CloseFd, Finish, UpdateNext,
         ForceClose, Destruct
  <2> QED BY ONLY <1>0, <2>1, OnwardForms, Zenon DEF SameOnward
<1>2. CASE WatcherStep
  <2>1. UNCHANGED sock \/ \E k : sock' = [sock EXCEPT ![k].inq = Tail(@)]
    BY <1>2, Zenon DEF WatcherStep, WatchWait, WatchWake, WatchEvent, WatchRead,
         WatchReadReturns, ReadChunk, ReadEnd, WatchErase, WatchCount, WatchDefer
  <2> QED BY ONLY <1>0, <2>1, OnwardForms, Zenon DEF SameOnward
<1>3. CASE \E w \in Worker : WorkerStep(w)
  <2>1. UNCHANGED sock \/ \E k, t : sock' = [sock EXCEPT ![k].rx = Append(@, t)]
    BY <1>3, Zenon DEF WorkerStep, WorkerPop, WorkerLock, WorkerNoStream, WorkerNoManager,
         WorkerWrite, WorkerSigpipe
  <2> QED BY ONLY <1>0, <2>1, OnwardForms, Zenon DEF SameOnward
<1>4. CASE UNCHANGED vars \/ Resting
  <2>1. UNCHANGED sock
    BY <1>4, Zenon DEF vars, Resting
  <2> QED BY ONLY <1>0, <2>1, OnwardForms, Zenon DEF SameOnward
<1>5. CASE Outside
  <2>1. ASSUME NEW c \in Conn, Open(c) \/ Drain(c) \/ WsClosed(c) \/ ClientReceive(c)
        PROVE  UNCHANGED sock
    BY <2>1, Zenon DEF Open, Drain, WsClosed, ClientReceive
  <2>2. ASSUME NEW c \in Conn, NEW s \in StreamId, RecvData(c, s) \/ RecvClose(c, s)
        PROVE  UNCHANGED sock
    BY <2>2, Zenon DEF RecvData, RecvClose
  <2>3. ASSUME NEW c \in Conn, NEW s \in StreamId, NEW type \in Asked, RecvConnect(c, s, type)
        PROVE  UNCHANGED sock \/ \E x : sock' = Append(sock, x)
    BY <2>3, Zenon DEF RecvConnect, handle_connect
  <2>4. ASSUME NEW k \in DOMAIN sock, TargetSend(k) \/ TargetClose(k)
        PROVE  \/ \E j : sock' = [sock EXCEPT ![j].eof = TRUE]
               \/ \E j, v : sock' = [sock EXCEPT ![j].sent = @ + 1, ![j].inq = Append(@, v)]
    BY <2>4, Zenon DEF TargetSend, TargetClose
  <2>5. \/ UNCHANGED sock
        \/ /\ \E x : sock' = Append(sock, x)
           /\ \E c \in Conn, s \in StreamId, type \in Asked : RecvConnect(c, s, type)
        \/ \E j : sock' = [sock EXCEPT ![j].eof = TRUE]
        \/ \E j, v : sock' = [sock EXCEPT ![j].sent = @ + 1, ![j].inq = Append(@, v)]
    BY <1>5, <2>1, <2>2, <2>3, <2>4, Zenon DEF Outside
  <2> QED BY ONLY <1>0, <2>5, OnwardForms, Zenon DEF SameOnward
<1> QED BY <1>1, <1>2, <1>3, <1>4, <1>5

(* The numbers that appear in events, from epoll_wait to the lambda. *)
Named == {fd \in Fd : \/ \E i \in DOMAIN deferred : deferred[i].fd = fd
                      \/ HasEvent /\ watcher.e.fd = fd
                      \/ watcher.at # "wait" /\ fd \in watcher.todo}

(* A socket with number fd has got past connect(). *)
Connected(fd) == \E j \in DOMAIN sock : sock[j].fd = fd /\ ~InConnect(j)

(* The inductive invariant: a number stands for a socket that was opened   *)
(* with it, epoll and the events know only numbers of connected sockets,   *)
(* and a read() blocks only on a socket whose number was used before.      *)
Numbers ==
  /\ \A fd \in Fd : fdtab[fd] # 0 => sock[fdtab[fd]].fd = fd
  /\ \A fd \in epoll : fdtab[fd] # 0 /\ ~(loop.at = "connect" /\ loop.fd = fd)
  /\ \A fd \in Named : Connected(fd)
  /\ watcher.at = "stuck" =>
       /\ sock[watcher.k].fd = watcher.e.fd
       /\ \E j \in DOMAIN sock : j # watcher.k /\ sock[j].fd = watcher.e.fd

LEMMA NumbersKept ==
  ASSUME TypeOK, TypeOK', StuckOnSocket, Numbers, Onward(sock, sock'),
         \A fd \in Fd : fdtab'[fd] \in {0, fdtab[fd]},
         \A fd \in epoll' : fd \in epoll /\ fdtab'[fd] = fdtab[fd],
         loop'.at = "connect" => UNCHANGED loop /\ fdtab'[loop.fd] = fdtab[loop.fd],
         Named' \subseteq Named,
         watcher'.at = "stuck" => UNCHANGED watcher
  PROVE  Numbers'
<1>1. \A fd \in Fd : fdtab[fd] # 0 => fdtab[fd] \in DOMAIN sock
  BY DEF TypeOK
<1>2. \A fd \in Fd : fdtab'[fd] # 0 => sock'[fdtab'[fd]].fd = fd
  BY <1>1 DEF Numbers, Onward
<1>3. \A fd \in epoll' : fdtab'[fd] # 0 /\ ~(loop'.at = "connect" /\ loop'.fd = fd)
  BY DEF Numbers
<1>4. \A j : InConnect(j)' => InConnect(j)
  BY DEF InConnect
<1>5. ASSUME NEW fd \in Named' PROVE Connected(fd)'
  <2>1. PICK j \in DOMAIN sock : sock[j].fd = fd /\ ~InConnect(j)
    BY DEF Numbers, Connected
  <2>2. j \in DOMAIN sock' /\ sock'[j].fd = fd /\ ~InConnect(j)'
    BY <1>4, <2>1 DEF Onward
  <2> QED BY <2>2 DEF Connected
<1>6. ASSUME watcher'.at = "stuck"
      PROVE  /\ sock'[watcher'.k].fd = watcher'.e.fd
             /\ \E j \in DOMAIN sock' : j # watcher'.k /\ sock'[j].fd = watcher'.e.fd
  <2>1. UNCHANGED watcher /\ watcher.k \in DOMAIN sock /\ sock[watcher.k].fd = watcher.e.fd
    BY <1>6 DEF Numbers, StuckOnSocket
  <2>2. PICK j \in DOMAIN sock : j # watcher.k /\ sock[j].fd = watcher.e.fd
    BY <1>6, <2>1 DEF Numbers
  <2> QED BY <2>1, <2>2 DEF Onward
<1> QED BY <1>2, <1>3, <1>5, <1>6 DEF Numbers

(* Steps that leave descriptors and events alone. *)
LEMMA NumbersQuiet ==
  ASSUME TypeOK, TypeOK', StuckOnSocket, Numbers, Onward(sock, sock'),
         UNCHANGED <<fdtab, epoll, deferred, watcher>>, loop'.at = "connect" => UNCHANGED loop
  PROVE  Numbers'
<1>1. Named' = Named
  BY DEF Named, HasEvent
<1>2. \A fd \in epoll : fd \in Fd
  BY DEF TypeOK
<1> QED BY <1>1, <1>2, NumbersKept

LEMMA NumbersClose ==
  ASSUME TypeOK, TypeOK', StuckOnSocket, Numbers, Onward(sock, sock'), NEW fd \in Fd,
         fdtab' = [fdtab EXCEPT ![fd] = 0], epoll' \subseteq epoll, fd \notin epoll',
         UNCHANGED <<deferred, watcher>>, loop'.at # "connect"
  PROVE  Numbers'
<1>1. Named' = Named
  BY DEF Named, HasEvent
<1>2. fdtab'[fd] = 0 /\ \A f \in Fd : f # fd => fdtab'[f] = fdtab[f]
  BY DEF TypeOK
<1>3. \A f \in epoll' : f \in Fd /\ f # fd
  BY DEF TypeOK
<1> QED BY <1>1, <1>2, <1>3, NumbersKept

LEMMA NumbersLoop ==
  ASSUME TypeOK, TypeOK', Ownership, StuckOnSocket, Numbers, LoopStep
  PROVE  Numbers'
<1> USE DEF mgrVars, deferVars, kernelVars, poolVars, netVars
<1>0. Onward(sock, sock')
  BY SocketsOnward
<1>1. CASE ConnectInsert \/ Wake \/ Finish \/ UpdateNext \/ Destruct
  <2>1. UNCHANGED <<fdtab, epoll, deferred, watcher>>
    BY <1>1, Zenon DEF ConnectInsert, Wake, Finish, UpdateNext, Destruct
  <2>2. loop'.at # "connect"
    <3>1. CASE ConnectInsert \/ Wake \/ Finish \/ Destruct
      BY <3>1 DEF ConnectInsert, Wake, Finish, Destruct, Idle
    <3>2. CASE UpdateNext
      <4>1. loop.at = "update" /\ \E c \in loop.todo :
              loop' = IF loop.todo = {c} THEN Idle ELSE [loop EXCEPT !.todo = @ \ {c}]
        BY <3>2, Zenon DEF UpdateNext
      <4> QED BY <4>1 DEF Idle, TypeOK, LoopState
    <3> QED BY <1>1, <3>1, <3>2
  <2> QED BY <1>0, <2>1, <2>2, NumbersQuiet
<1>2. CASE ConnectFails
  <2>1. /\ loop.at = "connect" /\ fdtab' = [fdtab EXCEPT ![loop.fd] = 0] /\ loop' = Idle
        /\ UNCHANGED <<epoll, deferred, watcher>>
    BY <1>2, Zenon DEF ConnectFails
  <2>2. loop.fd \in Fd /\ loop.fd \notin epoll /\ loop'.at # "connect"
    BY <2>1 DEF TypeOK, LoopState, Numbers, Idle
  <2> QED BY <1>0, <2>1, <2>2, NumbersClose
<1>3. CASE ConnectSucceeds
  <2>1. /\ loop.at = "connect" /\ epoll' = epoll \cup {loop.fd}
        /\ loop' = [loop EXCEPT !.at = "insert"] /\ UNCHANGED <<fdtab, sock, deferred, watcher>>
    BY <1>3, Zenon DEF ConnectSucceeds
  <2>2. loop'.at = "insert"
    BY <2>1 DEF TypeOK, LoopState
  <2>3. fdtab[loop.fd] # 0
    <3>1. fdtab[loop.fd] \in DOMAIN sock
      BY <2>1 DEF Ownership, EntriesOpen, OpenFor
    <3> QED BY <3>1 DEF TypeOK
  <2>4. Named' = Named
    BY <2>1 DEF Named, HasEvent
  <2>5. \A fd : Connected(fd) => Connected(fd)'
    BY <2>1, <2>2 DEF Connected, InConnect
  <2> QED BY <2>1, <2>2, <2>3, <2>4, <2>5 DEF Numbers
<1>4. CASE RunDeferred
  <2>1. /\ deferred # <<>> /\ deferred' = Tail(deferred) /\ UNCHANGED <<fdtab, epoll, watcher>>
        /\ loop'.at # "connect"
    <3>1. deferred # <<>> /\ deferred' = Tail(deferred) /\ UNCHANGED <<fdtab, epoll, watcher>>
      BY <1>4, Zenon DEF RunDeferred
    <3>2. Uncount \/ \E c, s : loop' = [at |-> "close", c |-> c, s |-> s]
      BY <1>4, Zenon DEF RunDeferred
    <3>3. loop'.at # "connect"
      BY <3>2 DEF Uncount
    <3> QED BY <3>1, <3>3
  <2>2. Named' \subseteq Named
    <3>1. \A i \in DOMAIN deferred' : i + 1 \in DOMAIN deferred /\ deferred'[i] = deferred[i + 1]
      <4>1. deferred \in Seq(Lambda)
        BY DEF TypeOK
      <4> QED BY ONLY <2>1, <4>1, SMT
    <3> QED BY <2>1, <3>1 DEF Named, HasEvent
  <2>3. \A fd \in epoll : fd \in Fd
    BY DEF TypeOK
  <2> QED BY <1>0, <2>1, <2>2, <2>3, NumbersKept
<1>5. ASSUME NEW c \in Conn, NEW s \in StreamId, close_stream(c, s), Live(c, s),
             UNCHANGED <<deferred, watcher>>, loop'.at # "connect"
      PROVE  Numbers'
  <2>1. FdOf(c, s) \in Fd
    <3>1. streams[c][s] \in Stream
      BY <1>5 DEF TypeOK, Live
    <3> QED BY <3>1 DEF Stream, FdOf
  <2>2. CloseFd(FdOf(c, s))
    BY <1>5, Zenon DEF close_stream, FdOf
  <2>3. /\ fdtab' = [fdtab EXCEPT ![FdOf(c, s)] = 0]
        /\ epoll' \subseteq epoll /\ FdOf(c, s) \notin epoll'
    BY <2>2 DEF CloseFd
  <2> QED BY <1>0, <1>5, <2>1, <2>3, NumbersClose
<1>6. CASE DeferredClose
  <2>1. /\ loop.at = "close" /\ close_stream(loop.c, loop.s) /\ loop' = [at |-> "finish"]
        /\ UNCHANGED <<deferred, watcher>>
    BY <1>6, Zenon DEF DeferredClose, Uncount
  <2>2. loop.c \in Conn /\ loop.s \in StreamId /\ Live(loop.c, loop.s)
    BY <2>1 DEF TypeOK, LoopState, Ownership, LoopOwns
  <2> QED BY <1>5, <2>1, <2>2
<1>7. CASE ForceClose
  <2>1. /\ loop.at = "force" /\ UNCHANGED <<deferred, watcher>>
        /\ \E s \in loop.todo : close_stream(loop.c, s) /\ loop' = [loop EXCEPT !.todo = @ \ {s}]
    BY <1>7, Zenon DEF ForceClose
  <2>2. PICK s \in loop.todo : close_stream(loop.c, s) /\ loop' = [loop EXCEPT !.todo = @ \ {s}]
    BY <2>1
  <2>3. loop.c \in Conn /\ s \in StreamId /\ Live(loop.c, s) /\ loop'.at # "connect"
    BY <2>1, <2>2 DEF TypeOK, LoopState, Ownership, LoopOwns
  <2> QED BY <1>5, <2>1, <2>2, <2>3
<1> QED BY <1>1, <1>2, <1>3, <1>4, <1>6, <1>7 DEF LoopStep

LEMMA NumbersWatcher ==
  ASSUME TypeOK, TypeOK', StuckOnSocket, Numbers, WatcherStep
  PROVE  Numbers'
<1> USE DEF mgrVars, deferVars, kernelVars, poolVars, netVars
<1>0. Onward(sock, sock') /\ UNCHANGED loop
  BY SocketsOnward, ThreadsSendNothing
<1>a. UNCHANGED fdtab /\ epoll' \subseteq epoll
  BY Zenon DEF WatcherStep, WatchWait, WatchWake, WatchEvent, WatchRead,
         WatchReadReturns, WatchErase, WatchCount, WatchDefer
<1>b. \A fd \in epoll : fd \in Fd
  BY DEF TypeOK
<1>1. ASSUME Named' \subseteq Named, watcher'.at # "stuck" PROVE Numbers'
  BY <1>0, <1>a, <1>b, <1>1, NumbersKept
<1>2. CASE WatchWait
  <2>1. /\ UNCHANGED <<epoll, deferred, sock>> /\ watcher.at = "wait"
        /\ \E events \in SUBSET Ready : watcher' = [at |-> "batch", todo |-> events]
    BY <1>2, Zenon DEF WatchWait
  <2>2. PICK events \in SUBSET Ready : watcher' = [at |-> "batch", todo |-> events]
    BY <2>1
  <2>3. watcher'.at = "batch" /\ ~HasEvent' /\ watcher'.todo = events /\ watcher'.at # "stuck"
    BY <2>2 DEF HasEvent
  <2>4. \A fd : Connected(fd) => Connected(fd)'
    BY <1>0, <1>a, <2>1 DEF Connected, InConnect
  <2>5. ASSUME NEW fd \in Fd, fd \in events PROVE Connected(fd)
    <3>1. fd \in epoll
      BY <2>5, StateAssumption DEF Ready
    <3>2. fdtab[fd] # 0 /\ ~(loop.at = "connect" /\ loop.fd = fd) /\ fdtab[fd] \in DOMAIN sock
      BY <3>1 DEF Numbers, TypeOK
    <3>3. sock[fdtab[fd]].fd = fd
      BY <3>2 DEF Numbers
    <3>4. ~InConnect(fdtab[fd])
      <4> SUFFICES ASSUME loop.at = "connect", fdtab[loop.fd] = fdtab[fd] PROVE FALSE
        BY DEF InConnect
      <4>1. loop.fd \in Fd
        BY DEF TypeOK, LoopState
      <4>2. sock[fdtab[loop.fd]].fd = loop.fd
        BY <3>2, <4>1 DEF Numbers
      <4> QED BY <3>2, <3>3, <4>2
    <3> QED BY <3>2, <3>3, <3>4 DEF Connected
  <2>6. \A fd \in Named' : fd \in Named \/ (fd \in Fd /\ fd \in events)
    BY <2>1, <2>3 DEF Named
  <2>7. \A fd \in Named' : Connected(fd)'
    BY <2>4, <2>5, <2>6 DEF Numbers
  <2> QED BY <1>0, <1>a, <2>1, <2>3, <2>7 DEF Numbers
<1>3. CASE WatchWake
  <2>1. UNCHANGED deferred /\ watcher.at = "batch" /\ watcher' = Rest(watcher.todo \ {PipeFd})
    BY <1>3, Zenon DEF WatchWake
  <2>2. ~HasEvent' /\ watcher'.at # "stuck"
    BY <2>1 DEF HasEvent, Rest
  <2>3. watcher'.at # "wait" => watcher'.todo \subseteq watcher.todo
    BY <2>1 DEF Rest
  <2> QED BY <1>1, <2>1, <2>2, <2>3 DEF Named
<1>4. CASE WatchEvent
  <2>1. PICK fd \in watcher.todo \ {PipeFd} :
          watcher' = [at |-> "reading", e |-> [fd |-> fd, data |-> <<>>, to_close |-> FALSE],
                      todo |-> watcher.todo \ {fd}]
    BY <1>4, Zenon DEF WatchEvent
  <2>2. UNCHANGED deferred /\ watcher.at = "batch"
    BY <1>4, Zenon DEF WatchEvent
  <2>3. watcher'.e.fd = fd /\ watcher'.todo \subseteq watcher.todo /\ watcher'.at # "stuck"
    BY <2>1
  <2> QED BY <1>1, <2>1, <2>2, <2>3 DEF Named
<1>5. CASE WatchErase \/ WatchCount
  <2>1. /\ UNCHANGED deferred /\ watcher.at \in {"ended", "done"}
        /\ (watcher' = [watcher EXCEPT !.at = "done"] \/ watcher' = [watcher EXCEPT !.at = "counted"])
    BY <1>5, Zenon DEF WatchErase, WatchCount
  <2>2. HasEvent /\ watcher'.e = watcher.e /\ watcher'.todo = watcher.todo /\ watcher'.at \in {"done", "counted"}
    BY <2>1 DEF HasEvent, TypeOK, WatcherState
  <2>3. watcher.at # "wait" /\ watcher'.at # "stuck"
    BY <2>1, <2>2
  <2> QED BY <1>1, <2>1, <2>2, <2>3 DEF Named
<1>6. CASE WatchDefer
  <2>1. watcher.at = "counted" /\ deferred' = Append(deferred, watcher.e) /\ watcher' = Rest(watcher.todo)
    BY <1>6, Zenon DEF WatchDefer
  <2>2. HasEvent /\ ~HasEvent' /\ watcher'.at # "stuck" /\ watcher.at # "wait"
    BY <2>1 DEF HasEvent, Rest
  <2>3. watcher'.at # "wait" => watcher'.todo \subseteq watcher.todo
    BY <2>1 DEF Rest
  <2>4. \A i \in DOMAIN deferred' : deferred'[i] = watcher.e \/ (i \in DOMAIN deferred /\ deferred'[i] = deferred[i])
    <3>1. deferred \in Seq(Lambda)
      BY DEF TypeOK
    <3> QED BY ONLY <2>1, <3>1, SMT
  <2> QED BY <1>1, <2>2, <2>3, <2>4 DEF Named
<1>7. ASSUME watcher.at \in {"reading", "stuck"}, UNCHANGED deferred,
             watcher'.at \in {"reading", "ended", "done"},
             watcher'.e.fd = watcher.e.fd, watcher'.todo = watcher.todo
      PROVE  Numbers'
  <2>1. HasEvent /\ watcher.at # "wait" /\ watcher'.at # "stuck"
    BY <1>7 DEF HasEvent
  <2> QED BY <1>1, <1>7, <2>1 DEF Named
<1>8. ASSUME watcher.at \in {"reading", "stuck"}, UNCHANGED deferred, NEW d \in Seq(Chunk), NEW b \in BOOLEAN,
             \/ EndLoop([watcher.e EXCEPT !.data = d], b)
             \/ watcher' = [at |-> "reading", e |-> [watcher.e EXCEPT !.data = d], todo |-> watcher.todo]
      PROVE  Numbers'
  <2>1. watcher.e \in Lambda
    BY <1>8 DEF TypeOK, WatcherState
  <2>a. PICK f : f = [watcher.e EXCEPT !.data = d]
    OBVIOUS
  <2>b. f \in Lambda /\ f = [watcher.e EXCEPT !.data = d] /\ f.fd = watcher.e.fd
    BY <2>1, <2>a DEF Lambda
  <2>c. CASE EndLoop(f, b)
    <3>1. watcher'.e = [f EXCEPT !.to_close = b] /\ watcher'.todo = watcher.todo
      BY <2>c DEF EndLoop
    <3>2. watcher'.at \in {"ended", "done"}
      BY <2>c DEF EndLoop
    <3>3. [f EXCEPT !.to_close = b].fd = f.fd
      BY <2>b DEF Lambda
    <3> QED BY <1>7, <1>8, <2>b, <3>1, <3>2, <3>3
  <2>d. CASE watcher' = [at |-> "reading", e |-> f, todo |-> watcher.todo]
    <3>1. watcher'.at = "reading" /\ watcher'.e = f /\ watcher'.todo = watcher.todo
      BY <2>d
    <3> QED BY <1>7, <1>8, <2>b, <3>1
  <2> QED BY <1>8, <2>b, <2>c, <2>d
<1>9. ASSUME watcher.at \in {"reading", "stuck"}, UNCHANGED deferred, NEW k \in DOMAIN sock, ReadChunk(k)
      PROVE  Numbers'
  <2> DEFINE d == Append(watcher.e.data, [k |-> k, n |-> Head(sock[k].inq)])
  <2>1. watcher.e \in Lambda
    BY <1>9 DEF TypeOK, WatcherState
  <2>2. d \in Seq(Chunk)
    <3>1. sock[k] \in Socket /\ sock[k].inq # <<>> /\ k \in Nat
      BY <1>9 DEF TypeOK, ReadChunk
    <3>2. Head(sock[k].inq) \in Nat
      BY <3>1 DEF Socket
    <3> QED BY <2>1, <3>1, <3>2 DEF Lambda, Chunk
  <2>3. \/ EndLoop([watcher.e EXCEPT !.data = d], FALSE)
        \/ watcher' = [at |-> "reading", e |-> [watcher.e EXCEPT !.data = d], todo |-> watcher.todo]
    BY <1>9, Zenon DEF ReadChunk
  <2> HIDE DEF d
  <2> QED BY <1>8, <1>9, <2>2, <2>3
<1>10. ASSUME watcher.at \in {"reading", "stuck"}, UNCHANGED deferred, NEW b \in BOOLEAN, EndLoop(watcher.e, b)
       PROVE  Numbers'
  <2>1. watcher.e \in Lambda
    BY <1>10 DEF TypeOK, WatcherState
  <2>2. /\ watcher'.at \in {"reading", "ended", "done"} /\ watcher'.todo = watcher.todo
        /\ watcher'.e.fd = watcher.e.fd
    BY <1>10, <2>1 DEF EndLoop, Lambda
  <2> QED BY <1>7, <1>10, <2>2
<1>11. CASE WatchReadReturns
  <2>1. watcher.at = "stuck" /\ UNCHANGED deferred /\ (ReadChunk(watcher.k) \/ ReadEnd(watcher.k))
    BY <1>11, Zenon DEF WatchReadReturns
  <2>2. watcher.k \in DOMAIN sock /\ watcher.at \in {"reading", "stuck"}
    BY <2>1 DEF StuckOnSocket
  <2> QED BY <1>9, <1>10, <2>1, <2>2, Zenon DEF ReadEnd
<1>12. CASE WatchRead
  <2> DEFINE k == fdtab[watcher.e.fd]
  <2>1. watcher.at = "reading" /\ UNCHANGED deferred /\ watcher.at \in {"reading", "stuck"}
    BY <1>12, Zenon DEF WatchRead
  <2>2. watcher.e \in Lambda
    BY <2>1 DEF TypeOK, WatcherState
  <2>3. watcher.e.fd \in Fd /\ (k # 0 => k \in DOMAIN sock)
    BY <2>2 DEF TypeOK, Lambda
  <2>4. \/ k # 0 /\ (ReadChunk(k) \/ ReadEnd(k))
        \/ \E b \in BOOLEAN : EndLoop(watcher.e, b)
        \/ /\ UNCHANGED sock /\ InConnect(k) /\ k # 0
           /\ watcher' = [at |-> "stuck", k |-> k, e |-> watcher.e, todo |-> watcher.todo]
    BY <1>12, Zenon DEF WatchRead
  <2>5. k # 0 => sock[k].fd = watcher.e.fd
    BY <2>3 DEF Numbers
  <2> HIDE DEF k
  <2>6. CASE /\ UNCHANGED sock /\ InConnect(k) /\ k # 0
             /\ watcher' = [at |-> "stuck", k |-> k, e |-> watcher.e, todo |-> watcher.todo]
    <3>1. HasEvent /\ watcher.at # "wait" /\ watcher'.e = watcher.e /\ watcher'.k = k /\ watcher'.todo = watcher.todo
      BY <2>1, <2>6 DEF HasEvent
    <3>2. watcher.e.fd \in Named
      BY <2>3, <3>1 DEF Named
    <3>3. PICK j \in DOMAIN sock : sock[j].fd = watcher.e.fd /\ ~InConnect(j)
      BY <3>2 DEF Numbers, Connected
    <3>4. j # k
      BY <2>6, <3>3
    <3>5. Named' \subseteq Named
      BY <2>1, <3>1 DEF Named
    <3>6. \A fd : Connected(fd) => Connected(fd)'
      BY <1>0, <1>a, <2>6 DEF Connected, InConnect
    <3>7. /\ \A fd \in Fd : fdtab'[fd] # 0 => sock'[fdtab'[fd]].fd = fd
          /\ \A fd \in epoll' : fdtab'[fd] # 0 /\ ~(loop'.at = "connect" /\ loop'.fd = fd)
          /\ \A fd \in Named' : Connected(fd)'
      BY <1>0, <1>a, <2>6, <3>5, <3>6 DEF Numbers
    <3>8. sock'[watcher'.k].fd = watcher'.e.fd /\ \E i \in DOMAIN sock' : i # watcher'.k /\ sock'[i].fd = watcher'.e.fd
      BY <2>5, <2>6, <3>1, <3>3, <3>4
    <3> QED BY <3>7, <3>8 DEF Numbers
  <2> QED BY <1>9, <1>10, <2>1, <2>3, <2>4, <2>6, Zenon DEF ReadEnd
<1> QED BY <1>2, <1>3, <1>4, <1>5, <1>6, <1>11, <1>12 DEF WatcherStep

LEMMA NumbersOutside ==
  ASSUME TypeOK, TypeOK', StuckOnSocket, Numbers, Outside
  PROVE  Numbers'
<1> USE DEF mgrVars, deferVars, kernelVars, poolVars, netVars
<1>0. Onward(sock, sock')
  BY SocketsOnward
<1>1. ASSUME NEW c \in Conn, Open(c) \/ Drain(c) \/ WsClosed(c) \/ ClientReceive(c)
      PROVE  Numbers'
  <2>1. UNCHANGED <<fdtab, epoll, deferred, watcher>>
    BY <1>1, Zenon DEF Open, Drain, WsClosed, ClientReceive
  <2>2. loop'.at = "connect" => UNCHANGED loop
    <3>1. \/ UNCHANGED loop \/ loop' = [at |-> "wake", locked |-> {}]
          \/ \E todo : loop' = [at |-> "force", c |-> c, todo |-> todo]
      BY <1>1, Zenon DEF Open, Drain, WsClosed, ClientReceive
    <3> QED BY <3>1
  <2> QED BY <1>0, <2>1, <2>2, NumbersQuiet
<1>2. ASSUME NEW c \in Conn, NEW s \in StreamId, RecvData(c, s) \/ RecvClose(c, s)
      PROVE  Numbers'
  <2>1. UNCHANGED <<fdtab, epoll, deferred, watcher, loop>>
    BY <1>2, Zenon DEF RecvData, RecvClose
  <2> QED BY <1>0, <2>1, NumbersQuiet
<1>3. ASSUME NEW k \in DOMAIN sock, TargetSend(k) \/ TargetClose(k)
      PROVE  Numbers'
  <2>1. UNCHANGED <<fdtab, epoll, deferred, watcher, loop>>
    BY <1>3, Zenon DEF TargetSend, TargetClose
  <2> QED BY <1>0, <2>1, NumbersQuiet
<1>4. ASSUME NEW c \in Conn, NEW s \in StreamId, NEW type \in Asked, RecvConnect(c, s, type)
      PROVE  Numbers'
  <2>1. UNCHANGED <<deferred, watcher>> /\ loop.at = "idle"
    BY <1>4, ConnectForms
  <2>2. CASE UNCHANGED <<loop, epoll, fdtab, sock>>
    BY <1>0, <2>1, <2>2, NumbersQuiet
  <2>3. ASSUME NEW fd \in Fd, NEW k, Opens(c, s, fd, k) PROVE Numbers'
    <3>1. Named' = Named
      BY <2>1 DEF Named, HasEvent
    <3>2. fdtab'[fd] = k /\ \A f \in Fd : f # fd => fdtab'[f] = fdtab[f]
      BY <2>3 DEF Opens, TypeOK
    <3>3. \A f \in Fd : fdtab[f] # 0 => fdtab[f] \in DOMAIN sock
      BY DEF TypeOK
    <3>4. \A f \in Fd : fdtab'[f] # 0 => sock'[fdtab'[f]].fd = f
      BY <2>3, <3>2, <3>3 DEF Opens, Numbers
    <3>5. \A f \in epoll' : f \in Fd /\ f \in epoll /\ f # fd
      BY <2>3 DEF Opens, Numbers, TypeOK
    <3>6. \A f \in epoll' : fdtab'[f] # 0 /\ ~(loop'.at = "connect" /\ loop'.fd = f)
      BY <2>3, <3>2, <3>5 DEF Opens, Numbers
    <3>7. ASSUME NEW f \in Named' PROVE Connected(f)'
      <4>1. PICK j \in DOMAIN sock : sock[j].fd = f
        BY <3>1 DEF Numbers, Connected
      <4>2. ~InConnect(j)'
        BY <2>3, <3>2, <4>1 DEF Opens, InConnect
      <4> QED BY <2>3, <4>1, <4>2 DEF Opens, Connected
    <3>8. ASSUME watcher'.at = "stuck"
          PROVE  /\ sock'[watcher'.k].fd = watcher'.e.fd
                 /\ \E j \in DOMAIN sock' : j # watcher'.k /\ sock'[j].fd = watcher'.e.fd
      <4>1. watcher.k \in DOMAIN sock /\ sock[watcher.k].fd = watcher.e.fd
        BY <2>1, <3>8 DEF Numbers, StuckOnSocket
      <4>2. PICK j \in DOMAIN sock : j # watcher.k /\ sock[j].fd = watcher.e.fd
        BY <2>1, <3>8 DEF Numbers
      <4> QED BY <2>1, <2>3, <4>1, <4>2 DEF Opens
    <3> QED BY <3>4, <3>6, <3>7, <3>8 DEF Numbers
  <2> QED BY <1>4, <2>2, <2>3, ConnectForms
<1> QED BY <1>1, <1>2, <1>3, <1>4, Zenon DEF Outside

LEMMA NumbersStep ==
  ASSUME TypeOK, TypeOK', Ownership, StuckOnSocket, Numbers, [Next]_vars
  PROVE  Numbers'
<1>1. ASSUME (\E w \in Worker : WorkerStep(w)) \/ UNCHANGED vars \/ Resting PROVE Numbers'
  <2>1. Onward(sock, sock')
    BY <1>1, SocketsOnward
  <2>2. UNCHANGED loop
    BY <1>1, ThreadsSendNothing
  <2>3. ASSUME NEW w \in Worker, WorkerStep(w) PROVE UNCHANGED <<fdtab, epoll, deferred, watcher>>
    BY <2>3, Zenon DEF WorkerStep, WorkerPop, WorkerLock, WorkerNoStream, WorkerNoManager,
         WorkerWrite, WorkerSigpipe, deferVars, kernelVars
  <2>4. ASSUME UNCHANGED vars \/ Resting PROVE UNCHANGED <<fdtab, epoll, deferred, watcher>>
    BY <2>4, Zenon DEF vars, Resting, deferVars, kernelVars
  <2> QED BY <1>1, <2>1, <2>2, <2>3, <2>4, NumbersQuiet
<1> QED BY <1>1, NumbersLoop, NumbersWatcher, NumbersOutside, Zenon DEF Next

(* What the watcher and the deferred lambdas know of a target is a number: *)
(* epoll watches only numbers that stand for a socket past connect(), and  *)
(* every event names a number that did when epoll_wait returned it, at     *)
(* whatever point the loop thread closes and opens sockets meanwhile.      *)
LEMMA NumbersInvariant == Spec => [](Numbers /\ StuckOnSocket)
<1>1. Init => Numbers /\ StuckOnSocket
  <2> SUFFICES ASSUME Init PROVE Numbers /\ StuckOnSocket
    OBVIOUS
  <2>1. /\ \A fd \in Fd : fdtab[fd] = 0
        /\ epoll = {} /\ watcher.at = "wait" /\ DOMAIN deferred = {}
    BY DEF Init
  <2>2. Named = {}
    BY <2>1 DEF Named, HasEvent
  <2> QED BY <2>1, <2>2 DEF Numbers, StuckOnSocket
<1>2. TypeOK /\ TypeOK' /\ Ownership /\ StuckOnSocket /\ Numbers /\ [Next]_vars => Numbers'
  BY NumbersStep
<1>3. TypeOK /\ StuckOnSocket /\ [Next]_vars => StuckOnSocket'
  BY StuckStep DEF vars, kernelVars, StuckOnSocket
<1> QED BY <1>1, <1>2, <1>3, TypeCorrect, OwnershipInvariant, PTL DEF Spec

----------------------------------------------------------------------------
(* Where data goes.                                                        *)

(* The chunks d were read from sockets with number fd. *)
Pure(d, fd, q) == \A i \in DOMAIN d : d[i].k \in DOMAIN q /\ q[d[i].k].fd = fd

(* The chunks d were read from sockets with a number of this stream's. *)
Numbered(d, c, s, q) ==
  \A i \in DOMAIN d :
    /\ d[i].k \in DOMAIN q
    /\ \E k \in DOMAIN q : q[k].c = c /\ q[k].s = s /\ q[k].fd = q[d[i].k].fd

(* The inductive invariant: an event holds data of its number, ...         *)
PureEvents ==
  /\ \A i \in DOMAIN deferred : Pure(deferred[i].data, deferred[i].fd, sock)
  /\ HasEvent => Pure(watcher.e.data, watcher.e.fd, sock)

(* ... and so does a stream.                                               *)
NumberedStreams ==
  \A c \in Conn, s \in StreamId :
    /\ Numbered(client[c].got[s], c, s, sock)
    /\ \A i \in DOMAIN ws[c].out : IsData(ws[c].out[i], s) => Numbered(ws[c].out[i].data, c, s, sock)

LEMMA NumberedStays ==
  ASSUME NEW q, NEW r, Onward(q, r)
  PROVE  /\ \A d, fd : Pure(d, fd, q) => Pure(d, fd, r)
         /\ \A d, c, s : Numbered(d, c, s, q) => Numbered(d, c, s, r)
BY DEF Onward, Pure, Numbered

LEMMA PureWatcher ==
  ASSUME TypeOK, TypeOK', StuckOnSocket, Numbers, PureEvents, Onward(sock, sock'), WatcherStep
  PROVE  PureEvents'
<1> USE DEF mgrVars, deferVars, kernelVars, poolVars, netVars
<1>1. ASSUME UNCHANGED deferred, HasEvent' => Pure(watcher'.e.data, watcher'.e.fd, sock')
      PROVE  PureEvents'
  BY <1>1, NumberedStays DEF PureEvents
<1>2. CASE WatchWait \/ WatchWake
  <2>1. UNCHANGED deferred
    BY <1>2, Zenon DEF WatchWait, WatchWake
  <2>2. (\E todo : watcher' = Rest(todo)) \/ \E todo : watcher' = [at |-> "batch", todo |-> todo]
    BY <1>2, Zenon DEF WatchWait, WatchWake
  <2>3. ~HasEvent'
    BY <2>2 DEF HasEvent, Rest
  <2> QED BY <1>1, <2>1, <2>3
<1>3. CASE WatchEvent
  <2>1. \E fd, todo : watcher' = [at |-> "reading", e |-> [fd |-> fd, data |-> <<>>, to_close |-> FALSE],
                               todo |-> todo]
    BY <1>3, Zenon DEF WatchEvent
  <2>2. UNCHANGED deferred /\ watcher'.e.data = <<>>
    BY <1>3, <2>1 DEF WatchEvent
  <2> QED BY <1>1, <2>2 DEF Pure
<1>4. CASE WatchErase \/ WatchCount
  <2>1. /\ UNCHANGED deferred /\ watcher.at \in {"ended", "done"}
        /\ (watcher' = [watcher EXCEPT !.at = "done"] \/ watcher' = [watcher EXCEPT !.at = "counted"])
    BY <1>4, Zenon DEF WatchErase, WatchCount
  <2>2. HasEvent /\ watcher'.e = watcher.e
    BY <2>1 DEF HasEvent, TypeOK, WatcherState
  <2>3. Pure(watcher.e.data, watcher.e.fd, sock')
    BY <2>2, NumberedStays DEF PureEvents
  <2> QED BY <1>1, <2>1, <2>2, <2>3
<1>5. CASE WatchDefer
  <2>1. watcher.at = "counted" /\ deferred' = Append(deferred, watcher.e) /\ watcher' = Rest(watcher.todo)
    BY <1>5, Zenon DEF WatchDefer
  <2>2. HasEvent /\ ~HasEvent'
    BY <2>1 DEF HasEvent, Rest
  <2>3. \A i \in DOMAIN deferred' : deferred'[i] = watcher.e \/ (i \in DOMAIN deferred /\ deferred'[i] = deferred[i])
    <3>1. deferred \in Seq(Lambda)
      BY DEF TypeOK
    <3> QED BY ONLY <2>1, <3>1, SMT
  <2> QED BY <2>2, <2>3, NumberedStays DEF PureEvents
<1>6. ASSUME watcher.at \in {"reading", "stuck"}, UNCHANGED deferred, NEW b \in BOOLEAN, EndLoop(watcher.e, b)
      PROVE  PureEvents'
  <2>1. watcher.e \in Lambda /\ HasEvent
    BY <1>6 DEF TypeOK, WatcherState, HasEvent
  <2>2. watcher'.e.data = watcher.e.data /\ watcher'.e.fd = watcher.e.fd
    BY <1>6, <2>1 DEF EndLoop, Lambda
  <2>3. Pure(watcher.e.data, watcher.e.fd, sock')
    BY <2>1, NumberedStays DEF PureEvents
  <2> QED BY <1>1, <1>6, <2>2, <2>3
<1>7. ASSUME watcher.at \in {"reading", "stuck"}, UNCHANGED deferred, NEW k \in DOMAIN sock, ReadChunk(k),
             sock[k].fd = watcher.e.fd
      PROVE  PureEvents'
  <2> DEFINE x == [k |-> k, n |-> Head(sock[k].inq)]
             d == Append(watcher.e.data, x)
  <2>1. watcher.e \in Lambda /\ HasEvent
    BY <1>7 DEF TypeOK, WatcherState, HasEvent
  <2>2. x \in Chunk
    <3>1. sock[k] \in Socket /\ sock[k].inq # <<>> /\ k \in Nat
      BY <1>7 DEF TypeOK, ReadChunk
    <3>2. Head(sock[k].inq) \in Nat
      BY <3>1 DEF Socket
    <3> QED BY <3>1, <3>2 DEF Chunk
  <2>3. \/ EndLoop([watcher.e EXCEPT !.data = d], FALSE)
        \/ watcher' = [at |-> "reading", e |-> [watcher.e EXCEPT !.data = d], todo |-> watcher.todo]
    BY <1>7, Zenon DEF ReadChunk
  <2>4. x.k = k
    OBVIOUS
  <2> HIDE DEF x
  <2>5. watcher.e.data \in Seq(Chunk)
    BY <2>1 DEF Lambda
  <2>6. d \in Seq(Chunk) /\ \A i \in DOMAIN d : d[i] = x \/ (i \in DOMAIN watcher.e.data /\ d[i] = watcher.e.data[i])
    BY <2>2, <2>5, OneMore
  <2> HIDE DEF d
  <2>7. watcher'.e.data = d /\ watcher'.e.fd = watcher.e.fd
    <3>1. PICK f : f = [watcher.e EXCEPT !.data = d]
      OBVIOUS
    <3>2. f \in Lambda /\ f.data = d /\ f.fd = watcher.e.fd
      BY <2>1, <2>6, <3>1 DEF Lambda
    <3>3. CASE EndLoop(f, FALSE)
      BY <3>2, <3>3 DEF EndLoop, Lambda
    <3>4. CASE watcher' = [at |-> "reading", e |-> f, todo |-> watcher.todo]
      BY <3>2, <3>4
    <3> QED BY <2>3, <3>1, <3>3, <3>4
  <2>8. Pure(d, watcher.e.fd, sock)
    BY <1>7, <2>1, <2>4, <2>6 DEF PureEvents, Pure
  <2> QED BY <1>1, <1>7, <2>7, <2>8, NumberedStays
<1>8. CASE WatchReadReturns
  <2>1. watcher.at = "stuck" /\ UNCHANGED deferred /\ (ReadChunk(watcher.k) \/ ReadEnd(watcher.k))
    BY <1>8, Zenon DEF WatchReadReturns
  <2>2. watcher.k \in DOMAIN sock /\ watcher.at \in {"reading", "stuck"} /\ sock[watcher.k].fd = watcher.e.fd
    BY <2>1 DEF StuckOnSocket, Numbers
  <2> QED BY <1>6, <1>7, <2>1, <2>2, Zenon DEF ReadEnd
<1>9. CASE WatchRead
  <2> DEFINE k == fdtab[watcher.e.fd]
  <2>1. watcher.at = "reading" /\ UNCHANGED deferred /\ watcher.at \in {"reading", "stuck"}
    BY <1>9, Zenon DEF WatchRead
  <2>2. watcher.e \in Lambda /\ HasEvent
    BY <2>1 DEF TypeOK, WatcherState, HasEvent
  <2>3. watcher.e.fd \in Fd /\ (k # 0 => k \in DOMAIN sock)
    BY <2>2 DEF TypeOK, Lambda
  <2>4. \/ k # 0 /\ (ReadChunk(k) \/ ReadEnd(k))
        \/ \E b \in BOOLEAN : EndLoop(watcher.e, b)
        \/ watcher' = [at |-> "stuck", k |-> k, e |-> watcher.e, todo |-> watcher.todo]
    BY <1>9, Zenon DEF WatchRead
  <2>5. k # 0 => sock[k].fd = watcher.e.fd
    BY <2>3 DEF Numbers
  <2> HIDE DEF k
  <2>6. CASE watcher' = [at |-> "stuck", k |-> k, e |-> watcher.e, todo |-> watcher.todo]
    <3>1. watcher'.e = watcher.e
      BY <2>6
    <3>2. Pure(watcher.e.data, watcher.e.fd, sock')
      BY <2>2, NumberedStays DEF PureEvents
    <3> QED BY <1>1, <2>1, <3>1, <3>2
  <2> QED BY <1>6, <1>7, <2>1, <2>3, <2>4, <2>5, <2>6, Zenon DEF ReadEnd
<1> QED BY <1>2, <1>3, <1>4, <1>5, <1>8, <1>9 DEF WatcherStep

(* Steps that send no data. *)
LEMMA NumberedQuiet ==
  ASSUME TypeOK, Onward(sock, sock'), NumberedStreams, \A c \in Conn, s \in StreamId : StreamKept(c, s)
  PROVE  NumberedStreams'
<1> SUFFICES ASSUME NEW c \in Conn, NEW s \in StreamId
             PROVE  /\ Numbered(client'[c].got[s], c, s, sock')
                    /\ \A i \in DOMAIN ws'[c].out :
                         IsData(ws'[c].out[i], s) => Numbered(ws'[c].out[i].data, c, s, sock')
  BY DEF NumberedStreams
<1>1. Numbered(client'[c].got[s], c, s, sock')
  <2>1. Numbered(client[c].got[s], c, s, sock')
    BY NumberedStays DEF NumberedStreams
  <2>2. Numbered(<<>>, c, s, sock')
    BY DEF Numbered
  <2> QED BY <2>1, <2>2 DEF StreamKept
<1>2. ASSUME NEW i \in DOMAIN ws'[c].out, IsData(ws'[c].out[i], s)
      PROVE  Numbered(ws'[c].out[i].data, c, s, sock')
  <2>1. i \in DOMAIN ws[c].out /\ ws'[c].out[i] = ws[c].out[i]
    BY <1>2 DEF StreamKept, NoMoreData
  <2> QED BY <1>2, <2>1, NumberedStays DEF NumberedStreams
<1> QED BY <1>1, <1>2

LEMMA PureQuiet ==
  ASSUME Onward(sock, sock'), PureEvents, UNCHANGED <<deferred, watcher>>
  PROVE  PureEvents'
BY NumberedStays DEF PureEvents, HasEvent

LEMMA DeferredForms ==
  ASSUME TypeOK, RunDeferred
  PROVE  /\ deferred # <<>> /\ deferred' = Tail(deferred) /\ loop.at = "idle"
         /\ UNCHANGED <<manager, streams, watcher, epoll, fdtab, sock, client>>
         /\ \/ Owners(Head(deferred).fd) = {} /\ UNCHANGED ws /\ loop' = [at |-> "finish"]
            \/ \E c \in Conn, s \in StreamId :
                 /\ <<c, s>> \in Owners(Head(deferred).fd)
                 /\ SendTo(c, <<Data(s, Head(deferred).data)>>)
                 /\ \/ ~Head(deferred).to_close /\ loop' = [at |-> "finish"]
                    \/ Head(deferred).to_close /\ loop' = [at |-> "close", c |-> c, s |-> s]
<1>1. /\ deferred # <<>> /\ deferred' = Tail(deferred) /\ loop.at = "idle"
      /\ UNCHANGED <<manager, streams, watcher, epoll, fdtab, sock, client>>
  BY Zenon DEF RunDeferred, kernelVars
<1>2. \/ Owners(Head(deferred).fd) = {} /\ UNCHANGED ws /\ loop' = [at |-> "finish"]
      \/ \E o \in Owners(Head(deferred).fd) :
           /\ SendTo(o[1], <<Data(o[2], Head(deferred).data)>>)
           /\ \/ ~Head(deferred).to_close /\ loop' = [at |-> "finish"]
              \/ Head(deferred).to_close /\ loop' = [at |-> "close", c |-> o[1], s |-> o[2]]
  BY Zenon DEF RunDeferred, Uncount
<1>3. \A o \in Owners(Head(deferred).fd) : o[1] \in Conn /\ o[2] \in StreamId /\ o = <<o[1], o[2]>>
  BY DEF Owners, watched_sockets
<1> QED BY ONLY <1>1, <1>2, <1>3, Zenon

(* The owner of a number has a socket with it. *)
LEMMA OwnerOpen ==
  ASSUME TypeOK, Ownership, Numbers, NEW fd, NEW c \in Conn, NEW s \in StreamId,
         <<c, s>> \in Owners(fd)
  PROVE  /\ Live(c, s) /\ FdOf(c, s) = fd /\ fd \in Fd /\ fdtab[fd] \in DOMAIN sock
         /\ sock[fdtab[fd]].c = c /\ sock[fdtab[fd]].s = s /\ sock[fdtab[fd]].fd = fd
<1>1. Live(c, s) /\ FdOf(c, s) = fd
  BY DEF Owners, FdOf
<1>2. fd \in Fd
  <2>1. streams[c][s] \in Stream
    BY <1>1 DEF TypeOK, Live
  <2> QED BY <1>1, <2>1 DEF Stream, FdOf
<1>3. OpenFor(fd, c, s)
  BY <1>1 DEF Ownership, EntriesOpen
<1>4. fdtab[fd] # 0
  BY <1>3 DEF OpenFor, TypeOK
<1> QED BY <1>1, <1>2, <1>3, <1>4 DEF OpenFor, Numbers

LEMMA FirstLambda ==
  ASSUME NEW q \in Seq(Lambda), q # <<>>
  PROVE  /\ Head(q) \in Lambda /\ 1 \in DOMAIN q /\ Head(q) = q[1]
         /\ \A i \in DOMAIN Tail(q) : i + 1 \in DOMAIN q /\ Tail(q)[i] = q[i + 1]
  OBVIOUS

LEMMA NumberedDeferred ==
  ASSUME TypeOK, TypeOK', Ownership, Numbers, PureEvents, NumberedStreams, RunDeferred
  PROVE  PureEvents' /\ NumberedStreams'
<1> DEFINE e == Head(deferred)
<1>1. /\ deferred # <<>> /\ deferred' = Tail(deferred) /\ UNCHANGED <<watcher, sock, client>>
      /\ \/ UNCHANGED ws
         \/ \E c \in Conn, s \in StreamId : <<c, s>> \in Owners(e.fd) /\ SendTo(c, <<Data(s, e.data)>>)
  BY DeferredForms, Zenon
<1>2. deferred \in Seq(Lambda)
  BY DEF TypeOK
<1>3. /\ e \in Lambda /\ 1 \in DOMAIN deferred /\ e = deferred[1]
      /\ \A i \in DOMAIN deferred' : i + 1 \in DOMAIN deferred /\ deferred'[i] = deferred[i + 1]
  BY <1>1, <1>2, FirstLambda
<1>4. PureEvents'
  BY <1>1, <1>3 DEF PureEvents, HasEvent
<1>5. Pure(e.data, e.fd, sock) /\ e.data \in Seq(Chunk)
  BY <1>3 DEF PureEvents, Lambda
<1> HIDE DEF e
<1>6. CASE UNCHANGED ws
  BY <1>1, <1>4, <1>6 DEF NumberedStreams
<1>7. ASSUME NEW c \in Conn, NEW s \in StreamId, <<c, s>> \in Owners(e.fd), SendTo(c, <<Data(s, e.data)>>)
      PROVE  NumberedStreams'
  <2>1. PICK p \in Packet : p = Data(s, e.data)
    BY <1>5, PlainTypes
  <2>2. p.type = "DATA" /\ p.stream = s /\ p.data = e.data
    BY <2>1 DEF Data
  <2>3. \A d \in Conn : ws'[d].out = ws[d].out \/ (d = c /\ ws'[d].out = ws[d].out \o <<p>>)
    BY <1>7, <2>1, SendOne
  <2>4. Numbered(e.data, c, s, sock)
    <3>1. LET k == fdtab[e.fd] IN k \in DOMAIN sock /\ sock[k].c = c /\ sock[k].s = s /\ sock[k].fd = e.fd
      BY <1>7, OwnerOpen
    <3> QED BY <1>5, <3>1 DEF Pure, Numbered
  <2>5. ASSUME NEW d \in Conn, NEW t \in StreamId, NEW i \in DOMAIN ws'[d].out, IsData(ws'[d].out[i], t)
        PROVE  Numbered(ws'[d].out[i].data, d, t, sock)
    <3>1. ws[d].out \in Seq(Packet)
      BY StreamTypes
    <3>2. \/ i \in DOMAIN ws[d].out /\ ws'[d].out[i] = ws[d].out[i]
          \/ d = c /\ ws'[d].out[i] = p
      <4>1. CASE ws'[d].out = ws[d].out
        BY <2>5, <4>1
      <4>2. CASE d = c /\ ws'[d].out = ws[d].out \o <<p>>
        BY <2>5, <3>1, <4>2
      <4> QED BY <2>3, <4>1, <4>2
    <3> QED BY <2>2, <2>4, <2>5, <3>2 DEF NumberedStreams, IsData
  <2> QED BY <1>1, <2>5 DEF NumberedStreams
<1> QED BY <1>1, <1>4, <1>6, <1>7, Zenon

LEMMA NumberedReceive ==
  ASSUME TypeOK, NumberedStreams, NEW c \in Conn, ClientReceive(c)
  PROVE  NumberedStreams'
<1> DEFINE q == ws[c].out
<1>1. /\ UNCHANGED sock /\ q # <<>> /\ ws'[c].out = Tail(q)
      /\ \A d \in Conn : d # c => ws'[d] = ws[d] /\ client'[d] = client[d]
      /\ \A s \in StreamId : client'[c].got[s] =
           IF IsData(Head(q), s) THEN client[c].got[s] \o Head(q).data ELSE client[c].got[s]
  BY ReceiveForms, Zenon
<1>2. q \in Seq(Packet)
  BY StreamTypes
<1>3. \A s \in StreamId, i \in DOMAIN q : IsData(q[i], s) => Numbered(q[i].data, c, s, sock)
  BY DEF NumberedStreams
<1> HIDE DEF q
<1>4. 1 \in DOMAIN q /\ Head(q) = q[1] /\ \A i \in DOMAIN Tail(q) : i + 1 \in DOMAIN q /\ Tail(q)[i] = q[i + 1]
  BY <1>1, <1>2
<1>5. ASSUME NEW s \in StreamId
      PROVE  /\ Numbered(client'[c].got[s], c, s, sock)
             /\ \A i \in DOMAIN ws'[c].out : IsData(ws'[c].out[i], s) => Numbered(ws'[c].out[i].data, c, s, sock)
  <2>1. \A i \in DOMAIN ws'[c].out : IsData(ws'[c].out[i], s) => Numbered(ws'[c].out[i].data, c, s, sock)
    BY <1>1, <1>3, <1>4
  <2>2. Numbered(client[c].got[s], c, s, sock) /\ client[c].got[s] \in Seq(Chunk)
    BY StreamTypes DEF NumberedStreams
  <2>3. CASE IsData(Head(q), s)
    <3>1. Numbered(Head(q).data, c, s, sock) /\ Head(q).data \in Seq(Chunk)
      BY <1>2, <1>3, <1>4, <2>3, DataType
    <3>2. PICK g, d : g = client[c].got[s] /\ d = Head(q).data
      OBVIOUS
    <3>a. g \in Seq(Chunk) /\ d \in Seq(Chunk)
      BY <2>2, <3>1, <3>2
    <3>3. \A i \in DOMAIN (g \o d) :
              \/ i \in DOMAIN g /\ (g \o d)[i] = g[i]
              \/ i \notin DOMAIN g /\ i - Len(g) \in DOMAIN d /\ (g \o d)[i] = d[i - Len(g)]
      BY ONLY <3>a, JoinedChunks
    <3>4. Numbered(g, c, s, sock) /\ Numbered(d, c, s, sock) => Numbered(g \o d, c, s, sock)
      BY ONLY <3>3 DEF Numbered
    <3> QED BY <1>1, <2>1, <2>2, <2>3, <3>1, <3>2, <3>4
  <2>4. CASE ~IsData(Head(q), s)
    BY <1>1, <2>1, <2>2, <2>4
  <2> QED BY <2>3, <2>4
<1> QED BY <1>1, <1>5 DEF NumberedStreams

LEMMA NumberedStep ==
  ASSUME TypeOK, TypeOK', Ownership, StuckOnSocket, Numbers, PureEvents, NumberedStreams, [Next]_vars
  PROVE  PureEvents' /\ NumberedStreams'
<1> USE DEF mgrVars, deferVars, kernelVars, poolVars, netVars
<1>0. Onward(sock, sock')
  BY SocketsOnward DEF Next
<1>1. CASE LoopStep
  <2>1. ASSUME ~RunDeferred PROVE UNCHANGED <<deferred, watcher>>
    BY <1>1, <2>1, Zenon DEF LoopStep, ConnectFails, ConnectSucceeds, ConnectInsert, Wake,
         Finish, UpdateNext, ForceClose, Destruct, DeferredClose
  <2>2. CASE DeferredClose
    <3> PICK c, s : c = loop.c /\ s = loop.s
      OBVIOUS
    <3>1. loop.at = "close" /\ SendTo(c, <<Close("0x02", s)>>) /\ UNCHANGED <<deferred, watcher>>
      BY <2>2, Zenon DEF DeferredClose, close_stream
    <3>2. c \in Conn /\ s \in StreamId
      BY <3>1 DEF TypeOK, LoopState
    <3>3. <<Close("0x02", s)>> \in Seq(Packet) /\ Close("0x02", s).type # "DATA"
      BY <3>2, PacketTypes, PacketFields
    <3>4. GotKept
      BY <1>1, LoopSends
    <3> QED BY <1>0, <3>1, <3>2, <3>3, <3>4, SendKeeps, NumberedQuiet, PureQuiet
  <2>3. CASE OnlyPlain /\ ~RunDeferred
    BY <1>0, <1>1, <2>1, <2>3, LoopSends, PlainKeeps, NumberedQuiet, PureQuiet
  <2> QED BY <1>1, <2>2, <2>3, LoopSends, NumberedDeferred
<1>2. CASE WatcherStep
  <2>1. UNCHANGED <<ws, client>>
    BY <1>2, ThreadsSendNothing
  <2> QED BY <1>0, <1>2, <2>1, NothingSent, NumberedQuiet, PureWatcher DEF GotKept
<1>3. CASE (\E w \in Worker : WorkerStep(w)) \/ UNCHANGED vars \/ Resting
  <2>1. UNCHANGED <<ws, client>>
    BY <1>3, ThreadsSendNothing
  <2>2. UNCHANGED <<deferred, watcher>>
    BY <1>3, Zenon DEF WorkerStep, WorkerPop, WorkerLock, WorkerNoStream, WorkerNoManager,
         WorkerWrite, WorkerSigpipe, vars, Resting
  <2> QED BY <1>0, <2>1, <2>2, NothingSent, NumberedQuiet, PureQuiet DEF GotKept
<1>4. CASE Outside
  <2>1. UNCHANGED <<deferred, watcher>>
    <3>1. \A c \in Conn : Open(c) \/ Drain(c) \/ WsClosed(c) \/ ClientReceive(c) => UNCHANGED <<deferred, watcher>>
      BY Zenon DEF Open, Drain, WsClosed, ClientReceive
    <3>2. \A c \in Conn, s \in StreamId : RecvData(c, s) \/ RecvClose(c, s) => UNCHANGED <<deferred, watcher>>
      BY Zenon DEF RecvData, RecvClose
    <3>3. \A c \in Conn, s \in StreamId, type \in Asked : RecvConnect(c, s, type) => UNCHANGED <<deferred, watcher>>
      BY Zenon DEF RecvConnect
    <3>4. \A k \in DOMAIN sock : TargetSend(k) \/ TargetClose(k) => UNCHANGED <<deferred, watcher>>
      BY Zenon DEF TargetSend, TargetClose
    <3> QED BY <1>4, <3>1, <3>2, <3>3, <3>4, Zenon DEF Outside
  <2>2. CASE GotKept /\ OnlyPlain
    BY <1>0, <2>1, <2>2, PlainKeeps, NumberedQuiet, PureQuiet
  <2>3. ASSUME NEW c \in Conn, WsClosed(c) PROVE PureEvents' /\ NumberedStreams'
    BY <1>0, <2>1, <2>3, ClosedKeeps, NumberedQuiet, PureQuiet
  <2>4. ASSUME NEW c \in Conn, ClientReceive(c) PROVE PureEvents' /\ NumberedStreams'
    BY <1>0, <2>1, <2>4, NumberedReceive, PureQuiet
  <2> QED BY <1>4, <2>2, <2>3, <2>4, OutsideSends
<1> QED BY <1>1, <1>2, <1>3, <1>4, Zenon DEF Next

(* Whatever the clients do, a client gets data of a target that is not its *)
(* own only if that target's socket had the number of one of the stream's  *)
(* own sockets: the lambda captures a descriptor number, and looks for it  *)
(* again on the loop thread (SystemWatcher::watch, websocketManager.cpp).  *)
THEOREM StraysByReuse == Spec => []AstrayByReuse
<1>1. Init => PureEvents /\ NumberedStreams
  <2> SUFFICES ASSUME Init PROVE PureEvents /\ NumberedStreams
    OBVIOUS
  <2>1. /\ DOMAIN deferred = {} /\ watcher.at = "wait" /\ ~HasEvent
        /\ \A c \in Conn : ws[c].out = <<>>
    BY DEF Init, HasEvent
  <2>2. \A c \in Conn, s \in StreamId : client[c].got[s] = <<>>
    BY DEF Init, InitClient
  <2> QED BY <2>1, <2>2 DEF PureEvents, NumberedStreams, Numbered
<1>2. TypeOK /\ TypeOK' /\ Ownership /\ StuckOnSocket /\ Numbers /\ PureEvents /\ NumberedStreams /\ [Next]_vars
        => PureEvents' /\ NumberedStreams'
  BY NumberedStep
<1>3. NumberedStreams => AstrayByReuse
  BY DEF NumberedStreams, Numbered, AstrayByReuse, ByNumber
<1> QED BY <1>1, <1>2, <1>3, TypeCorrect, OwnershipInvariant, NumbersInvariant, PTL DEF Spec

----------------------------------------------------------------------------
(* The end of a target.                                                    *)

(* With clients that use an id once: a stream has one socket, and an id    *)
(* that is still to be used has none.                                      *)
OneSocket ==
  /\ \A j, k \in DOMAIN sock : sock[j].c = sock[k].c /\ sock[j].s = sock[k].s => j = k
  /\ \A c \in Conn, s \in StreamId :
       manager[c] \in {"none", "open"} /\ client[c].state[s] = "unused" =>
         \A k \in DOMAIN sock : ~(sock[k].c = c /\ sock[k].s = s)

(* What a client may still do it could do before. *)
IdsKept ==
  \A c \in Conn, s \in StreamId :
    manager'[c] \in {"none", "open"} /\ client'[c].state[s] = "unused" =>
      manager[c] \in {"none", "open"} /\ client[c].state[s] = "unused"

LEMMA IdsStep ==
  ASSUME TypeOK, [Next]_vars
  PROVE  IdsKept
<1> USE DEF mgrVars, deferVars, kernelVars, poolVars, netVars
<1>0. UNCHANGED <<manager, client>> => IdsKept
  BY DEF IdsKept
<1>a. ASSUME NEW c \in Conn, NEW v, manager' = [manager EXCEPT ![c] = v], UNCHANGED client,
             v \notin {"none", "open"} \/ manager[c] = "none"
      PROVE  IdsKept
  BY <1>a DEF IdsKept, TypeOK
<1>b. ASSUME NEW c \in Conn, UNCHANGED manager, \A d \in Conn : d # c => client'[d] = client[d],
             \A s \in StreamId : client'[c].state[s] = "unused" => client[c].state[s] = "unused"
      PROVE  IdsKept
  BY <1>b DEF IdsKept
<1>c. \A c \in Conn : client[c] \in ClientState
  BY DEF TypeOK
<1>1. CASE LoopStep
  <2>1. UNCHANGED client /\ (UNCHANGED manager \/ Destruct)
    BY <1>1, Zenon DEF LoopStep, ConnectFails, ConnectSucceeds, ConnectInsert, Wake,
         RunDeferred, DeferredClose, Finish, UpdateNext, ForceClose, Destruct
  <2>2. CASE Destruct
    <3>1. loop.at = "force" /\ manager' = [manager EXCEPT ![loop.c] = "deleted"]
      BY <2>2, Zenon DEF Destruct
    <3>2. loop.c \in Conn
      BY <3>1 DEF TypeOK, LoopState
    <3> QED BY <1>a, <2>1, <3>1, <3>2
  <2> QED BY <1>0, <2>1, <2>2
<1>2. CASE WatcherStep \/ (\E w \in Worker : WorkerStep(w)) \/ UNCHANGED vars \/ Resting
  BY <1>0, <1>2, ThreadsSendNothing
<1>3. ASSUME NEW c \in Conn, Open(c) PROVE IdsKept
  <2>1. manager[c] = "none" /\ manager' = [manager EXCEPT ![c] = "open"] /\ UNCHANGED client
    BY <1>3, Zenon DEF Open, Construct
  <2> QED BY <1>a, <2>1
<1>4. ASSUME NEW c \in Conn, Drain(c) PROVE IdsKept
  <2>1. UNCHANGED <<manager, client>>
    BY <1>4, Zenon DEF Drain
  <2> QED BY <1>0, <2>1
<1>5. ASSUME NEW c \in Conn, WsClosed(c) PROVE IdsKept
  <2>1. manager' = [manager EXCEPT ![c] = "closing"] /\ client' = [client EXCEPT ![c] = InitClient]
    BY <1>5, Zenon DEF WsClosed
  <2> QED BY <2>1 DEF IdsKept, TypeOK
<1>6. ASSUME NEW c \in Conn, ClientReceive(c) PROVE IdsKept
  <2>1. /\ UNCHANGED manager /\ \A d \in Conn : d # c => client'[d] = client[d]
        /\ \A s \in StreamId : client'[c].state[s] = "unused" => client[c].state[s] = "unused"
    BY <1>6, ReceiveForms, Zenon
  <2> QED BY <1>b, <2>1
<1>7. ASSUME NEW c \in Conn, NEW s \in StreamId, RecvData(c, s) PROVE IdsKept
  <2> DEFINE v == [client[c] EXCEPT !.sent[s] = @ + 1,
                     !.credit[s] = IF client[c].state[s] = "tcp" /\ @ > 0 THEN @ - 1 ELSE @]
  <2>1. /\ UNCHANGED manager
        /\ client' = [client EXCEPT ![c].sent[s] = @ + 1,
                        ![c].credit[s] = IF client[c].state[s] = "tcp" /\ @ > 0 THEN @ - 1 ELSE @]
    BY <1>7, Zenon DEF RecvData
  <2>2. client' = [client EXCEPT ![c] = v]
    BY <1>c, <2>1
  <2>3. v.state = client[c].state
    BY <1>c DEF ClientState
  <2>a. UNCHANGED manager
    BY <2>1, Zenon
  <2> HIDE DEF v
  <2>b. client'[c] = v /\ \A d \in Conn : d # c => client'[d] = client[d]
    BY <2>2 DEF TypeOK
  <2>c. \A t \in StreamId : client'[c].state[t] = "unused" => client[c].state[t] = "unused"
    BY ONLY <2>b, <2>3
  <2> QED BY <1>b, <2>a, <2>b, <2>c
<1>8. ASSUME NEW c \in Conn, NEW s \in StreamId, RecvClose(c, s) PROVE IdsKept
  <2> DEFINE v == [client[c] EXCEPT !.state[s] = "closed"]
  <2>1. UNCHANGED manager /\ client' = [client EXCEPT ![c].state[s] = "closed"]
    BY <1>8, Zenon DEF RecvClose
  <2>2. client' = [client EXCEPT ![c] = v]
    BY <2>1
  <2>3. \A t \in StreamId : v.state[t] = "unused" => client[c].state[t] = "unused"
    BY <1>c DEF ClientState
  <2>a. UNCHANGED manager
    BY <2>1, Zenon
  <2> HIDE DEF v
  <2>b. client'[c] = v /\ \A d \in Conn : d # c => client'[d] = client[d]
    BY <2>2 DEF TypeOK
  <2>c. \A t \in StreamId : client'[c].state[t] = "unused" => client[c].state[t] = "unused"
    BY ONLY <2>b, <2>3
  <2> QED BY <1>b, <2>a, <2>b, <2>c
<1>9. ASSUME NEW c \in Conn, NEW s \in StreamId, NEW type \in Asked, RecvConnect(c, s, type) PROVE IdsKept
  <2> DEFINE v == [client[c] EXCEPT !.state[s] = type, !.credit[s] = client[c].credit[0]]
  <2>1. /\ UNCHANGED manager
        /\ client' = [client EXCEPT ![c].state[s] = type, ![c].credit[s] = client[c].credit[0]]
    BY <1>9, Zenon DEF RecvConnect
  <2>2. client' = [client EXCEPT ![c] = v]
    BY <1>c, <2>1
  <2>3. type # "unused"
    BY StateAssumption
  <2>4. \A t \in StreamId : v.state[t] = "unused" => client[c].state[t] = "unused"
    BY <1>c, <2>3 DEF ClientState
  <2>a. UNCHANGED manager
    BY <2>1, Zenon
  <2> HIDE DEF v
  <2>b. client'[c] = v /\ \A d \in Conn : d # c => client'[d] = client[d]
    BY <2>2 DEF TypeOK
  <2>c. \A t \in StreamId : client'[c].state[t] = "unused" => client[c].state[t] = "unused"
    BY ONLY <2>b, <2>4
  <2> QED BY <1>b, <2>a, <2>b, <2>c
<1>10. ASSUME NEW k \in DOMAIN sock, TargetSend(k) \/ TargetClose(k) PROVE IdsKept
  <2>1. UNCHANGED <<manager, client>>
    BY <1>10, Zenon DEF TargetSend, TargetClose
  <2> QED BY <1>0, <2>1
<1>11. CASE Outside
  BY <1>11, <1>3, <1>4, <1>5, <1>6, <1>7, <1>8, <1>9, <1>10, Zenon DEF Outside
<1> QED BY <1>1, <1>2, <1>11, Zenon DEF Next

LEMMA OneSocketStep ==
  ASSUME Conforming, TypeOK, TypeOK', OneSocket, [Next]_vars
  PROVE  OneSocket'
<1>0. IdsKept
  BY IdsStep
<1>a. /\ Onward(sock, sock')
      /\ \/ DOMAIN sock' = DOMAIN sock
         \/ \E c \in Conn, s \in StreamId, type \in Asked : RecvConnect(c, s, type)
  BY SocketsOnward DEF Next
<1>1. ASSUME DOMAIN sock' = DOMAIN sock PROVE OneSocket'
  <2>1. \A k \in DOMAIN sock' : k \in DOMAIN sock /\ sock'[k].c = sock[k].c /\ sock'[k].s = sock[k].s
    BY <1>1, <1>a DEF Onward
  <2> QED BY <1>0, <2>1 DEF OneSocket, IdsKept
<1>2. ASSUME NEW c \in Conn, NEW s \in StreamId, NEW type \in Asked, RecvConnect(c, s, type),
             NEW fd \in Fd, NEW k, Opens(c, s, fd, k)
      PROVE  OneSocket'
  <2>1. client[c].state[s] = "unused" /\ manager[c] = "open"
    BY <1>2, Zenon DEF RecvConnect
  <2>2. \A j \in DOMAIN sock : ~(sock[j].c = c /\ sock[j].s = s)
    BY <2>1 DEF OneSocket
  <2>3. \A j \in DOMAIN sock' : j = k \/ (j \in DOMAIN sock /\ sock'[j] = sock[j])
    BY <1>2 DEF Opens
  <2>4. sock'[k].c = c /\ sock'[k].s = s
    BY <1>2 DEF Opens
  <2>5. client'[c].state[s] # "unused"
    <3> DEFINE v == [client[c] EXCEPT !.state[s] = type, !.credit[s] = client[c].credit[0]]
    <3>1. client \in [Conn -> ClientState] /\ client[c] \in ClientState
      BY DEF TypeOK
    <3>2. client' = [client EXCEPT ![c].state[s] = type, ![c].credit[s] = client[c].credit[0]]
      BY <1>2, Zenon DEF RecvConnect
    <3>3. client' = [client EXCEPT ![c] = v]
      BY <3>1, <3>2
    <3>4. v.state[s] = type
      BY <3>1 DEF ClientState
    <3> HIDE DEF v
    <3>5. client'[c].state[s] = type
      BY <3>1, <3>3, <3>4
    <3> QED BY <3>5, StateAssumption
  <2>6. \A i, j \in DOMAIN sock' : sock'[i].c = sock'[j].c /\ sock'[i].s = sock'[j].s => i = j
    BY <2>2, <2>3, <2>4 DEF OneSocket
  <2>7. ASSUME NEW d \in Conn, NEW t \in StreamId, manager'[d] \in {"none", "open"},
               client'[d].state[t] = "unused", NEW j \in DOMAIN sock', sock'[j].c = d, sock'[j].s = t
        PROVE  FALSE
    <3>1. j # k
      BY <2>4, <2>5, <2>7
    <3>2. j \in DOMAIN sock /\ sock[j].c = d /\ sock[j].s = t
      BY <2>3, <2>7, <3>1
    <3> QED BY <1>0, <2>7, <3>2 DEF OneSocket, IdsKept
  <2> QED BY <2>6, <2>7 DEF OneSocket
<1>3. ASSUME NEW c \in Conn, NEW s \in StreamId, NEW type \in Asked, RecvConnect(c, s, type)
      PROVE  OneSocket'
  BY <1>1, <1>2, <1>3, ConnectForms
<1> QED BY <1>a, <1>1, <1>3

LEMMA OneSocketInvariant == Spec => [](Conforming => OneSocket)
<1>1. Init => OneSocket
  <2>1. Init => DOMAIN sock = {}
    BY DEF Init
  <2> QED BY <2>1 DEF OneSocket
<1>2. TypeOK /\ TypeOK' /\ (Conforming => OneSocket) /\ [Next]_vars => (Conforming => OneSocket)'
  BY OneSocketStep
<1> QED BY <1>1, <1>2, TypeCorrect, PTL DEF Spec

(* Events of the watcher that have not reached the loop thread, oldest     *)
(* first: the lambdas, then the one under way.                             *)
Events == IF HasEvent THEN Append(deferred, watcher.e) ELSE deferred

(* Socket k is as x; the client of its stream has received got, and out is *)
(* under way to it; ev are the events.  Every chunk its target sent has    *)
(* been sent on, or is in an event, or unread, ...                         *)
Reaches(k, x, got, out, ev) ==
  \A n \in 1 .. x.sent :
    \/ SentBefore(got, out, x.s, Len(out) + 1, [k |-> k, n |-> n])
    \/ \E i \in DOMAIN ev : ev[i].fd = x.fd /\ Carries(ev[i].data, [k |-> k, n |-> n])
    \/ Carries(x.inq, n)

(* ... an event that reports the end comes after all data, ...             *)
Ended(x) == x.eof /\ x.inq = <<>>

EndsLast(x, ev) ==
  \A i \in DOMAIN ev : ev[i].fd = x.fd /\ ev[i].to_close =>
    Ended(x) /\ \A j \in DOMAIN ev : i < j /\ ev[j].fd = x.fd => ev[j].data = <<>>

(* ... and when the stream is about to be closed, no data is left.         *)
Drained(x, ev) == Ended(x) /\ \A j \in DOMAIN ev : ev[j].fd = x.fd => ev[j].data = <<>>

ClosedLast(k, x, got, out) ==
  \A i \in DOMAIN out : out[i] = Close("0x02", x.s) =>
    x.eof /\ \A n \in 1 .. x.sent : SentBefore(got, out, x.s, i, [k |-> k, n |-> n])

EndOf(k, x, got, out, ev, use, closing) ==
  /\ use => Reaches(k, x, got, out, ev) /\ EndsLast(x, ev) /\ (closing => Drained(x, ev))
  /\ ClosedLast(k, x, got, out)

InUse(c, s) == manager[c] = "open" /\ (Live(c, s) \/ AtConnect(c, s))
Closing(c, s) == loop.at = "close" /\ loop.c = c /\ loop.s = s

(* The inductive invariant, for sockets whose number no other socket had. *)
EndFor(k, c, s) ==
  EndOf(k, sock[k], client[c].got[s], ws[c].out, Events, InUse(c, s), Closing(c, s))

EndLine ==
  \A c \in Conn, s \in StreamId : \A k \in DOMAIN sock :
    OwnNumber(k) /\ sock[k].c = c /\ sock[k].s = s => EndFor(k, c, s)

----------------------------------------------------------------------------
(* What becomes of it when a socket, a queue or the events change.         *)

(* What was sent before remains sent before. *)
StaysSent(got, out, now, new, s) ==
  \A y : SentBefore(got, out, s, Len(out) + 1, y) => SentBefore(now, new, s, Len(new) + 1, y)

StaysLast(got, out, now, new, s) ==
  \A i \in DOMAIN new : new[i] = Close("0x02", s) =>
    \E j \in DOMAIN out : /\ out[j] = Close("0x02", s)
                          /\ \A y : SentBefore(got, out, s, j, y) => SentBefore(now, new, s, i, y)

(* Events with the number of socket x keep their data; new ones are empty; *)
(* the end is reported by the last one only, and only when it is reached.  *)
EventsKept(ev, new, x) ==
  /\ \A i \in DOMAIN ev : ev[i].fd = x.fd =>
       i \in DOMAIN new /\ new[i].fd = x.fd /\ new[i].data = ev[i].data
  /\ \A j \in DOMAIN new : new[j].fd = x.fd =>
       \/ new[j].data = <<>> /\ ~new[j].to_close
       \/ /\ j \in DOMAIN ev /\ ev[j].fd = x.fd /\ new[j].data = ev[j].data
          /\ new[j].to_close => ev[j].to_close \/ (Ended(x) /\ \A m \in DOMAIN new : ~(j < m))

LEMMA EndStays ==
  ASSUME NEW k, NEW x, NEW y, NEW got, NEW now, NEW out, NEW new, NEW ev, NEW ev2,
         NEW use \in BOOLEAN, NEW use2 \in BOOLEAN, NEW closing \in BOOLEAN, NEW closing2 \in BOOLEAN,
         y.s = x.s, y.fd = x.fd, y.sent = x.sent, y.inq = x.inq, x.eof => y.eof,
         use2 => use /\ (closing2 => closing) /\ StaysSent(got, out, now, new, x.s) /\ EventsKept(ev, ev2, x),
         StaysLast(got, out, now, new, x.s),
         EndOf(k, x, got, out, ev, use, closing)
  PROVE  EndOf(k, y, now, new, ev2, use2, closing2)
<1>0. Ended(x) => Ended(y)
  BY DEF Ended
<1>1. ASSUME use2 PROVE Reaches(k, y, now, new, ev2)
  BY <1>1 DEF EndOf, Reaches, StaysSent, EventsKept
<1>2. ASSUME use2 PROVE EndsLast(y, ev2)
  <2> SUFFICES ASSUME NEW i \in DOMAIN ev2, ev2[i].fd = x.fd, ev2[i].to_close
               PROVE  Ended(x) /\ \A j \in DOMAIN ev2 : i < j /\ ev2[j].fd = x.fd => ev2[j].data = <<>>
    BY <1>0 DEF EndsLast
  <2> QED BY <1>2 DEF EndOf, EndsLast, EventsKept
<1>3. ASSUME use2, closing2 PROVE Drained(y, ev2)
  BY <1>0, <1>3 DEF EndOf, Drained, EventsKept
<1>4. ClosedLast(k, y, now, new)
  BY DEF EndOf, ClosedLast, StaysLast
<1> QED BY <1>1, <1>2, <1>3, <1>4 DEF EndOf

(* The watcher reads a chunk of socket x into the event at l. *)
ReadInto(k, x, y, ev, new, l) ==
  /\ x.inq # <<>> /\ y.inq = Tail(x.inq) /\ y.sent = x.sent /\ y.eof = x.eof
  /\ l \in DOMAIN ev /\ ev[l].fd = x.fd /\ new[l].fd = x.fd
  /\ new[l].data = Append(ev[l].data, [k |-> k, n |-> Head(x.inq)])
  /\ new[l].to_close => ev[l].to_close
  /\ DOMAIN new = DOMAIN ev /\ \A j \in DOMAIN ev : j # l => new[j] = ev[j]

LEMMA EndReads ==
  ASSUME NEW k \in Nat, NEW x \in Socket, NEW y, NEW got, NEW out, NEW ev, NEW new, NEW l,
         NEW use \in BOOLEAN, NEW closing \in BOOLEAN, y.s = x.s, y.fd = x.fd,
         ReadInto(k, x, y, ev, new, l), ev[l].data \in Seq(Chunk),
         EndOf(k, x, got, out, ev, use, closing)
  PROVE  EndOf(k, y, got, out, new, use, closing)
<1>0. ~Ended(x)
  BY DEF ReadInto, Ended
<1>a. x.inq \in Seq(Nat) /\ x.inq # <<>>
  BY DEF Socket, ReadInto
<1>1. ASSUME use, NEW n \in 1 .. x.sent
      PROVE  \/ SentBefore(got, out, x.s, Len(out) + 1, [k |-> k, n |-> n])
             \/ \E i \in DOMAIN new : new[i].fd = x.fd /\ Carries(new[i].data, [k |-> k, n |-> n])
             \/ Carries(y.inq, n)
  <2> PICK z : z = [k |-> k, n |-> n]
    OBVIOUS
  <2>1. \/ SentBefore(got, out, x.s, Len(out) + 1, z)
        \/ \E i \in DOMAIN ev : ev[i].fd = x.fd /\ Carries(ev[i].data, z)
        \/ Carries(x.inq, n)
    BY <1>1 DEF EndOf, Reaches
  <2>2. ASSUME NEW d \in Seq(Chunk), NEW w \in Chunk PROVE Carries(Append(d, w), w) /\ (Carries(d, z) => Carries(Append(d, w), z))
    <3>1. /\ DOMAIN Append(d, w) = DOMAIN d \cup {Len(d) + 1} /\ Append(d, w)[Len(d) + 1] = w
          /\ \A i \in DOMAIN d : Append(d, w)[i] = d[i]
      BY OneMore
    <3> QED BY <3>1 DEF Carries
  <2>3. Head(x.inq) \in Nat
    BY <1>a
  <2>4. PICK w \in Chunk : w = [k |-> k, n |-> Head(x.inq)]
    BY <2>3 DEF Chunk
  <2>5. new[l].data = Append(ev[l].data, w) /\ l \in DOMAIN new /\ new[l].fd = x.fd
    BY <2>4 DEF ReadInto
  <2>6. CASE Carries(x.inq, n)
    <3>1. PICK i \in DOMAIN x.inq : x.inq[i] = n
      BY <2>6 DEF Carries
    <3>a. \A q \in Seq(Nat) : \A h \in DOMAIN q : h = 1 \/ (h - 1 \in DOMAIN Tail(q) /\ Tail(q)[h - 1] = q[h])
      OBVIOUS
    <3>2. i = 1 \/ (i - 1 \in DOMAIN Tail(x.inq) /\ Tail(x.inq)[i - 1] = n)
      BY ONLY <1>a, <3>a, <3>1, Zenon
    <3>3. CASE i = 1
      <4>1. Head(x.inq) = n
        BY <1>a, <3>1, <3>3
      <4>2. w = z
        BY <2>4, <4>1
      <4>3. Carries(new[l].data, z)
        BY <2>2, <2>5, <4>2
      <4> QED BY <2>5, <4>3
    <3> QED BY <3>2, <3>3 DEF Carries, ReadInto
  <2>7. CASE \E i \in DOMAIN ev : ev[i].fd = x.fd /\ Carries(ev[i].data, z)
    <3>1. PICK i \in DOMAIN ev : ev[i].fd = x.fd /\ Carries(ev[i].data, z)
      BY <2>7
    <3>2. i \in DOMAIN new /\ new[i].fd = x.fd /\ Carries(new[i].data, z)
      BY <2>2, <2>5, <3>1 DEF ReadInto
    <3> QED BY <3>2
  <2> QED BY <2>1, <2>6, <2>7
<1>2. use => Reaches(k, y, got, out, new)
  BY <1>1 DEF Reaches, ReadInto
<1>3. ASSUME use PROVE EndsLast(y, new) /\ (closing => Drained(y, new))
  <2>1. ~closing
    BY <1>0, <1>3 DEF EndOf, Drained
  <2>2. \A i \in DOMAIN new : new[i].fd = x.fd => ~new[i].to_close
    BY <1>0, <1>3 DEF EndOf, EndsLast, ReadInto
  <2> QED BY <2>1, <2>2 DEF EndsLast
<1>4. ClosedLast(k, y, got, out)
  BY DEF EndOf, ClosedLast, ReadInto
<1> QED BY <1>2, <1>3, <1>4 DEF EndOf

(* The queue of a client grows, ... *)
LEMMA QueueJoined ==
  ASSUME NEW out \in Seq(Packet), NEW more \in Seq(Packet)
  PROVE  /\ Len(out \o more) = Len(out) + Len(more) /\ Len(out) \in Nat /\ Len(more) \in Nat
         /\ \A j \in DOMAIN out : /\ j \in DOMAIN (out \o more) /\ (out \o more)[j] = out[j]
                                  /\ j \in Nat /\ j <= Len(out)
         /\ \A i \in DOMAIN (out \o more) :
              \/ i \in DOMAIN out /\ (out \o more)[i] = out[i]
              \/ /\ i \notin DOMAIN out /\ i - Len(out) \in DOMAIN more
                 /\ (out \o more)[i] = more[i - Len(out)]
         /\ \A i \in DOMAIN more : i + Len(out) \in DOMAIN (out \o more) /\ (out \o more)[i + Len(out)] = more[i]
OBVIOUS

LEMMA QueueGrows ==
  ASSUME NEW out \in Seq(Packet), NEW more \in Seq(Packet), NEW got, NEW s
  PROVE  /\ StaysSent(got, out, got, out \o more, s)
         /\ (\A i \in DOMAIN more : more[i] # Close("0x02", s)) => StaysLast(got, out, got, out \o more, s)
<1> PICK new : new = out \o more
  OBVIOUS
<1>1. /\ Len(new) = Len(out) + Len(more) /\ Len(out) \in Nat /\ Len(more) \in Nat
      /\ \A j \in DOMAIN out : j \in DOMAIN new /\ new[j] = out[j] /\ j \in Nat /\ j <= Len(out)
      /\ \A i \in DOMAIN new :
           \/ i \in DOMAIN out /\ new[i] = out[i]
           \/ i - Len(out) \in DOMAIN more /\ new[i] = more[i - Len(out)]
  BY QueueJoined
<1>2. StaysSent(got, out, got, new, s)
  BY ONLY <1>1 DEF StaysSent, SentBefore
<1>3. ASSUME \A i \in DOMAIN more : more[i] # Close("0x02", s)
      PROVE  StaysLast(got, out, got, new, s)
  <2> SUFFICES ASSUME NEW i \in DOMAIN new, new[i] = Close("0x02", s)
               PROVE  /\ i \in DOMAIN out /\ out[i] = Close("0x02", s)
                      /\ \A y : SentBefore(got, out, s, i, y) => SentBefore(got, new, s, i, y)
    BY DEF StaysLast
  <2>1. i \in DOMAIN out /\ out[i] = Close("0x02", s)
    BY <1>1, <1>3
  <2>2. \A y : SentBefore(got, out, s, i, y) => SentBefore(got, new, s, i, y)
    BY ONLY <1>1 DEF SentBefore
  <2> QED BY <2>1, <2>2
<1> QED BY <1>2, <1>3

(* ... or its first packet is received. *)
LEMMA QueueTaken ==
  ASSUME NEW out \in Seq(Packet), out # <<>>, NEW got \in Seq(Chunk), NEW s \in StreamId, NEW now,
         now = IF IsData(Head(out), s) THEN got \o Head(out).data ELSE got
  PROVE  /\ StaysSent(got, out, now, Tail(out), s)
         /\ StaysLast(got, out, now, Tail(out), s)
<1>1. /\ Head(out) = out[1] /\ 1 \in DOMAIN out /\ Len(Tail(out)) = Len(out) - 1 /\ Len(out) \in Nat
      /\ \A i \in DOMAIN Tail(out) : i \in Nat /\ i + 1 \in DOMAIN out /\ Tail(out)[i] = out[i + 1]
      /\ \A j \in DOMAIN out : j \in Nat /\ (j = 1 \/ (j - 1 \in DOMAIN Tail(out) /\ Tail(out)[j - 1] = out[j]))
  OBVIOUS
<1>2. ASSUME NEW y, Carries(got, y) \/ (IsData(Head(out), s) /\ Carries(Head(out).data, y))
      PROVE  Carries(now, y)
  <2>1. CASE IsData(Head(out), s)
    <3> PICK d : d = Head(out).data
      OBVIOUS
    <3>1. d \in Seq(Chunk)
      BY <1>1, <2>1, DataType
    <3>2. now = got \o d
      BY <2>1, Zenon
    <3>3. /\ \A i \in DOMAIN got : i \in DOMAIN (got \o d) /\ (got \o d)[i] = got[i]
          /\ \A i \in DOMAIN d : i + Len(got) \in DOMAIN (got \o d) /\ (got \o d)[i + Len(got)] = d[i]
      BY <3>1
    <3>4. Carries(got, y) \/ Carries(d, y)
      BY <1>2
    <3> QED BY ONLY <3>2, <3>3, <3>4 DEF Carries
  <2>2. CASE ~IsData(Head(out), s)
    BY <1>2, <2>2, Zenon
  <2> QED BY <2>1, <2>2
<1>3. ASSUME NEW i \in Int, NEW h, h = i - 1, NEW y, SentBefore(got, out, s, i, y)
      PROVE  SentBefore(now, Tail(out), s, h, y)
  <2>1. CASE Carries(got, y)
    BY <1>2, <2>1 DEF SentBefore
  <2>2. CASE ~Carries(got, y)
    <3>1. PICK j \in DOMAIN out : j < i /\ IsData(out[j], s) /\ Carries(out[j].data, y)
      BY <1>3, <2>2 DEF SentBefore
    <3>2. CASE j = 1
      BY <1>1, <1>2, <3>1, <3>2 DEF SentBefore
    <3>3. CASE j # 1
      <4>1. j - 1 \in DOMAIN Tail(out) /\ Tail(out)[j - 1] = out[j] /\ j - 1 < h
        BY <1>1, <1>3, <3>1, <3>3
      <4> QED BY ONLY <3>1, <4>1 DEF SentBefore
    <3> QED BY <3>2, <3>3
  <2> QED BY <2>1, <2>2
<1>4. StaysSent(got, out, now, Tail(out), s)
  <2> SUFFICES ASSUME NEW y, SentBefore(got, out, s, Len(out) + 1, y)
               PROVE  SentBefore(now, Tail(out), s, Len(Tail(out)) + 1, y)
    BY DEF StaysSent
  <2>1. PICK i \in Int : i = Len(out) + 1
    BY <1>1
  <2>2. PICK h : h = Len(Tail(out)) + 1
    OBVIOUS
  <2>3. h = i - 1
    BY <1>1, <2>1, <2>2
  <2>4. SentBefore(got, out, s, i, y)
    BY <2>1, Zenon
  <2>5. SentBefore(now, Tail(out), s, h, y)
    BY ONLY <1>3, <2>3, <2>4
  <2> QED BY ONLY <2>2, <2>5
<1>5. StaysLast(got, out, now, Tail(out), s)
  <2> SUFFICES ASSUME NEW i \in DOMAIN Tail(out), Tail(out)[i] = Close("0x02", s)
               PROVE  \E j \in DOMAIN out :
                        /\ out[j] = Close("0x02", s)
                        /\ \A y : SentBefore(got, out, s, j, y) => SentBefore(now, Tail(out), s, i, y)
    BY DEF StaysLast
  <2>1. i + 1 \in DOMAIN out /\ out[i + 1] = Close("0x02", s) /\ i + 1 \in Int /\ i + 1 - 1 = i
    BY <1>1
  <2> QED BY ONLY <1>3, <2>1
<1> QED BY <1>4, <1>5

(* The lambda sends the first event on, ... *)
LEMMA EndForwards ==
  ASSUME NEW k, NEW x, NEW got, NEW out, NEW new, NEW ev, NEW ev2,
         NEW use \in BOOLEAN, NEW use2 \in BOOLEAN, NEW closing \in BOOLEAN, NEW closing2 \in BOOLEAN,
         1 \in DOMAIN ev, DOMAIN ev \subseteq Nat, DOMAIN ev2 \subseteq Nat \ {0},
         \A j \in DOMAIN ev : j = 1 \/ (j - 1 \in DOMAIN ev2 /\ ev2[j - 1] = ev[j]),
         \A i \in DOMAIN ev2 : i + 1 \in DOMAIN ev /\ ev2[i] = ev[i + 1],
         StaysSent(got, out, got, new, x.s), StaysLast(got, out, got, new, x.s),
         use2 => use,
         use2 /\ ev[1].fd = x.fd =>
           \A y : Carries(ev[1].data, y) => SentBefore(got, new, x.s, Len(new) + 1, y),
         use2 /\ closing2 => ev[1].fd = x.fd /\ ev[1].to_close,
         EndOf(k, x, got, out, ev, use, closing)
  PROVE  EndOf(k, x, got, new, ev2, use2, closing2)
<1>1. ASSUME use2, NEW n \in 1 .. x.sent
      PROVE  \/ SentBefore(got, new, x.s, Len(new) + 1, [k |-> k, n |-> n])
             \/ \E i \in DOMAIN ev2 : ev2[i].fd = x.fd /\ Carries(ev2[i].data, [k |-> k, n |-> n])
             \/ Carries(x.inq, n)
  <2> PICK z : z = [k |-> k, n |-> n]
    OBVIOUS
  <2>1. \/ SentBefore(got, out, x.s, Len(out) + 1, z)
        \/ \E i \in DOMAIN ev : ev[i].fd = x.fd /\ Carries(ev[i].data, z)
        \/ Carries(x.inq, n)
    BY <1>1 DEF EndOf, Reaches
  <2>2. CASE SentBefore(got, out, x.s, Len(out) + 1, z)
    BY <2>2 DEF StaysSent
  <2>3. ASSUME NEW i \in DOMAIN ev, ev[i].fd = x.fd, Carries(ev[i].data, z)
        PROVE  \/ SentBefore(got, new, x.s, Len(new) + 1, z)
               \/ \E h \in DOMAIN ev2 : ev2[h].fd = x.fd /\ Carries(ev2[h].data, z)
    <3>1. CASE i = 1
      BY <1>1, <2>3, <3>1
    <3>2. CASE i # 1
      BY <2>3, <3>2
    <3> QED BY <3>1, <3>2
  <2> QED BY <2>1, <2>2, <2>3
<1>2. use2 => Reaches(k, x, got, new, ev2)
  BY <1>1 DEF Reaches
<1>3. ASSUME use2 PROVE EndsLast(x, ev2)
  <2>1. EndsLast(x, ev)
    BY <1>3 DEF EndOf
  <2> SUFFICES ASSUME NEW i \in DOMAIN ev2, ev2[i].fd = x.fd, ev2[i].to_close
               PROVE  Ended(x) /\ \A j \in DOMAIN ev2 : i < j /\ ev2[j].fd = x.fd => ev2[j].data = <<>>
    BY DEF EndsLast
  <2>2. i + 1 \in DOMAIN ev /\ ev[i + 1].fd = x.fd /\ ev[i + 1].to_close
    OBVIOUS
  <2>3. Ended(x) /\ \A j \in DOMAIN ev : i + 1 < j /\ ev[j].fd = x.fd => ev[j].data = <<>>
    BY ONLY <2>1, <2>2 DEF EndsLast
  <2> QED BY <2>3
<1>4. ASSUME use2, closing2 PROVE Drained(x, ev2)
  <2>1. EndsLast(x, ev) /\ ev[1].fd = x.fd /\ ev[1].to_close
    BY <1>4 DEF EndOf
  <2>2. Ended(x) /\ \A j \in DOMAIN ev : 1 < j /\ ev[j].fd = x.fd => ev[j].data = <<>>
    BY <2>1 DEF EndsLast
  <2>3. \A j \in DOMAIN ev2 : ev2[j].fd = x.fd => ev2[j].data = <<>>
    BY <2>2
  <2> QED BY <2>2, <2>3 DEF Drained
<1>5. ClosedLast(k, x, got, new)
  BY DEF EndOf, ClosedLast, StaysLast
<1> QED BY <1>2, <1>3, <1>4, <1>5 DEF EndOf

(* ... and closes the stream after the last one. *)
LEMMA EndCloses ==
  ASSUME NEW k, NEW x, NEW got, NEW out \in Seq(Packet), NEW new, NEW ev, NEW ev2,
         NEW closing2 \in BOOLEAN, Close("0x02", x.s) \in Packet,
         new = out \o <<Close("0x02", x.s)>>,
         EndOf(k, x, got, out, ev, TRUE, TRUE)
  PROVE  EndOf(k, x, got, new, ev2, FALSE, closing2)
<1>1. /\ Len(new) = Len(out) + 1 /\ Len(out) \in Nat
      /\ \A j \in DOMAIN out : j \in DOMAIN new /\ new[j] = out[j] /\ j \in Nat /\ j <= Len(out)
      /\ \A i \in DOMAIN new : i \in DOMAIN out \/ i = Len(out) + 1
  OBVIOUS
<1>2. \A i, y : SentBefore(got, out, x.s, i, y) => SentBefore(got, new, x.s, i, y)
  BY ONLY <1>1 DEF SentBefore
<1>3. \A i \in DOMAIN out : out[i] = Close("0x02", x.s) =>
        x.eof /\ \A n \in 1 .. x.sent : SentBefore(got, out, x.s, i, [k |-> k, n |-> n])
  BY DEF EndOf, ClosedLast
<1>4. x.eof /\ x.inq = <<>> /\ \A j \in DOMAIN ev : ev[j].fd = x.fd => ev[j].data = <<>>
  BY DEF EndOf, Drained, Ended
<1>5. \A y : ~Carries(<<>>, y)
  BY DEF Carries
<1>6. \A n \in 1 .. x.sent : SentBefore(got, out, x.s, Len(out) + 1, [k |-> k, n |-> n])
  BY <1>4, <1>5 DEF EndOf, Reaches
<1>7. ASSUME NEW i \in DOMAIN new, new[i] = Close("0x02", x.s)
      PROVE  x.eof /\ \A n \in 1 .. x.sent : SentBefore(got, new, x.s, i, [k |-> k, n |-> n])
  <2>1. CASE i \in DOMAIN out
    BY ONLY <1>1, <1>2, <1>3, <1>7, <2>1
  <2>2. CASE i = Len(out) + 1
    BY ONLY <1>2, <1>4, <1>6, <2>2
  <2> QED BY <1>1, <2>1, <2>2
<1> QED BY <1>7 DEF EndOf, ClosedLast

(* The target sends a chunk. *)
LEMMA EndSends ==
  ASSUME NEW k, NEW x \in Socket, NEW y, NEW got, NEW out, NEW ev,
         NEW use \in BOOLEAN, NEW closing \in BOOLEAN,
         ~x.eof, y.s = x.s, y.fd = x.fd, y.sent = x.sent + 1, y.inq = Append(x.inq, x.sent + 1),
         EndOf(k, x, got, out, ev, use, closing)
  PROVE  EndOf(k, y, got, out, ev, use, closing)
<1>1. x.sent \in Nat /\ x.inq \in Seq(Nat)
  BY DEF Socket
<1>2. /\ \A n : Carries(x.inq, n) => Carries(y.inq, n)
      /\ Carries(y.inq, x.sent + 1)
  <2>1. \A q \in Seq(Nat), v \in Nat :
          /\ Len(q) + 1 \in DOMAIN Append(q, v) /\ Append(q, v)[Len(q) + 1] = v
          /\ \A i \in DOMAIN q : i \in DOMAIN Append(q, v) /\ Append(q, v)[i] = q[i]
    OBVIOUS
  <2>2. x.sent + 1 \in Nat
    BY <1>1
  <2> QED BY ONLY <1>1, <2>1, <2>2, y.inq = Append(x.inq, x.sent + 1) DEF Carries
<1>3. use => Reaches(k, y, got, out, ev)
  <2> SUFFICES ASSUME use, NEW n \in 1 .. y.sent
               PROVE  \/ SentBefore(got, out, x.s, Len(out) + 1, [k |-> k, n |-> n])
                      \/ \E i \in DOMAIN ev : ev[i].fd = x.fd /\ Carries(ev[i].data, [k |-> k, n |-> n])
                      \/ Carries(y.inq, n)
    BY DEF Reaches
  <2>1. n \in 1 .. x.sent \/ n = x.sent + 1
    BY <1>1
  <2> QED BY <1>2, <2>1 DEF EndOf, Reaches
<1>4. ~Ended(x)
  BY DEF Ended
<1>5. use => EndsLast(y, ev) /\ ~closing
  BY <1>4 DEF EndOf, EndsLast, Drained
<1>6. ClosedLast(k, y, got, out)
  BY DEF EndOf, ClosedLast
<1> QED BY <1>3, <1>5, <1>6 DEF EndOf

----------------------------------------------------------------------------
(* The events, as the watcher and the loop thread work on them.            *)
LEMMA LastEvent ==
  ASSUME NEW d \in Seq(Lambda), NEW e \in Lambda, NEW ev, ev = Append(d, e)
  PROVE  /\ DOMAIN ev \subseteq Nat \ {0} /\ Len(d) \in Nat
         /\ \A i \in DOMAIN d : i \in DOMAIN ev /\ ev[i] = d[i] /\ i <= Len(d) /\ i # Len(d) + 1
         /\ Len(d) + 1 \in DOMAIN ev /\ ev[Len(d) + 1] = e
         /\ \A i \in DOMAIN ev : i \in DOMAIN d \/ i = Len(d) + 1
OBVIOUS

LEMMA EventsKeptSame ==
  ASSUME NEW ev, NEW x PROVE EventsKept(ev, ev, x)
BY DEF EventsKept

(* A new event begins; ... *)
LEMMA EventsBegin ==
  ASSUME NEW d \in Seq(Lambda), NEW f \in Lambda, NEW x, f.data = <<>>, ~f.to_close
  PROVE  EventsKept(d, Append(d, f), x)
<1> PICK new : new = Append(d, f)
  OBVIOUS
<1>1. /\ \A i \in DOMAIN d : i \in DOMAIN new /\ new[i] = d[i]
      /\ new[Len(d) + 1] = f
      /\ \A i \in DOMAIN new : i \in DOMAIN d \/ i = Len(d) + 1
  BY LastEvent
<1> QED BY <1>1 DEF EventsKept

(* ... the last one ends, or is not of socket x; ... *)
LEMMA EventsEnd ==
  ASSUME NEW d \in Seq(Lambda), NEW e \in Lambda, NEW f \in Lambda, NEW x, f.fd = e.fd,
         f.fd = x.fd => f.data = e.data /\ (f.to_close => Ended(x))
  PROVE  EventsKept(Append(d, e), Append(d, f), x)
<1> PICK ev : ev = Append(d, e)
  OBVIOUS
<1> PICK new : new = Append(d, f)
  OBVIOUS
<1>1. /\ Len(d) \in Nat
      /\ \A i \in DOMAIN d : i \in DOMAIN ev /\ ev[i] = d[i] /\ i <= Len(d)
      /\ Len(d) + 1 \in DOMAIN ev /\ ev[Len(d) + 1] = e
      /\ \A i \in DOMAIN ev : i \in DOMAIN d \/ i = Len(d) + 1
  BY LastEvent
<1>2. /\ DOMAIN new \subseteq Nat \ {0}
      /\ \A i \in DOMAIN d : i \in DOMAIN new /\ new[i] = d[i]
      /\ Len(d) + 1 \in DOMAIN new /\ new[Len(d) + 1] = f
      /\ \A i \in DOMAIN new : i \in DOMAIN d \/ i = Len(d) + 1
  BY LastEvent
<1>3. \A m \in DOMAIN new : ~(Len(d) + 1 < m)
  BY ONLY <1>1, <1>2
<1>4. ASSUME NEW i \in DOMAIN ev, ev[i].fd = x.fd
      PROVE  i \in DOMAIN new /\ new[i].fd = x.fd /\ new[i].data = ev[i].data
  BY <1>1, <1>2, <1>4
<1>5. ASSUME NEW j \in DOMAIN new, new[j].fd = x.fd
      PROVE  \/ new[j].data = <<>> /\ ~new[j].to_close
             \/ /\ j \in DOMAIN ev /\ ev[j].fd = x.fd /\ new[j].data = ev[j].data
                /\ new[j].to_close => ev[j].to_close \/ (Ended(x) /\ \A m \in DOMAIN new : ~(j < m))
  <2>1. CASE j \in DOMAIN d
    BY <1>1, <1>2, <1>5, <2>1
  <2>2. CASE j = Len(d) + 1
    BY <1>1, <1>2, <1>3, <1>5, <2>2
  <2> QED BY <1>2, <2>1, <2>2
<1> QED BY <1>4, <1>5 DEF EventsKept

(* ... a chunk of it is read; ... *)
LEMMA EventsRead ==
  ASSUME NEW d \in Seq(Lambda), NEW e \in Lambda, NEW f \in Lambda, NEW k, NEW x, NEW y,
         f.fd = e.fd, e.fd = x.fd, f.to_close => e.to_close,
         f.data = Append(e.data, [k |-> k, n |-> Head(x.inq)]),
         x.inq # <<>>, y.inq = Tail(x.inq), y.sent = x.sent, y.eof = x.eof
  PROVE  /\ ReadInto(k, x, y, Append(d, e), Append(d, f), Len(d) + 1)
         /\ Append(d, e)[Len(d) + 1].data \in Seq(Chunk)
<1> PICK ev : ev = Append(d, e)
  OBVIOUS
<1> PICK new : new = Append(d, f)
  OBVIOUS
<1>1. /\ Len(d) \in Nat
      /\ \A i \in DOMAIN d : i \in DOMAIN ev /\ ev[i] = d[i] /\ i # Len(d) + 1
      /\ Len(d) + 1 \in DOMAIN ev /\ ev[Len(d) + 1] = e
      /\ \A i \in DOMAIN ev : i \in DOMAIN d \/ i = Len(d) + 1
  BY ONLY d \in Seq(Lambda), e \in Lambda, ev = Append(d, e), LastEvent
<1>2. /\ \A i \in DOMAIN d : i \in DOMAIN new /\ new[i] = d[i]
      /\ Len(d) + 1 \in DOMAIN new /\ new[Len(d) + 1] = f
      /\ \A i \in DOMAIN new : i \in DOMAIN d \/ i = Len(d) + 1
  BY ONLY d \in Seq(Lambda), f \in Lambda, new = Append(d, f), LastEvent
<1>3. DOMAIN new = DOMAIN ev /\ \A j \in DOMAIN ev : j # Len(d) + 1 => new[j] = ev[j]
  BY ONLY <1>1, <1>2
<1>4. ReadInto(k, x, y, ev, new, Len(d) + 1)
  BY <1>1, <1>2, <1>3, Zenon DEF ReadInto
<1>5. e.data \in Seq(Chunk)
  BY DEF Lambda
<1> QED BY <1>1, <1>4, <1>5

(* ... or the lambda takes the first. *)
LEMMA EventsShift ==
  ASSUME NEW ev \in Seq(Lambda), ev # <<>>, NEW new, new = Tail(ev)
  PROVE  /\ 1 \in DOMAIN ev /\ ev[1] = Head(ev)
         /\ DOMAIN ev \subseteq Nat /\ DOMAIN new \subseteq Nat \ {0}
         /\ \A j \in DOMAIN ev : j = 1 \/ (j - 1 \in DOMAIN new /\ new[j - 1] = ev[j])
         /\ \A i \in DOMAIN new : i + 1 \in DOMAIN ev /\ new[i] = ev[i + 1]
OBVIOUS

LEMMA EventsTail ==
  ASSUME NEW d \in Seq(Lambda), d # <<>>, NEW e \in Lambda
  PROVE  /\ Append(d, e) \in Seq(Lambda) /\ Append(d, e) # <<>>
         /\ Head(Append(d, e)) = Head(d) /\ Append(Tail(d), e) = Tail(Append(d, e))
OBVIOUS

----------------------------------------------------------------------------
(* Which steps begin to use a stream, or to close it.                      *)

(* A stream is in use after a step only if it was, or a socket was opened. *)
UseKept ==
  \A c \in Conn, s \in StreamId : InUse(c, s)' =>
    InUse(c, s) \/ \E fd \in Fd : \E k : Opens(c, s, fd, k)

LEMMA UseSame ==
  ASSUME UNCHANGED <<manager, loop>>, SameEntries
  PROVE  UseKept
BY DEF UseKept, InUse, AtConnect, Live, SameEntries

LEMMA UseLoop ==
  ASSUME TypeOK, Ownership, LoopStep
  PROVE  UseKept /\ (loop'.at = "close" => RunDeferred)
<1> USE DEF mgrVars, deferVars, kernelVars, poolVars, netVars, Idle
<1>a. ASSUME UNCHANGED manager, \A c \in Conn, s \in StreamId : Live(c, s)' => Live(c, s),
             loop'.at \notin {"connect", "insert"}
      PROVE  UseKept
  BY <1>a DEF UseKept, InUse, AtConnect
<1>b. ASSUME UNCHANGED <<manager, streams>>, loop'.at \notin {"connect", "insert"}
      PROVE  UseKept
  BY <1>b DEF UseKept, InUse, AtConnect, Live
<1>1. CASE ConnectFails \/ Wake \/ RunDeferred \/ Finish
  <2>1. UNCHANGED <<manager, streams>>
    BY <1>1, Zenon DEF ConnectFails, Wake, RunDeferred, Finish
  <2>2. \/ loop' = [at |-> "idle"] \/ loop' = [at |-> "finish"]
        \/ RunDeferred /\ \E c, s : loop' = [at |-> "close", c |-> c, s |-> s]
        \/ \E t : loop' = [at |-> "update", todo |-> t]
    BY <1>1, Zenon DEF ConnectFails, Wake, RunDeferred, Uncount, Finish
  <2>3. loop'.at \notin {"connect", "insert"} /\ (loop'.at = "close" => RunDeferred)
    BY <2>2
  <2> QED BY <1>b, <2>1, <2>3
<1>2. CASE ConnectSucceeds
  <2>1. /\ UNCHANGED <<manager, streams>> /\ loop.at = "connect"
        /\ loop' = [loop EXCEPT !.at = "insert"]
    BY <1>2, Zenon DEF ConnectSucceeds
  <2>2. loop'.at = "insert" /\ loop'.c = loop.c /\ loop'.s = loop.s
    BY <2>1 DEF TypeOK, LoopState
  <2> QED BY <2>1, <2>2 DEF UseKept, InUse, AtConnect, Live
<1>3. CASE ConnectInsert
  <2>1. PICK v : /\ streams' = [streams EXCEPT ![loop.c][loop.s] = v]
                 /\ UNCHANGED manager /\ loop.at = "insert" /\ loop' = [at |-> "wake", locked |-> {loop.c}]
    BY <1>3, Zenon DEF ConnectInsert
  <2>2. loop'.at = "wake"
    BY <2>1
  <2>3. \A c \in Conn, s \in StreamId : streams'[c][s] # streams[c][s] => c = loop.c /\ s = loop.s
    BY <2>1 DEF TypeOK
  <2> QED BY <2>1, <2>2, <2>3 DEF UseKept, InUse, AtConnect, Live
<1>4. CASE DeferredClose \/ ForceClose
  <2>1. PICK c, s : streams' = [streams EXCEPT ![c][s] = NoStream]
    BY <1>4, Zenon DEF DeferredClose, ForceClose, close_stream
  <2>2. UNCHANGED manager /\ \/ loop' = [at |-> "finish"]
                             \/ loop.at = "force" /\ \E s1 : loop' = [loop EXCEPT !.todo = @ \ {s1}]
    BY <1>4, Zenon DEF DeferredClose, ForceClose, Uncount
  <2>3. loop'.at \in {"finish", "force"}
    BY <2>2 DEF TypeOK, LoopState
  <2>4. \A d \in Conn, t \in StreamId : Live(d, t)' => Live(d, t)
    BY <2>1 DEF Live, TypeOK
  <2> QED BY <1>a, <2>2, <2>3, <2>4
<1>5. CASE UpdateNext
  <2>1. PICK c \in loop.todo : /\ update_streams(c, ws[c], has_backpressure[c])
                               /\ loop' = IF loop.todo = {c} THEN Idle ELSE [loop EXCEPT !.todo = @ \ {c}]
    BY <1>5, Zenon DEF UpdateNext
  <2>2. loop.at = "update" /\ UNCHANGED manager
    BY <1>5, Zenon DEF UpdateNext
  <2>3. c \in Conn
    BY <2>2 DEF TypeOK, LoopState
  <2>4. loop'.at \in {"idle", "update"}
    BY <2>1, <2>2 DEF TypeOK, LoopState
  <2>5. SameEntries
    BY <2>1, <2>3, UpdateSameEntries
  <2>6. \A d \in Conn, t \in StreamId : Live(d, t)' => Live(d, t)
    BY <2>5 DEF SameEntries, Live
  <2> QED BY <1>a, <2>2, <2>4, <2>6
<1>6. CASE Destruct
  <2>1. /\ UNCHANGED streams /\ loop' = [at |-> "idle"] /\ loop.at = "force"
        /\ manager' = [manager EXCEPT ![loop.c] = "deleted"]
    BY <1>6, Zenon DEF Destruct
  <2>2. loop'.at = "idle" /\ \A c \in Conn : manager'[c] = "open" => manager[c] = "open"
    BY <2>1 DEF TypeOK
  <2> QED BY <2>1, <2>2 DEF UseKept, InUse, AtConnect, Live
<1> QED BY <1>1, <1>2, <1>3, <1>4, <1>5, <1>6 DEF LoopStep

LEMMA UseOutside ==
  ASSUME TypeOK, Ownership, Outside
  PROVE  UseKept /\ (loop'.at = "close" => UNCHANGED loop)
<1> USE DEF mgrVars, deferVars, kernelVars, poolVars, netVars
<1>0. SameEntries => \A c \in Conn, s \in StreamId : Live(c, s)' => Live(c, s)
  BY DEF SameEntries, Live
<1>a. UNCHANGED streams => SameEntries
  BY DEF SameEntries
<1>1. ASSUME NEW c \in Conn, Open(c) PROVE UseKept /\ UNCHANGED loop
  <2>1. UNCHANGED <<streams, loop>> /\ manager[c] = "none" /\ manager' = [manager EXCEPT ![c] = "open"]
    BY <1>1, Zenon DEF Open, Construct
  <2>2. \A s \in StreamId : ~Live(c, s) /\ ~AtConnect(c, s)
    BY <2>1 DEF Ownership, EntriesOpen, watched_sockets, AtConnect
  <2>3. \A d \in Conn : d # c => manager'[d] = manager[d]
    BY <2>1 DEF TypeOK
  <2> QED BY <2>1, <2>2, <2>3 DEF UseKept, InUse, AtConnect, Live
<1>2. ASSUME NEW c \in Conn, Drain(c) PROVE UseKept /\ loop'.at = "wake"
  <2>1. /\ update_streams(c, Moved(ws[c]), FALSE) /\ UNCHANGED manager
        /\ loop' = [at |-> "wake", locked |-> {}]
    BY <1>2, Zenon DEF Drain
  <2>2. SameEntries
    BY <2>1, UpdateSameEntries
  <2>3. loop'.at = "wake"
    BY <2>1
  <2> QED BY <1>0, <2>1, <2>2, <2>3 DEF UseKept, InUse, AtConnect
<1>3. ASSUME NEW c \in Conn, WsClosed(c) PROVE UseKept /\ loop'.at = "force"
  <2>1. PICK t : /\ UNCHANGED streams /\ loop' = [at |-> "force", c |-> c, todo |-> t]
                 /\ manager' = [manager EXCEPT ![c] = "closing"]
    BY <1>3, Zenon DEF WsClosed
  <2>2. loop'.at = "force" /\ \A d \in Conn : manager'[d] = "open" => manager[d] = "open"
    BY <2>1 DEF TypeOK
  <2> QED BY <2>1, <2>2 DEF UseKept, InUse, AtConnect, Live
<1>4. ASSUME NEW c \in Conn, ClientReceive(c) PROVE UseKept /\ UNCHANGED loop
  BY <1>4, <1>a, UseSame, Zenon DEF ClientReceive
<1>5. ASSUME NEW c \in Conn, NEW s \in StreamId, RecvData(c, s) PROVE UseKept /\ UNCHANGED loop
  <2>1. UNCHANGED <<manager, loop>> /\ (UNCHANGED streams \/ (Live(c, s) /\ charge(c, s)))
    BY <1>5, Zenon DEF RecvData, handle_data
  <2>2. SameEntries
    BY <1>a, <2>1, ChargeSameEntries
  <2> QED BY <2>1, <2>2, UseSame
<1>6. ASSUME NEW c \in Conn, NEW s \in StreamId, RecvClose(c, s) PROVE UseKept /\ UNCHANGED loop
  BY <1>6, <1>a, UseSame, Zenon DEF RecvClose
<1>7. ASSUME NEW c \in Conn, NEW s \in StreamId, NEW type \in Asked, RecvConnect(c, s, type)
      PROVE  UseKept /\ (loop'.at = "close" => UNCHANGED loop)
  <2>1. UNCHANGED <<manager, streams>> /\ (UNCHANGED loop \/ \E fd \in Fd : \E k : Opens(c, s, fd, k))
    BY <1>7, ConnectForms
  <2>2. CASE UNCHANGED loop
    BY <1>a, <2>1, <2>2, UseSame
  <2>3. CASE \E fd \in Fd : \E k : Opens(c, s, fd, k)
    <3>1. loop'.at = "connect" /\ loop'.c = c /\ loop'.s = s
      BY <2>3 DEF Opens
    <3> QED BY <2>1, <2>3, <3>1 DEF UseKept, InUse, AtConnect, Live
  <2> QED BY <2>1, <2>2, <2>3
<1>8. ASSUME NEW k \in DOMAIN sock, TargetSend(k) \/ TargetClose(k) PROVE UseKept /\ UNCHANGED loop
  BY <1>8, <1>a, UseSame, Zenon DEF TargetSend, TargetClose
<1>9. loop'.at \in {"wake", "force"} => loop'.at # "close"
  OBVIOUS
<1> QED BY <1>1, <1>2, <1>3, <1>4, <1>5, <1>6, <1>7, <1>8, <1>9, Zenon DEF Outside

(* What the watcher does to the events: nothing, or it begins one, ... *)
EventBegins ==
  /\ ~HasEvent /\ HasEvent' /\ UNCHANGED <<deferred, sock>>
  /\ watcher'.e.data = <<>> /\ ~watcher'.e.to_close

(* ... or it ends the last one, ... *)
EndSeen ==
  \/ fdtab[watcher.e.fd] = 0 \/ InConnect(fdtab[watcher.e.fd])
  \/ \E j \in DOMAIN sock : sock[j].fd = watcher.e.fd /\ Ended(sock[j])

EventEnds ==
  /\ HasEvent /\ HasEvent' /\ UNCHANGED <<deferred, sock>>
  /\ watcher'.e.fd = watcher.e.fd /\ watcher'.e.data = watcher.e.data
  /\ watcher'.e.to_close => EndSeen

(* ... or it reads a chunk of a socket with its number. *)
EventReads(j) ==
  /\ HasEvent /\ HasEvent' /\ UNCHANGED deferred
  /\ sock[j].fd = watcher.e.fd /\ sock[j].inq # <<>> /\ sock' = [sock EXCEPT ![j].inq = Tail(@)]
  /\ watcher'.e.fd = watcher.e.fd /\ (watcher'.e.to_close => watcher.e.to_close)
  /\ watcher'.e.data = Append(watcher.e.data, [k |-> j, n |-> Head(sock[j].inq)])

LEMMA WatcherForms ==
  ASSUME TypeOK, TypeOK', StuckOnSocket, Numbers, WatcherStep
  PROVE  \/ Events' = Events /\ UNCHANGED sock
         \/ EventBegins \/ EventEnds
         \/ \E j \in DOMAIN sock : EventReads(j)
<1> USE DEF mgrVars, deferVars, kernelVars, poolVars, netVars
<1>1. CASE WatchWait \/ WatchWake
  <2>1. UNCHANGED <<deferred, sock>> /\ watcher.at \in {"wait", "batch"}
    BY <1>1, Zenon DEF WatchWait, WatchWake
  <2>2. (\E todo : watcher' = Rest(todo)) \/ \E todo : watcher' = [at |-> "batch", todo |-> todo]
    BY <1>1, Zenon DEF WatchWait, WatchWake
  <2>3. ~HasEvent /\ ~HasEvent'
    BY <2>1, <2>2 DEF HasEvent, Rest
  <2> QED BY <2>1, <2>3 DEF Events
<1>2. CASE WatchEvent
  <2>1. \E fd, todo : watcher' = [at |-> "reading", e |-> [fd |-> fd, data |-> <<>>, to_close |-> FALSE],
                               todo |-> todo]
    BY <1>2, Zenon DEF WatchEvent
  <2>2. UNCHANGED <<deferred, sock>> /\ watcher.at = "batch"
    BY <1>2, Zenon DEF WatchEvent
  <2>3. HasEvent' /\ watcher'.e.data = <<>> /\ ~watcher'.e.to_close
    BY <2>1 DEF HasEvent
  <2> QED BY <2>2, <2>3 DEF EventBegins, HasEvent
<1>3. CASE WatchErase \/ WatchCount
  <2>1. /\ UNCHANGED <<deferred, sock>> /\ watcher.at \in {"ended", "done"}
        /\ (watcher' = [watcher EXCEPT !.at = "done"] \/ watcher' = [watcher EXCEPT !.at = "counted"])
    BY <1>3, Zenon DEF WatchErase, WatchCount
  <2>2. watcher'.e = watcher.e /\ watcher'.at \in {"done", "counted"}
    BY <2>1 DEF TypeOK, WatcherState
  <2>3. HasEvent' = HasEvent
    BY <2>1, <2>2 DEF HasEvent
  <2> QED BY <2>1, <2>2, <2>3 DEF Events
<1>4. CASE WatchDefer
  <2>1. /\ watcher.at = "counted" /\ deferred' = Append(deferred, watcher.e)
        /\ watcher' = Rest(watcher.todo) /\ UNCHANGED sock
    BY <1>4, Zenon DEF WatchDefer
  <2>2. HasEvent /\ ~HasEvent'
    BY <2>1 DEF HasEvent, Rest
  <2> QED BY <2>1, <2>2 DEF Events
<1>5. ASSUME watcher.at \in {"reading", "stuck"}, UNCHANGED <<deferred, sock>>, NEW b \in BOOLEAN,
             EndLoop(watcher.e, b), b => EndSeen
      PROVE  EventEnds
  <2>1. watcher.e \in Lambda /\ HasEvent
    BY <1>5 DEF TypeOK, WatcherState, HasEvent
  <2>2. /\ watcher'.e.data = watcher.e.data /\ watcher'.e.fd = watcher.e.fd
        /\ watcher'.e.to_close = b
    BY <1>5, <2>1 DEF EndLoop, Lambda
  <2>3. HasEvent'
    BY <1>5 DEF EndLoop, HasEvent
  <2> QED BY <1>5, <2>1, <2>2, <2>3 DEF EventEnds
<1>6. ASSUME watcher.at \in {"reading", "stuck"}, UNCHANGED deferred, NEW k \in DOMAIN sock, ReadChunk(k),
             sock[k].fd = watcher.e.fd
      PROVE  EventReads(k)
  <2> DEFINE d == Append(watcher.e.data, [k |-> k, n |-> Head(sock[k].inq)])
  <2>1. watcher.e \in Lambda /\ HasEvent
    BY <1>6 DEF TypeOK, WatcherState, HasEvent
  <2>2. sock[k].inq # <<>> /\ sock' = [sock EXCEPT ![k].inq = Tail(@)]
    BY <1>6, Zenon DEF ReadChunk
  <2>3. \/ EndLoop([watcher.e EXCEPT !.data = d], FALSE)
        \/ watcher' = [at |-> "reading", e |-> [watcher.e EXCEPT !.data = d], todo |-> watcher.todo]
    BY <1>6, Zenon DEF ReadChunk
  <2> HIDE DEF d
  <2>4. PICK f : f = [watcher.e EXCEPT !.data = d]
    OBVIOUS
  <2>5. f.data = d /\ f.fd = watcher.e.fd /\ f.to_close = watcher.e.to_close /\ DOMAIN f = {"fd", "data", "to_close"}
    BY <2>1, <2>4 DEF Lambda
  <2>6. /\ HasEvent' /\ watcher'.e.fd = watcher.e.fd /\ watcher'.e.data = d
        /\ watcher'.e.to_close => watcher.e.to_close
    <3>1. CASE EndLoop(f, FALSE)
      BY <2>5, <3>1 DEF EndLoop, HasEvent
    <3>2. CASE watcher' = [at |-> "reading", e |-> f, todo |-> watcher.todo]
      BY <2>5, <3>2 DEF HasEvent
    <3> QED BY <2>3, <2>4, <3>1, <3>2
  <2> QED BY <1>6, <2>1, <2>2, <2>6 DEF EventReads, d
<1>7. ASSUME watcher.at \in {"reading", "stuck"}, UNCHANGED deferred, NEW k \in DOMAIN sock, ReadEnd(k),
             sock[k].fd = watcher.e.fd
      PROVE  EventEnds
  <2>1. UNCHANGED sock /\ EndLoop(watcher.e, TRUE) /\ sock[k].inq = <<>> /\ sock[k].eof
    BY <1>7, Zenon DEF ReadEnd
  <2>2. EndSeen
    BY <1>7, <2>1 DEF EndSeen, Ended
  <2>3. TRUE \in BOOLEAN
    OBVIOUS
  <2> QED BY <1>5, <1>7, <2>1, <2>2, <2>3, Zenon
<1>8. CASE WatchReadReturns
  <2>1. watcher.at = "stuck" /\ UNCHANGED deferred /\ (ReadChunk(watcher.k) \/ ReadEnd(watcher.k))
    BY <1>8, Zenon DEF WatchReadReturns
  <2>2. watcher.k \in DOMAIN sock /\ watcher.at \in {"reading", "stuck"} /\ sock[watcher.k].fd = watcher.e.fd
    BY <2>1 DEF StuckOnSocket, Numbers
  <2> QED BY <1>6, <1>7, <2>1, <2>2, Zenon
<1>9. CASE WatchRead
  <2> DEFINE k == fdtab[watcher.e.fd]
  <2>1. watcher.at = "reading" /\ UNCHANGED deferred /\ watcher.at \in {"reading", "stuck"}
    BY <1>9, Zenon DEF WatchRead
  <2>2. watcher.e \in Lambda /\ HasEvent
    BY <2>1 DEF TypeOK, WatcherState, HasEvent
  <2>3. watcher.e.fd \in Fd /\ (k # 0 => k \in DOMAIN sock)
    BY <2>2 DEF TypeOK, Lambda
  <2>4. \/ k # 0 /\ (ReadChunk(k) \/ ReadEnd(k))
        \/ k = 0 /\ EndLoop(watcher.e, TRUE) /\ UNCHANGED sock
        \/ EndLoop(watcher.e, FALSE) /\ UNCHANGED sock
        \/ InConnect(k) /\ EndLoop(watcher.e, TRUE) /\ UNCHANGED sock
        \/ UNCHANGED sock /\ watcher' = [at |-> "stuck", k |-> k, e |-> watcher.e, todo |-> watcher.todo]
    BY <1>9, Zenon DEF WatchRead
  <2>5. k # 0 => sock[k].fd = watcher.e.fd
    BY <2>3 DEF Numbers
  <2>6. k = 0 \/ InConnect(k) => EndSeen
    BY DEF EndSeen
  <2> HIDE DEF k
  <2>7. CASE UNCHANGED sock /\ watcher' = [at |-> "stuck", k |-> k, e |-> watcher.e, todo |-> watcher.todo]
    <3>1. watcher'.e = watcher.e /\ watcher'.at = "stuck"
      BY <2>7
    <3>2. HasEvent' = HasEvent
      BY <2>1, <3>1 DEF HasEvent
    <3> QED BY <2>1, <2>7, <3>1, <3>2 DEF Events
  <2>8. TRUE \in BOOLEAN /\ FALSE \in BOOLEAN
    OBVIOUS
  <2> QED BY <1>5, <1>6, <1>7, <2>1, <2>3, <2>4, <2>5, <2>6, <2>7, <2>8, Zenon
<1> QED BY <1>1, <1>2, <1>3, <1>4, <1>8, <1>9 DEF WatcherStep

----------------------------------------------------------------------------
(* The steps.                                                              *)

(* Socket k of stream s of client c, with a number of its own. *)
Follows(k, c, s) == k \in DOMAIN sock /\ sock[k].c = c /\ sock[k].s = s /\ OwnNumber(k) /\ EndFor(k, c, s)

(* A stream in use has this socket and no other. *)
LEMMA InUseHolds ==
  ASSUME TypeOK, Ownership, Numbers, OneSocket, NEW c \in Conn, NEW s \in StreamId,
         NEW k \in DOMAIN sock, sock[k].c = c, sock[k].s = s, InUse(c, s)
  PROVE  fdtab[sock[k].fd] = k /\ (Live(c, s) => FdOf(c, s) = sock[k].fd)
<1>1. ASSUME NEW fd \in Fd, OpenFor(fd, c, s) PROVE fdtab[fd] = k /\ sock[k].fd = fd
  <2>1. fdtab[fd] \in DOMAIN sock /\ sock[fdtab[fd]].c = c /\ sock[fdtab[fd]].s = s
    BY <1>1 DEF OpenFor
  <2>2. fdtab[fd] = k
    BY <2>1 DEF OneSocket
  <2>3. fdtab[fd] # 0
    BY <2>1 DEF TypeOK
  <2> QED BY <1>1, <2>2, <2>3 DEF Numbers
<1>2. CASE Live(c, s)
  <2>1. FdOf(c, s) \in Fd
    BY <1>2 DEF FdOf, Live, TypeOK, Stream
  <2>2. OpenFor(FdOf(c, s), c, s)
    BY <1>2 DEF Ownership, EntriesOpen
  <2> QED BY <1>1, <2>1, <2>2
<1>3. CASE AtConnect(c, s) /\ ~Live(c, s)
  <2>1. loop.at \in {"connect", "insert"} /\ loop.c = c /\ loop.s = s
    BY <1>3 DEF AtConnect
  <2>2. loop.fd \in Fd
    BY <2>1 DEF TypeOK, LoopState
  <2>3. OpenFor(loop.fd, c, s)
    BY <2>1 DEF Ownership, EntriesOpen
  <2>4. fdtab[loop.fd] = k /\ sock[k].fd = loop.fd
    BY <1>1, <2>2, <2>3
  <2> QED BY <1>3, <2>4
<1> QED BY <1>2, <1>3 DEF InUse

(* More packets for the client, without a CLOSE of stream s. *)
Adds(c, s) == \E more \in Seq(Packet) :
  ws'[c].out = ws[c].out \o more /\ \A i \in DOMAIN more : more[i] # Close("0x02", s)

LEMMA PlainAdds ==
  ASSUME OnlyPlain, NEW c \in Conn, NEW s PROVE Adds(c, s)
<1>1. PICK more \in Seq(Packet) : ws'[c].out = ws[c].out \o more /\ \A i \in DOMAIN more : Plain(more[i])
  BY DEF OnlyPlain
<1>2. \A i \in DOMAIN more : more[i] # Close("0x02", s)
  BY <1>1 DEF Plain, Close
<1> QED BY <1>1, <1>2 DEF Adds

LEMMA NothingAdds ==
  ASSUME TypeOK, NEW c \in Conn, NEW s, ws'[c].out = ws[c].out PROVE Adds(c, s)
<1>1. ws[c].out \in Seq(Packet)
  BY StreamTypes
<1>2. ws[c].out \o <<>> = ws[c].out /\ <<>> \in Seq(Packet) /\ DOMAIN <<>> = {}
  BY <1>1
<1> QED BY <1>2 DEF Adds

LEMMA OneAdds ==
  ASSUME NEW c, NEW s, NEW p \in Packet, p # Close("0x02", s), ws'[c].out = ws[c].out \o <<p>>
  PROVE  Adds(c, s)
<1>1. <<p>> \in Seq(Packet) /\ \A i \in DOMAIN <<p>> : <<p>>[i] = p
  OBVIOUS
<1> QED BY <1>1 DEF Adds

(* A step that takes no data from the socket and does not close the stream. *)
LEMMA EndQuiet ==
  ASSUME TypeOK, NEW c \in Conn, NEW s \in StreamId, NEW k \in DOMAIN sock, sock[k].s = s,
         EndFor(k, c, s), Onward(sock, sock'), sock'[k].sent = sock[k].sent, sock'[k].inq = sock[k].inq,
         client'[c].got[s] = client[c].got[s], Adds(c, s), Events' = Events,
         InUse(c, s)' => InUse(c, s), Closing(c, s)' => Closing(c, s)
  PROVE  EndFor(k, c, s)'
<1>1. PICK more \in Seq(Packet) :
        ws'[c].out = ws[c].out \o more /\ \A i \in DOMAIN more : more[i] # Close("0x02", s)
  BY DEF Adds
<1>3. ws[c].out \in Seq(Packet)
  BY StreamTypes
<1>4. /\ StaysSent(client[c].got[s], ws[c].out, client'[c].got[s], ws'[c].out, s)
      /\ StaysLast(client[c].got[s], ws[c].out, client'[c].got[s], ws'[c].out, s)
  BY <1>1, <1>3, QueueGrows
<1>5. InUse(c, s)' \in BOOLEAN /\ Closing(c, s)' \in BOOLEAN /\ InUse(c, s) \in BOOLEAN /\ Closing(c, s) \in BOOLEAN
  BY DEF InUse, Closing
<1>6. EventsKept(Events, Events', sock[k])
  BY EventsKeptSame
<1>7. sock'[k].s = sock[k].s /\ sock'[k].fd = sock[k].fd /\ (sock[k].eof => sock'[k].eof)
  BY DEF Onward
<1>8. EndOf(k, sock[k], client[c].got[s], ws[c].out, Events, InUse(c, s), Closing(c, s))
  BY DEF EndFor
<1>9. EndOf(k, sock'[k], client'[c].got[s], ws'[c].out, Events', InUse(c, s)', Closing(c, s)')
  BY <1>4, <1>5, <1>6, <1>7, <1>8, EndStays
<1> QED BY <1>9 DEF EndFor

LEMMA EndWatcher ==
  ASSUME TypeOK, TypeOK', Ownership, StuckOnSocket, Numbers, OneSocket,
         NEW c \in Conn, NEW s \in StreamId, NEW k, Follows(k, c, s), WatcherStep
  PROVE  EndFor(k, c, s)'
<1> DEFINE x == sock[k]
           got == client[c].got[s]
           out == ws[c].out
<1>0. k \in DOMAIN sock /\ x.c = c /\ x.s = s /\ OwnNumber(k)
  BY DEF Follows
<1>1. UNCHANGED <<manager, streams, loop, ws, client>>
  BY ThreadsSendNothing
<1>2. PICK use \in BOOLEAN : use = InUse(c, s) /\ InUse(c, s)' = InUse(c, s)
  BY <1>1 DEF InUse, AtConnect, Live
<1>3. PICK closing \in BOOLEAN : closing = Closing(c, s) /\ Closing(c, s)' = Closing(c, s)
  BY <1>1 DEF Closing
<1>4. EndOf(k, x, got, out, Events, use, closing)
  BY <1>2, <1>3, Zenon DEF Follows, EndFor
<1>5. SUFFICES EndOf(k, sock'[k], got, out, Events', use, closing)
  BY <1>1, <1>2, <1>3, Zenon DEF EndFor
<1>6. use => fdtab[x.fd] = k
  BY <1>0, <1>2, InUseHolds
<1>7. deferred \in Seq(Lambda) /\ deferred' \in Seq(Lambda)
  BY DEF TypeOK
<1>8. (HasEvent => watcher.e \in Lambda) /\ (HasEvent' => watcher'.e \in Lambda)
  BY DEF HasEvent, TypeOK, WatcherState
<1>9. StaysSent(got, out, got, out, s) /\ StaysLast(got, out, got, out, s)
  BY DEF StaysSent, StaysLast
<1>a. ASSUME use => EventsKept(Events, Events', x), sock'[k] = sock[k]
      PROVE  EndOf(k, sock'[k], got, out, Events', use, closing)
  <2> HIDE DEF x, got, out
  <2>1. sock'[k] = x
    BY <1>a DEF x
  <2>2. EndOf(k, x, got, out, Events', use, closing)
    BY <1>0, <1>4, <1>9, <1>a, EndStays
  <2> QED BY <2>1, <2>2
<1>10. CASE Events' = Events /\ UNCHANGED sock
  BY <1>a, <1>10, EventsKeptSame
<1>11. CASE EventBegins
  <2>1. Events = deferred /\ Events' = Append(deferred, watcher'.e) /\ UNCHANGED sock
    BY <1>11 DEF EventBegins, Events
  <2>2. watcher'.e \in Lambda /\ watcher'.e.data = <<>> /\ ~watcher'.e.to_close
    BY <1>8, <1>11 DEF EventBegins
  <2>3. EventsKept(deferred, Append(deferred, watcher'.e), x)
    BY ONLY <1>7, <2>2, EventsBegin
  <2> QED BY <1>a, <2>1, <2>3
<1>12. CASE EventEnds
  <2>1. Events = Append(deferred, watcher.e) /\ Events' = Append(deferred, watcher'.e) /\ UNCHANGED sock
    BY <1>12 DEF EventEnds, Events
  <2>2. /\ HasEvent /\ watcher.e \in Lambda /\ watcher'.e \in Lambda /\ watcher'.e.fd = watcher.e.fd
        /\ watcher'.e.data = watcher.e.data /\ (watcher'.e.to_close => EndSeen)
    BY <1>8, <1>12 DEF EventEnds
  <2>3. ASSUME use, watcher.e.fd = x.fd, EndSeen PROVE Ended(x)
    <3>1. fdtab[watcher.e.fd] = k /\ k # 0
      BY <1>0, <1>6, <2>3 DEF TypeOK
    <3>2. Connected(watcher.e.fd)
      BY <2>2 DEF Numbers, Named, Lambda
    <3>3. ~InConnect(k)
      BY <1>0, <2>3, <3>2 DEF Connected, OwnNumber
    <3>4. PICK j \in DOMAIN sock : sock[j].fd = watcher.e.fd /\ Ended(sock[j])
      BY <2>3, <3>1, <3>3, Zenon DEF EndSeen
    <3>5. j = k
      BY <1>0, <2>3, <3>4 DEF OwnNumber
    <3> QED BY <3>4, <3>5
  <2>4. ASSUME use PROVE EventsKept(Append(deferred, watcher.e), Append(deferred, watcher'.e), x)
    <3>1. watcher'.e.fd = x.fd => watcher'.e.data = watcher.e.data /\ (watcher'.e.to_close => Ended(x))
      BY <2>2, <2>3, <2>4
    <3> QED BY ONLY <1>7, <2>2, <3>1, EventsEnd
  <2> QED BY <1>a, <2>1, <2>4
<1>13. ASSUME NEW j \in DOMAIN sock, EventReads(j) PROVE EndOf(k, sock'[k], got, out, Events', use, closing)
  <2>1. /\ Events = Append(deferred, watcher.e) /\ Events' = Append(deferred, watcher'.e)
        /\ watcher.e \in Lambda /\ watcher'.e \in Lambda
    BY <1>8, <1>13 DEF EventReads, Events
  <2>2. /\ sock[j].fd = watcher.e.fd /\ sock[j].inq # <<>> /\ sock' = [sock EXCEPT ![j].inq = Tail(@)]
        /\ watcher'.e.fd = watcher.e.fd /\ (watcher'.e.to_close => watcher.e.to_close)
        /\ watcher'.e.data = Append(watcher.e.data, [k |-> j, n |-> Head(sock[j].inq)])
    BY <1>13 DEF EventReads
  <2>3. sock[j] \in Socket /\ sock[k] \in Socket /\ j \in Nat
    BY <1>0 DEF TypeOK
  <2>4. CASE j # k
    <3>1. sock'[k] = sock[k]
      BY <1>0, <2>2, <2>4
    <3>2. watcher'.e.fd # x.fd
      BY <1>0, <2>2, <2>4 DEF OwnNumber
    <3>3. EventsKept(Append(deferred, watcher.e), Append(deferred, watcher'.e), x)
      BY ONLY <1>7, <2>1, <2>2, <3>2, EventsEnd
    <3> QED BY <1>a, <2>1, <3>1, <3>3
  <2>5. CASE j = k
    <3>1. /\ sock'[k].inq = Tail(x.inq) /\ sock'[k].sent = x.sent /\ sock'[k].eof = x.eof
          /\ sock'[k].s = x.s /\ sock'[k].fd = x.fd
      BY <1>0, <2>2, <2>3, <2>5 DEF Socket
    <3>2. PICK y : y = sock'[k]
      OBVIOUS
    <3>3. /\ watcher.e.fd = x.fd /\ x.inq # <<>>
          /\ watcher'.e.data = Append(watcher.e.data, [k |-> k, n |-> Head(x.inq)])
      BY <2>2, <2>5
    <3>4. x \in Socket /\ k \in Nat
      BY <2>3, <2>5
    <3> HIDE DEF x, got, out
    <3>5. /\ ReadInto(k, x, y, Events, Events', Len(deferred) + 1)
          /\ Events[Len(deferred) + 1].data \in Seq(Chunk)
      BY ONLY <1>7, <2>1, <2>2, <3>1, <3>2, <3>3, EventsRead
    <3>6. EndOf(k, y, got, out, Events', use, closing)
      BY <1>4, <3>1, <3>2, <3>4, <3>5, EndReads
    <3> QED BY <3>2, <3>6
  <2> QED BY <2>4, <2>5
<1> QED BY <1>10, <1>11, <1>12, <1>13, WatcherForms

(* The lambda. *)
LEMMA EndDeferred ==
  ASSUME TypeOK, TypeOK', Ownership, Numbers, OneSocket, NothingDropped, NothingDropped',
         NEW c \in Conn, NEW s \in StreamId, NEW k, Follows(k, c, s), RunDeferred
  PROVE  EndFor(k, c, s)'
<1> DEFINE x == sock[k]
           got == client[c].got[s]
           out == ws[c].out
           new == ws'[c].out
           e == Head(deferred)
<1>0. k \in DOMAIN sock /\ x.c = c /\ x.s = s /\ OwnNumber(k)
  BY DEF Follows
<1>1. /\ deferred # <<>> /\ deferred' = Tail(deferred) /\ loop.at = "idle"
      /\ UNCHANGED <<manager, streams, watcher, sock, client>>
      /\ \/ Owners(e.fd) = {} /\ UNCHANGED ws /\ loop' = [at |-> "finish"]
         \/ \E d \in Conn, t \in StreamId :
              /\ <<d, t>> \in Owners(e.fd)
              /\ SendTo(d, <<Data(t, e.data)>>)
              /\ \/ ~e.to_close /\ loop' = [at |-> "finish"]
                 \/ e.to_close /\ loop' = [at |-> "close", c |-> d, s |-> t]
  BY DeferredForms, Zenon
<1>2. loop'.at \in {"finish", "close"}
  <2>1. loop' = [at |-> "finish"] \/ \E d, t : loop' = [at |-> "close", c |-> d, s |-> t]
    BY <1>1, Zenon
  <2> QED BY ONLY <2>1
<1>3. PICK use \in BOOLEAN : use = InUse(c, s) /\ InUse(c, s)' = InUse(c, s)
  BY <1>1, <1>2 DEF InUse, AtConnect, Live
<1>4. PICK closing \in BOOLEAN : closing = Closing(c, s)
  BY DEF Closing
<1>5. PICK closing2 \in BOOLEAN : closing2 = Closing(c, s)'
  BY DEF Closing
<1>6. EndOf(k, x, got, out, Events, use, closing)
  BY <1>3, <1>4, Zenon DEF Follows, EndFor
<1>7. SUFFICES EndOf(k, x, got, new, Events', use, closing2)
  BY <1>1, <1>3, <1>5, Zenon DEF EndFor
<1>8. deferred \in Seq(Lambda) /\ out \in Seq(Packet) /\ e \in Lambda /\ (HasEvent => watcher.e \in Lambda)
  <2>1. deferred \in Seq(Lambda) /\ (HasEvent => watcher.e \in Lambda)
    BY DEF TypeOK, HasEvent, WatcherState
  <2> QED BY <1>1, <2>1, FirstLambda, StreamTypes
<1>9. Events \in Seq(Lambda) /\ Events # <<>> /\ Head(Events) = e /\ Events' = Tail(Events)
  <2>1. HasEvent' = HasEvent /\ watcher' = watcher
    BY <1>1 DEF HasEvent
  <2>2. CASE HasEvent
    <3>1. Events = Append(deferred, watcher.e) /\ Events' = Append(Tail(deferred), watcher.e)
      BY <1>1, <2>1, <2>2 DEF Events
    <3> QED BY <1>1, <1>8, <2>2, <3>1, EventsTail
  <2>3. CASE ~HasEvent
    BY <1>1, <1>8, <2>1, <2>3 DEF Events
  <2> QED BY <2>2, <2>3
<1>10. use => manager[c] = "open" /\ Live(c, s) /\ FdOf(c, s) = x.fd
  <2>1. InUse(c, s) => manager[c] = "open" /\ Live(c, s)
    BY <1>1 DEF InUse, AtConnect
  <2> QED BY <1>0, <1>3, <2>1, InUseHolds
(* What the step has to show of the packets. *)
<1> DEFINE Sends == /\ Adds(c, s)
                    /\ use /\ e.fd = x.fd =>
                         \A y : Carries(e.data, y) => SentBefore(got, new, s, Len(new) + 1, y)
                    /\ use /\ closing2 => e.fd = x.fd /\ e.to_close
<1>11. ASSUME Sends PROVE EndOf(k, x, got, new, Events', use, closing2)
  <2>1. PICK more \in Seq(Packet) : new = out \o more /\ \A i \in DOMAIN more : more[i] # Close("0x02", s)
    BY <1>11 DEF Adds
  <2>2. PICK ev \in Seq(Lambda) : ev = Events
    BY <1>9
  <2>3. PICK ev2 : ev2 = Events'
    OBVIOUS
  <2>4. /\ use /\ e.fd = x.fd => \A y : Carries(e.data, y) => SentBefore(got, new, s, Len(new) + 1, y)
        /\ use /\ closing2 => e.fd = x.fd /\ e.to_close
    BY <1>11
  <2> HIDE DEF x, got, out, new, e, Sends
  <2>5. StaysSent(got, out, got, new, s) /\ StaysLast(got, out, got, new, s)
    BY ONLY <1>8, <2>1, QueueGrows
  <2>6. /\ 1 \in DOMAIN ev /\ ev[1] = e
        /\ DOMAIN ev \subseteq Nat /\ DOMAIN ev2 \subseteq Nat \ {0}
        /\ \A j \in DOMAIN ev : j = 1 \/ (j - 1 \in DOMAIN ev2 /\ ev2[j - 1] = ev[j])
        /\ \A i \in DOMAIN ev2 : i + 1 \in DOMAIN ev /\ ev2[i] = ev[i + 1]
    <3>1. ev # <<>> /\ Head(ev) = e /\ ev2 = Tail(ev)
      BY <1>9, <2>2, <2>3
    <3> QED BY ONLY ev \in Seq(Lambda), <3>1, EventsShift
  <2>7. EndOf(k, x, got, out, ev, use, closing) /\ x.s = s
    BY <1>0, <1>6, <2>2
  <2>8. EndOf(k, x, got, new, ev2, use, closing2)
    BY ONLY use \in BOOLEAN, closing \in BOOLEAN, closing2 \in BOOLEAN, <2>4, <2>5, <2>6, <2>7, EndForwards
  <2> QED BY <2>3, <2>8
<1>12. CASE Owners(e.fd) = {} /\ UNCHANGED ws /\ loop' = [at |-> "finish"]
  <2>1. ~closing2
    BY <1>5, <1>12 DEF Closing
  <2>2. ~(use /\ e.fd = x.fd)
    <3>1. use /\ e.fd = x.fd => <<c, s>> \in Owners(e.fd)
      BY <1>10 DEF Owners, watched_sockets, FdOf
    <3> QED BY <1>12, <3>1
  <2> QED BY <1>11, <1>12, <2>1, <2>2, NothingAdds
<1>13. ASSUME NEW d \in Conn, NEW t \in StreamId, <<d, t>> \in Owners(e.fd), SendTo(d, <<Data(t, e.data)>>),
              \/ ~e.to_close /\ loop' = [at |-> "finish"]
              \/ e.to_close /\ loop' = [at |-> "close", c |-> d, s |-> t]
       PROVE  EndOf(k, x, got, new, Events', use, closing2)
  <2> PICK p : p = Data(t, e.data)
    OBVIOUS
  <2>1. p \in Packet /\ p.type = "DATA" /\ p.stream = t /\ p.data = e.data
    <3>1. e.data \in Seq(Chunk)
      BY <1>8 DEF Lambda
    <3> QED BY <3>1, PlainTypes DEF Data
  <2>2. p # Close("0x02", s)
    BY <2>1 DEF Close
  <2>3. /\ \A h \in Conn : h # d => ws'[h] = ws[h]
        /\ ws'[d].out = ws[d].out \/ ws'[d].out = ws[d].out \o <<p>>
        /\ manager[d] = "open" => ws'[d].out = ws[d].out \o <<p>>
    BY <1>13, <2>1, SendOne DEF NothingDropped
  <2>4. Adds(c, s)
    BY <2>1, <2>2, <2>3, NothingAdds, OneAdds
  <2>5. Live(d, t) /\ FdOf(d, t) = e.fd
    BY <1>13, OwnerOpen
  <2>6. use /\ e.fd = x.fd => d = c /\ t = s
    BY <1>10, <2>5 DEF Ownership, OneOwner
  <2>7. closing2 => e.to_close /\ d = c /\ t = s
    <3>1. CASE ~e.to_close /\ loop' = [at |-> "finish"]
      <4>1. loop'.at # "close"
        BY ONLY <3>1
      <4> QED BY <1>5, <4>1 DEF Closing
    <3>2. CASE e.to_close /\ loop' = [at |-> "close", c |-> d, s |-> t]
      <4>1. loop'.c = d /\ loop'.s = t
        BY ONLY <3>2
      <4> QED BY <1>5, <3>2, <4>1 DEF Closing
    <3> QED BY <1>13, <3>1, <3>2
  <2>8. use /\ closing2 => e.fd = x.fd
    BY <1>10, <2>5, <2>7
  <2>9. ASSUME use, e.fd = x.fd, NEW y, Carries(e.data, y) PROVE SentBefore(got, new, s, Len(new) + 1, y)
    <3>1. new = out \o <<p>> /\ p.stream = s
      BY <1>10, <2>1, <2>3, <2>6, <2>9
    <3>2. Len(new) = Len(out) + 1 /\ Len(out) + 1 \in DOMAIN new /\ new[Len(out) + 1] = p /\ Len(out) \in Nat
      BY <1>8, <2>1, <3>1
    <3>3. Len(out) + 1 < Len(new) + 1 /\ IsData(new[Len(out) + 1], s) /\ Carries(new[Len(out) + 1].data, y)
      BY <2>1, <2>9, <3>1, <3>2 DEF IsData
    <3> QED BY ONLY <3>2, <3>3 DEF SentBefore
  <2>10. Sends
    BY <2>4, <2>7, <2>8, <2>9
  <2> QED BY <1>11, <2>10
<1> QED BY <1>1, <1>12, <1>13

(* Its close_stream. *)
LEMMA EndClosed ==
  ASSUME TypeOK, TypeOK', Ownership, Numbers, OneSocket, NothingDropped, NothingDropped',
         NEW c \in Conn, NEW s \in StreamId, NEW k, Follows(k, c, s), DeferredClose
  PROVE  EndFor(k, c, s)'
<1> USE DEF mgrVars, deferVars, kernelVars, poolVars, netVars
<1>0. k \in DOMAIN sock /\ sock[k].c = c /\ sock[k].s = s /\ OwnNumber(k) /\ EndFor(k, c, s)
  BY DEF Follows
<1>1. /\ loop.at = "close" /\ loop' = [at |-> "finish"] /\ SendTo(loop.c, <<Close("0x02", loop.s)>>)
      /\ streams' = [streams EXCEPT ![loop.c][loop.s] = NoStream]
      /\ UNCHANGED <<manager, deferred, watcher, sock, client>>
  BY Zenon DEF DeferredClose, close_stream, CloseFd, Uncount
<1>2. PICK d \in Conn : d = loop.c
  BY <1>1 DEF TypeOK, LoopState
<1>3. PICK t \in StreamId : t = loop.s
  BY <1>1 DEF TypeOK, LoopState
<1>4. Live(d, t)
  BY <1>1, <1>2, <1>3 DEF Ownership, LoopOwns
<1>5. manager[d] \in {"open", "closing"}
  BY <1>4 DEF Ownership, EntriesOpen, watched_sockets
<1>6. PICK p \in Packet : p = Close("0x02", t)
  BY PlainTypes
<1>7. /\ \A h \in Conn : h # d => ws'[h] = ws[h]
      /\ ws'[d].out = ws[d].out \/ ws'[d].out = ws[d].out \o <<p>>
      /\ manager[d] = "closing" => ws'[d].out = ws[d].out
      /\ manager[d] = "open" => ws'[d].out = ws[d].out \o <<p>>
  <2>1. SendTo(d, <<p>>)
    BY <1>1, <1>2, <1>3, <1>6
  <2> QED BY <2>1, SendOne DEF NothingDropped
<1>8. Events' = Events /\ Onward(sock, sock')
  BY <1>1 DEF Events, HasEvent, Onward
<1>9. loop'.at = "finish"
  BY <1>1
<1>10. ~Closing(c, s)' /\ (InUse(c, s)' => Live(c, s)')
  BY <1>9 DEF Closing, InUse, AtConnect
<1>11. Live(c, s)' => Live(c, s) /\ ~(c = d /\ s = t)
  BY <1>1, <1>2, <1>3 DEF Live, TypeOK
<1>12. InUse(c, s)' => InUse(c, s)
  BY <1>1, <1>10, <1>11 DEF InUse
<1>13. CASE ~(c = d /\ s = t) \/ manager[d] = "closing"
  <2>1. Adds(c, s)
    <3>1. CASE ws'[c].out = ws[c].out
      BY <3>1, NothingAdds
    <3>2. CASE ws'[c].out # ws[c].out
      <4>1. c = d /\ s # t /\ ws'[c].out = ws[c].out \o <<p>>
        BY <1>7, <1>13, <3>2
      <4>2. p # Close("0x02", s)
        BY <1>6, <4>1 DEF Close
      <4> QED BY <4>1, <4>2, OneAdds
    <3> QED BY <3>1, <3>2
  <2> QED BY <1>0, <1>1, <1>8, <1>10, <1>12, <2>1, EndQuiet
<1>14. CASE c = d /\ s = t /\ manager[d] = "open"
  <2>1. InUse(c, s) /\ Closing(c, s) /\ ~InUse(c, s)'
    BY <1>1, <1>2, <1>3, <1>4, <1>10, <1>11, <1>14 DEF InUse, Closing
  <2>2. EndOf(k, sock[k], client[c].got[s], ws[c].out, Events, TRUE, TRUE)
    BY <1>0, <2>1, Zenon DEF EndFor
  <2>3. ws[c].out \in Seq(Packet) /\ Close("0x02", sock[k].s) \in Packet
    BY <1>0, PlainTypes, StreamTypes
  <2>4. ws'[c].out = ws[c].out \o <<Close("0x02", sock[k].s)>>
    BY <1>0, <1>6, <1>7, <1>14
  <2>5. FALSE \in BOOLEAN
    OBVIOUS
  <2>6. EndOf(k, sock[k], client[c].got[s], ws'[c].out, Events', FALSE, FALSE)
    BY ONLY <2>2, <2>3, <2>4, <2>5, EndCloses
  <2>7. ClosedLast(k, sock[k], client[c].got[s], ws'[c].out)
    BY <2>6 DEF EndOf
  <2>8. PICK use : use = InUse(c, s)'
    OBVIOUS
  <2>9. PICK closing : closing = Closing(c, s)'
    OBVIOUS
  <2>10. ~use
    BY <2>1, <2>8
  <2>11. EndOf(k, sock'[k], client'[c].got[s], ws'[c].out, Events', use, closing)
    BY ONLY <1>1, <2>7, <2>10, Zenon DEF EndOf
  <2> QED BY ONLY <2>8, <2>9, <2>11, Zenon DEF EndFor
<1> QED BY <1>5, <1>13, <1>14

(* The client takes a packet. *)
LEMMA EndReceive ==
  ASSUME TypeOK, NEW c \in Conn, NEW s \in StreamId, NEW k, Follows(k, c, s), NEW d \in Conn, ClientReceive(d)
  PROVE  EndFor(k, c, s)'
<1>0. k \in DOMAIN sock /\ sock[k].s = s /\ EndFor(k, c, s)
  BY DEF Follows
<1>1. /\ UNCHANGED <<manager, streams, loop, deferred, watcher, sock>>
      /\ ws[d].out # <<>> /\ ws'[d].out = Tail(ws[d].out)
      /\ \A h \in Conn : h # d => ws'[h] = ws[h] /\ client'[h] = client[h]
      /\ \A t \in StreamId : client'[d].got[t] =
           IF IsData(Head(ws[d].out), t) THEN client[d].got[t] \o Head(ws[d].out).data
           ELSE client[d].got[t]
  BY ReceiveForms, Zenon
<1>2. Events' = Events /\ Onward(sock, sock')
  BY <1>1 DEF Events, HasEvent, Onward
<1>3. InUse(c, s)' = InUse(c, s) /\ Closing(c, s)' = Closing(c, s)
  BY <1>1 DEF InUse, Closing, AtConnect, Live
<1>4. CASE d # c
  BY <1>0, <1>1, <1>2, <1>3, <1>4, NothingAdds, EndQuiet
<1>5. CASE d = c
  <2> DEFINE got == client[c].got[s]
             now == client'[c].got[s]
  <2>1. PICK out \in Seq(Packet) : out = ws[c].out
    BY StreamTypes
  <2>2. out # <<>> /\ ws'[c].out = Tail(out) /\ now = IF IsData(Head(out), s) THEN got \o Head(out).data ELSE got
    BY <1>1, <1>5, <2>1
  <2>3. got \in Seq(Chunk)
    BY StreamTypes
  <2>4. StaysSent(got, out, now, Tail(out), s) /\ StaysLast(got, out, now, Tail(out), s)
    BY ONLY out \in Seq(Packet), s \in StreamId, <2>2, <2>3, QueueTaken
  <2>5. PICK use \in BOOLEAN : use = InUse(c, s)
    BY DEF InUse
  <2>6. PICK closing \in BOOLEAN : closing = Closing(c, s)
    BY DEF Closing
  <2>7. EndOf(k, sock[k], got, out, Events, use, closing)
    BY <1>0, <2>1, <2>5, <2>6, Zenon DEF EndFor
  <2>8. EventsKept(Events, Events, sock[k])
    BY EventsKeptSame
  <2>9. PICK x : x = sock[k]
    OBVIOUS
  <2>10. EndOf(k, x, now, Tail(out), Events, use, closing)
    <3>1. EndOf(k, x, got, out, Events, use, closing) /\ EventsKept(Events, Events, x) /\ x.s = s
      BY <1>0, <2>7, <2>8, <2>9
    <3> QED BY ONLY use \in BOOLEAN, closing \in BOOLEAN, <2>4, <3>1, EndStays
  <2> QED BY <1>1, <1>2, <1>3, <2>2, <2>5, <2>6, <2>9, <2>10, Zenon DEF EndFor
<1> QED BY <1>4, <1>5

(* The websocket of a client is closed. *)
LEMMA EndGone ==
  ASSUME TypeOK, NEW c \in Conn, NEW s \in StreamId, NEW k, Follows(k, c, s), NEW d \in Conn, WsClosed(d)
  PROVE  EndFor(k, c, s)'
<1> USE DEF mgrVars, deferVars, kernelVars, poolVars, netVars
<1>0. k \in DOMAIN sock /\ sock[k].s = s /\ EndFor(k, c, s)
  BY DEF Follows
<1>1. /\ UNCHANGED <<streams, deferred, watcher, sock>>
      /\ manager' = [manager EXCEPT ![d] = "closing"]
      /\ ws' = [ws EXCEPT ![d] = [out |-> <<>>, backlog |-> 0]]
      /\ client' = [client EXCEPT ![d] = InitClient]
      /\ \E t : loop' = [at |-> "force", c |-> d, todo |-> t]
  BY Zenon DEF WsClosed
<1>2. Events' = Events /\ Onward(sock, sock')
  BY <1>1 DEF Events, HasEvent, Onward
<1>3. loop'.at = "force"
  BY <1>1
<1>4. manager'[d] = "closing" /\ ws'[d].out = <<>>
  BY <1>1 DEF TypeOK
<1>5. \A h \in Conn : h # d => manager'[h] = manager[h] /\ ws'[h] = ws[h] /\ client'[h] = client[h]
  BY <1>1 DEF TypeOK
<1>6. ~Closing(c, s)'
  BY <1>3 DEF Closing
<1>7. CASE d # c
  <2>1. InUse(c, s)' => InUse(c, s)
    BY <1>1, <1>3, <1>5, <1>7 DEF InUse, AtConnect, Live
  <2> QED BY <1>0, <1>1, <1>2, <1>5, <1>6, <1>7, <2>1, NothingAdds, EndQuiet
<1>8. CASE d = c
  <2>1. ~InUse(c, s)'
    BY <1>4, <1>8 DEF InUse
  <2>2. PICK out : out = ws'[c].out
    OBVIOUS
  <2>3. PICK use : use = InUse(c, s)'
    OBVIOUS
  <2>4. PICK closing : closing = Closing(c, s)'
    OBVIOUS
  <2>5. out = <<>> /\ ~use
    BY <1>4, <1>8, <2>1, <2>2, <2>3
  <2>6. ClosedLast(k, sock'[k], client'[c].got[s], out)
    BY ONLY <2>5 DEF ClosedLast
  <2>7. EndOf(k, sock'[k], client'[c].got[s], out, Events', use, closing)
    BY ONLY <2>5, <2>6, Zenon DEF EndOf
  <2> QED BY ONLY <2>2, <2>3, <2>4, <2>7, Zenon DEF EndFor
<1> QED BY <1>7, <1>8

(* A target sends. *)
LEMMA EndTarget ==
  ASSUME TypeOK, NEW c \in Conn, NEW s \in StreamId, NEW k, Follows(k, c, s), NEW j \in DOMAIN sock, TargetSend(j)
  PROVE  EndFor(k, c, s)'
<1> USE DEF mgrVars, deferVars, kernelVars, poolVars, netVars
<1>0. k \in DOMAIN sock /\ sock[k].s = s /\ EndFor(k, c, s) /\ sock[k] \in Socket
  BY DEF Follows, TypeOK
<1>1. /\ UNCHANGED <<manager, streams, loop, deferred, watcher, ws, client>> /\ ~sock[j].eof
      /\ sock' = [sock EXCEPT ![j].sent = @ + 1, ![j].inq = Append(@, sock[j].sent + 1)]
  BY Zenon DEF TargetSend
<1>2. Events' = Events
  BY <1>1 DEF Events, HasEvent
<1>3. InUse(c, s)' = InUse(c, s) /\ Closing(c, s)' = Closing(c, s)
  BY <1>1 DEF InUse, Closing, AtConnect, Live
<1>4. CASE j # k
  <2>1. sock'[k] = sock[k] /\ Onward(sock, sock')
    <3>1. sock \in Seq(Socket)
      BY DEF TypeOK
    <3> QED BY <1>0, <1>1, <1>4, <3>1, OnwardForms DEF SameOnward
  <2> QED BY <1>0, <1>1, <1>2, <1>3, <2>1, NothingAdds, EndQuiet
<1>5. CASE j = k
  <2>1. PICK x \in Socket : x = sock[k]
    BY <1>0
  <2>2. PICK y : y = sock'[k]
    OBVIOUS
  <2>3. y.s = x.s /\ y.fd = x.fd /\ y.sent = x.sent + 1 /\ y.inq = Append(x.inq, x.sent + 1) /\ ~x.eof
    BY <1>0, <1>1, <1>5, <2>1, <2>2 DEF Socket
  <2>4. PICK use \in BOOLEAN : use = InUse(c, s)
    BY DEF InUse
  <2>5. PICK closing \in BOOLEAN : closing = Closing(c, s)
    BY DEF Closing
  <2>6. EndOf(k, x, client[c].got[s], ws[c].out, Events, use, closing)
    BY <1>0, <2>1, <2>4, <2>5, Zenon DEF EndFor
  <2>7. EndOf(k, y, client[c].got[s], ws[c].out, Events, use, closing)
    BY ONLY x \in Socket, use \in BOOLEAN, closing \in BOOLEAN, <2>3, <2>6, EndSends
  <2> QED BY <1>1, <1>2, <1>3, <2>2, <2>4, <2>5, <2>7, Zenon DEF EndFor
<1> QED BY <1>4, <1>5

(* A socket is new: nothing can be left of an earlier one with its number. *)
LEMMA EndOpened ==
  ASSUME Conforming, TypeOK, Flow, Numbers, NEW c \in Conn, NEW s \in StreamId, NEW type \in Asked,
         RecvConnect(c, s, type), NEW fd \in Fd, NEW k, Opens(c, s, fd, k), OwnNumber(k)'
  PROVE  EndFor(k, c, s)'
<1>1. UNCHANGED <<deferred, watcher>> /\ client[c].state[s] = "unused" /\ manager[c] = "open"
  BY Zenon DEF RecvConnect, deferVars
<1>2. /\ k \notin DOMAIN sock /\ DOMAIN sock' = DOMAIN sock \cup {k} /\ \A j \in DOMAIN sock : sock'[j] = sock[j]
      /\ sock'[k].s = s /\ sock'[k].fd = fd /\ sock'[k].sent = 0 /\ loop'.at = "connect" /\ UNCHANGED ws
  BY DEF Opens
<1>3. fd \notin Named
  BY <1>2 DEF Numbers, Connected, OwnNumber
<1>4. Events' = Events
  BY <1>1 DEF Events, HasEvent
<1>5. \A i \in DOMAIN Events : Events[i].fd # fd
  <2>1. (\A i \in DOMAIN deferred : deferred[i].fd # fd) /\ (HasEvent => watcher.e.fd # fd)
    BY <1>3 DEF Named
  <2>2. deferred \in Seq(Lambda) /\ (HasEvent => watcher.e \in Lambda)
    BY DEF TypeOK, HasEvent, WatcherState
  <2>3. \A q \in Seq(Lambda), e \in Lambda : \A i \in DOMAIN Append(q, e) : Append(q, e)[i] = e \/ (i \in DOMAIN q /\ Append(q, e)[i] = q[i])
    OBVIOUS
  <2> QED BY <2>1, <2>2, <2>3 DEF Events
<1>6. ~Closing(c, s)'
  BY <1>2 DEF Closing
<1>7. \A i \in DOMAIN ws[c].out : ws[c].out[i] # Close("0x02", s)
  <2>1. ~Has(ws[c].out, s, "CLOSE")
    BY <1>1 DEF Flow, QueueFlow
  <2> QED BY <2>1, PacketFields DEF Has
<1>8. PICK x : x = sock'[k]
  OBVIOUS
<1>9. PICK out : out = ws'[c].out
  OBVIOUS
<1>10. PICK ev : ev = Events'
  OBVIOUS
<1>11. PICK use : use = InUse(c, s)'
  OBVIOUS
<1>12. PICK closing : closing = Closing(c, s)'
  OBVIOUS
<1>13. /\ x.s = s /\ x.fd = fd /\ x.sent = 0 /\ ~closing
       /\ (\A i \in DOMAIN ev : ev[i].fd # fd) /\ (\A i \in DOMAIN out : out[i] # Close("0x02", s))
  BY <1>2, <1>4, <1>5, <1>6, <1>7, <1>8, <1>9, <1>10, <1>12
<1>14. Reaches(k, x, client'[c].got[s], out, ev)
  BY ONLY <1>13 DEF Reaches
<1>15. EndsLast(x, ev)
  BY ONLY <1>13 DEF EndsLast
<1>16. ClosedLast(k, x, client'[c].got[s], out)
  BY ONLY <1>13 DEF ClosedLast
<1>17. EndOf(k, x, client'[c].got[s], out, ev, use, closing)
  BY ONLY <1>13, <1>14, <1>15, <1>16, Zenon DEF EndOf
<1> QED BY ONLY <1>8, <1>9, <1>10, <1>11, <1>12, <1>17, Zenon DEF EndFor

(* Socket k has as much to be read as before. *)
SameUnsent(q, r, k) == r[k].sent = q[k].sent /\ r[k].inq = q[k].inq

(* The other steps of the loop thread, of the callbacks and of the pool    *)
(* threads leave the events and what is unread alone.                      *)
LEMMA EndOthers ==
  ASSUME TypeOK, NEW c \in Conn, NEW s \in StreamId, NEW k, Follows(k, c, s), Onward(sock, sock'),
         SameUnsent(sock, sock', k), GotKept, OnlyPlain, UNCHANGED <<deferred, watcher>>,
         UseKept, \A fd \in Fd : \A j : ~Opens(c, s, fd, j), loop'.at = "close" => UNCHANGED loop
  PROVE  EndFor(k, c, s)'
<1>1. k \in DOMAIN sock /\ sock[k].s = s /\ EndFor(k, c, s)
  BY DEF Follows
<1>2. client'[c].got[s] = client[c].got[s] /\ Adds(c, s)
  BY PlainAdds DEF GotKept
<1>3. Events' = Events
  BY DEF Events, HasEvent
<1>4. (InUse(c, s)' => InUse(c, s)) /\ (Closing(c, s)' => Closing(c, s))
  BY DEF UseKept, Closing
<1> QED BY <1>1, <1>2, <1>3, <1>4, EndQuiet DEF SameUnsent

LEMMA UnsentForms ==
  ASSUME NEW q \in Seq(Socket), NEW r, NEW k \in DOMAIN q
  PROVE  /\ r = q => SameUnsent(q, r, k)
         /\ \A j : r = [q EXCEPT ![j].eof = TRUE] => SameUnsent(q, r, k)
         /\ \A j, t : r = [q EXCEPT ![j].rx = Append(@, t)] => SameUnsent(q, r, k)
<1>1. q[k] \in Socket
  OBVIOUS
<1>2. r = q => SameUnsent(q, r, k)
  BY DEF SameUnsent
<1>3. ASSUME NEW j, r = [q EXCEPT ![j].eof = TRUE] PROVE SameUnsent(q, r, k)
  BY <1>1, <1>3 DEF SameUnsent, Socket
<1>4. ASSUME NEW j, NEW t, r = [q EXCEPT ![j].rx = Append(@, t)] PROVE SameUnsent(q, r, k)
  BY <1>1, <1>4 DEF SameUnsent, Socket
<1> QED BY <1>2, <1>3, <1>4, Zenon

LEMMA EndLoopStep ==
  ASSUME TypeOK, TypeOK', Ownership, Numbers, OneSocket, OneSocket', NothingDropped, NothingDropped',
         NEW c \in Conn, NEW s \in StreamId, NEW k, Follows(k, c, s), Onward(sock, sock'), LoopStep
  PROVE  EndFor(k, c, s)'
<1> USE DEF mgrVars, deferVars, kernelVars, poolVars, netVars
<1>1. CASE RunDeferred
  BY <1>1, EndDeferred
<1>2. CASE DeferredClose
  BY <1>2, EndClosed
<1>3. CASE OnlyPlain /\ ~RunDeferred /\ ~DeferredClose
  <2>1. UNCHANGED <<deferred, watcher>> /\ (UNCHANGED sock \/ \E j : sock' = [sock EXCEPT ![j].eof = TRUE])
    BY <1>3, Zenon DEF LoopStep, ConnectFails, ConnectSucceeds, ConnectInsert, Wake,
         Finish, UpdateNext, ForceClose, close_stream, CloseFd, Destruct
  <2>2. sock \in Seq(Socket) /\ k \in DOMAIN sock
    BY DEF TypeOK, Follows
  <2>3. SameUnsent(sock, sock', k)
    BY ONLY <2>1, <2>2, UnsentForms, Zenon
  <2>4. DOMAIN sock' = DOMAIN sock
    BY <2>1
  <2>5. \A fd \in Fd : \A j : ~Opens(c, s, fd, j)
    BY <2>4 DEF Opens
  <2> QED BY <1>3, <2>1, <2>3, <2>5, LoopSends, UseLoop, EndOthers
<1> QED BY <1>1, <1>2, <1>3, LoopSends

LEMMA EndThreads ==
  ASSUME TypeOK, NEW c \in Conn, NEW s \in StreamId, NEW k, Follows(k, c, s), Onward(sock, sock'),
         (\E w \in Worker : WorkerStep(w)) \/ UNCHANGED vars \/ Resting
  PROVE  EndFor(k, c, s)'
<1> USE DEF mgrVars, deferVars, kernelVars, poolVars, netVars
<1>1. UNCHANGED <<manager, streams, loop, ws, client>>
  BY ThreadsSendNothing
<1>2. UNCHANGED <<deferred, watcher>> /\ (UNCHANGED sock \/ \E j, t : sock' = [sock EXCEPT ![j].rx = Append(@, t)])
  BY Zenon DEF WorkerStep, WorkerPop, WorkerLock, WorkerNoStream, WorkerNoManager,
         WorkerWrite, WorkerSigpipe, vars, Resting
<1>3. sock \in Seq(Socket) /\ k \in DOMAIN sock
  BY DEF TypeOK, Follows
<1>4. SameUnsent(sock, sock', k)
  BY ONLY <1>2, <1>3, UnsentForms, Zenon
<1>5. DOMAIN sock' = DOMAIN sock
  BY <1>2
<1>6. \A fd \in Fd : \A j : ~Opens(c, s, fd, j)
  BY <1>5 DEF Opens
<1>7. UseKept
  BY <1>1, UseSame DEF SameEntries
<1>8. GotKept /\ OnlyPlain
  BY <1>1, UnsentPlain DEF GotKept
<1> QED BY <1>1, <1>2, <1>4, <1>6, <1>7, <1>8, EndOthers

LEMMA EndOutside ==
  ASSUME TypeOK, TypeOK', Ownership, OneSocket',
         NEW c \in Conn, NEW s \in StreamId, NEW k, Follows(k, c, s), Onward(sock, sock'), Outside
  PROVE  EndFor(k, c, s)'
<1> USE DEF mgrVars, deferVars, kernelVars, poolVars, netVars
<1>1. ASSUME NEW d \in Conn, WsClosed(d) \/ ClientReceive(d) PROVE EndFor(k, c, s)'
  BY <1>1, EndGone, EndReceive
<1>2. ASSUME NEW j \in DOMAIN sock, TargetSend(j) PROVE EndFor(k, c, s)'
  BY <1>2, EndTarget
<1>3. k \in DOMAIN sock /\ sock[k].c = c /\ sock[k].s = s /\ sock \in Seq(Socket)
  BY DEF TypeOK, Follows
<1>4. \A fd \in Fd : \A j : ~Opens(c, s, fd, j)
  <2> SUFFICES ASSUME NEW fd \in Fd, NEW j, Opens(c, s, fd, j) PROVE FALSE
    OBVIOUS
  <2>1. j \in DOMAIN sock' /\ j \notin DOMAIN sock /\ sock'[j].c = c /\ sock'[j].s = s
    BY DEF Opens
  <2>2. k \in DOMAIN sock' /\ sock'[k].c = c /\ sock'[k].s = s
    BY <1>3 DEF Onward
  <2>3. j = k
    BY <2>1, <2>2 DEF OneSocket
  <2> QED BY <1>3, <2>1, <2>3
<1>5. ASSUME GotKept, OnlyPlain, UNCHANGED <<deferred, watcher>>,
             SameUnsent(sock, sock', k)
      PROVE  EndFor(k, c, s)'
  BY <1>4, <1>5, UseOutside, EndOthers
<1>6. ASSUME GotKept, OnlyPlain, UNCHANGED <<deferred, watcher>>,
             UNCHANGED sock \/ \E j : sock' = [sock EXCEPT ![j].eof = TRUE]
      PROVE  EndFor(k, c, s)'
  <2>1. SameUnsent(sock, sock', k)
    BY ONLY <1>3, <1>6, UnsentForms, Zenon
  <2> QED BY <1>5, <1>6, <2>1
<1>7. CASE GotKept /\ OnlyPlain
  <2>1. ASSUME NEW d \in Conn, Open(d) \/ Drain(d) PROVE EndFor(k, c, s)'
    <3>1. UNCHANGED <<deferred, watcher, sock>>
      BY <2>1, Zenon DEF Open, Drain
    <3> QED BY <1>6, <1>7, <3>1
  <2>2. ASSUME NEW d \in Conn, NEW t \in StreamId, RecvData(d, t) \/ RecvClose(d, t) PROVE EndFor(k, c, s)'
    <3>1. UNCHANGED <<deferred, watcher, sock>>
      BY <2>2, Zenon DEF RecvData, RecvClose
    <3> QED BY <1>6, <1>7, <3>1
  <2>3. ASSUME NEW d \in Conn, NEW t \in StreamId, NEW type \in Asked, RecvConnect(d, t, type)
        PROVE  EndFor(k, c, s)'
    <3>1. UNCHANGED <<deferred, watcher>> /\ (UNCHANGED sock \/ \E fd \in Fd : \E j : Opens(d, t, fd, j))
      BY <2>3, ConnectForms
    <3>2. sock'[k] = sock[k]
      BY <1>3, <3>1 DEF Opens
    <3> QED BY <1>5, <1>7, <3>1, <3>2 DEF SameUnsent
  <2>4. ASSUME NEW j \in DOMAIN sock, TargetClose(j) PROVE EndFor(k, c, s)'
    <3>1. UNCHANGED <<deferred, watcher>> /\ sock' = [sock EXCEPT ![j].eof = TRUE]
      BY <2>4, Zenon DEF TargetClose
    <3> QED BY <1>6, <1>7, <3>1
  <2> QED BY <1>1, <1>2, <2>1, <2>2, <2>3, <2>4, Zenon DEF Outside
<1> QED BY <1>1, <1>7, OutsideSends

LEMMA EndStep ==
  ASSUME Conforming, TypeOK, TypeOK', Ownership, StuckOnSocket, Numbers, OneSocket, OneSocket', Flow,
         NothingDropped, NothingDropped', EndLine, [Next]_vars
  PROVE  EndLine'
<1> SUFFICES ASSUME NEW c \in Conn, NEW s \in StreamId, NEW k \in DOMAIN sock',
                    OwnNumber(k)', sock'[k].c = c, sock'[k].s = s
             PROVE  EndFor(k, c, s)'
  BY DEF EndLine
<1>1. /\ Onward(sock, sock')
      /\ \/ DOMAIN sock' = DOMAIN sock
         \/ \E d \in Conn, t \in StreamId, type \in Asked : RecvConnect(d, t, type)
  BY SocketsOnward DEF Next
<1>2. CASE k \in DOMAIN sock
  <2>1. sock[k].c = c /\ sock[k].s = s /\ OwnNumber(k)
    BY <1>1, <1>2 DEF Onward, OwnNumber
  <2>2. Follows(k, c, s)
    BY <1>2, <2>1 DEF EndLine, Follows
  <2>3. CASE LoopStep
    BY <1>1, <2>2, <2>3, EndLoopStep
  <2>4. CASE WatcherStep
    BY <2>2, <2>4, EndWatcher
  <2>5. CASE (\E w \in Worker : WorkerStep(w)) \/ UNCHANGED vars \/ Resting
    BY <1>1, <2>2, <2>5, EndThreads
  <2>6. CASE Outside
    BY <1>1, <2>2, <2>6, EndOutside
  <2> QED BY <2>3, <2>4, <2>5, <2>6, Zenon DEF Next
<1>3. CASE k \notin DOMAIN sock
  <2>1. PICK d \in Conn, t \in StreamId, type \in Asked : RecvConnect(d, t, type)
    BY <1>1, <1>3
  <2>2. PICK fd \in Fd : \E j : Opens(d, t, fd, j)
    BY <1>3, <2>1, ConnectForms
  <2>3. PICK j : Opens(d, t, fd, j)
    BY <2>2
  <2>4. j = k /\ d = c /\ t = s
    BY <1>3, <2>3 DEF Opens
  <2> QED BY <2>1, <2>3, <2>4, EndOpened
<1> QED BY <1>2, <1>3

(* With clients that follow the protocol, and as long as uWebSockets drops *)
(* nothing, the CLOSE that answers a target's end comes after all that     *)
(* target sent: the watcher reads to the end before it reports it, the     *)
(* lambda sends its data before it closes the stream, and neither is       *)
(* overtaken (SystemWatcher::watch, websocketManager.cpp).  A descriptor   *)
(* number that has been used twice is excepted: there it can fail.         *)
THEOREM ClosesLast ==
  ASSUME Conforming
  PROVE  Spec /\ []NothingDropped => []CloseIsLast
<1>1. Init => EndLine
  <2>1. Init => DOMAIN sock = {}
    BY DEF Init
  <2> QED BY <2>1 DEF EndLine
<1>2. /\ TypeOK /\ TypeOK' /\ Ownership /\ StuckOnSocket /\ Numbers
      /\ (Conforming => OneSocket) /\ (Conforming => OneSocket)' /\ (Conforming => Flow)
      /\ NothingDropped /\ NothingDropped' /\ EndLine /\ [Next]_vars
      => EndLine'
  BY EndStep
<1>3. TypeOK /\ EndLine => CloseIsLast
  <2> SUFFICES ASSUME TypeOK, EndLine, NEW c \in Conn, NEW k \in DOMAIN sock, NEW i \in DOMAIN ws[c].out,
                      sock[k].c = c, OwnNumber(k), ws[c].out[i] = Close("0x02", sock[k].s)
               PROVE  /\ sock[k].eof
                      /\ \A n \in 1 .. sock[k].sent :
                           SentBefore(client[c].got[sock[k].s], ws[c].out, sock[k].s, i, [k |-> k, n |-> n])
    BY DEF CloseIsLast
  <2>1. sock[k].s \in StreamId
    <3>1. sock[k] \in Socket
      BY DEF TypeOK
    <3> QED BY <3>1 DEF Socket
  <2>2. EndFor(k, c, sock[k].s)
    BY <2>1 DEF EndLine
  <2>3. ClosedLast(k, sock[k], client[c].got[sock[k].s], ws[c].out)
    BY <2>2, Zenon DEF EndFor, EndOf
  <2> QED BY <2>3 DEF ClosedLast
<1> QED BY <1>1, <1>2, <1>3, TypeCorrect, OwnershipInvariant, NumbersInvariant, OneSocketInvariant,
           FlowInvariant, PTL DEF Spec
=============================================================================
