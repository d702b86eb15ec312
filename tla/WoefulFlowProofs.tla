-------------------------- MODULE WoefulFlowProofs --------------------------
(***************************************************************************)
(* What flows between the server and its clients, for any number of        *)
(* clients, streams and pool threads: backpressure, the credit of a TCP    *)
(* stream, the refinement of WispCredit, and the order of packets and of   *)
(* the payloads that clients send.                                         *)
(***************************************************************************)
EXTENDS WoefulProofs

----------------------------------------------------------------------------
(* The queue of packets to one client.                                     *)

(* A packet of stream s and type t is in queue q. *)
Has(q, s, t) == \E i \in DOMAIN q : q[i].stream = s /\ q[i].type = t

(* No more than one CONTINUE of stream s is. *)
One(q, s) == \A i, j \in DOMAIN q :
  (/\ q[i].stream = s /\ q[i].type = "CONTINUE"
   /\ q[j].stream = s /\ q[j].type = "CONTINUE") => i = j

(* Every CONTINUE gives the whole credit. *)
Whole(q) == \A i \in DOMAIN q : q[i].type = "CONTINUE" => q[i].buffer = BUFFER_COUNT

(* A CLOSE is the last packet of its stream. *)
Final(q) == \A i, j \in DOMAIN q : q[i].type = "CLOSE" /\ i < j => q[j].stream # q[i].stream

(* What uWebSockets takes is a part of what it is given, from the front;   *)
(* all of it, when there is room before and after.                         *)
LEMMA SendOut ==
  ASSUME NEW c, NEW w \in Websocket, NEW packets \in Seq(Packet)
  PROVE  \E sent \in Seq(Packet) :
           /\ Send(c, w, packets).out = w.out \o sent
           /\ \A i \in DOMAIN sent : i \in DOMAIN packets /\ sent[i] = packets[i]
           /\ /\ w.backlog <= MAX_BACKPRESSURE /\ manager[c] # "closing"
              /\ Send(c, w, packets).backlog <= MAX_BACKPRESSURE
              => sent = packets
           /\ manager[c] = "closing" => sent = <<>>
           /\ w.backlog <= Send(c, w, packets).backlog
<1> DEFINE room == IF w.backlog > MAX_BACKPRESSURE THEN 0
                   ELSE KernelRoom(w) + MAX_BACKPRESSURE + 1 - w.backlog
           n == IF Len(packets) <= room THEN Len(packets) ELSE room
           taken == Accepted(w, packets)
           kept == Len(taken) - KernelRoom(w)
<1>1. Len(packets) \in Nat /\ Len(w.out) \in Nat /\ w.backlog \in Nat /\ w.out \in Seq(Packet)
  BY DEF Websocket
<1>2. room \in Int /\ KernelRoom(w) \in Int
  BY <1>1, StateAssumption DEF KernelRoom
<1>3. taken = SubSeq(packets, 1, n) /\ taken \in Seq(Packet) /\ Len(taken) \in Nat
  BY AcceptedType DEF Accepted
<1>4. n \in Int /\ n <= Len(packets) /\ (n = Len(packets) \/ n = room)
  BY <1>1, <1>2
<1>5. CASE manager[c] = "closing"
  <2>1. Send(c, w, packets) = w
    BY <1>5 DEF Send
  <2>2. w.out = w.out \o <<>> /\ <<>> \in Seq(Packet)
    BY <1>1
  <2>3. DOMAIN <<>> = {} /\ w.backlog <= w.backlog
    BY <1>1
  <2> QED BY <1>5, <2>1, <2>2, <2>3
<1>6. CASE manager[c] # "closing"
  <2>1. /\ Send(c, w, packets).out = w.out \o taken
        /\ Send(c, w, packets).backlog = w.backlog + (IF kept > 0 THEN kept ELSE 0)
    BY <1>6 DEF Send
  <2> HIDE DEF taken, n
  <2>2. \A i \in DOMAIN taken : i \in DOMAIN packets /\ taken[i] = packets[i]
    BY <1>1, <1>3, <1>4
  <2>3. Len(taken) = IF n > 0 THEN n ELSE 0
    BY <1>1, <1>3, <1>4
  <2>4. ASSUME w.backlog <= MAX_BACKPRESSURE, Send(c, w, packets).backlog <= MAX_BACKPRESSURE
        PROVE  taken = packets
    <3>1. n = Len(packets)
      <4>1. ASSUME n = room PROVE FALSE
        <5>1. n = KernelRoom(w) + MAX_BACKPRESSURE + 1 - w.backlog
          BY <1>1, <2>4, <4>1, StateAssumption
        <5> QED BY <1>1, <1>2, <2>1, <2>3, <2>4, <5>1, StateAssumption
      <4> QED BY <1>4, <4>1
    <3> QED BY <1>1, <1>3, <3>1
  <2>5. w.backlog <= Send(c, w, packets).backlog
    BY <1>1, <1>2, <1>3, <2>1
  <2> QED BY <1>3, <1>6, <2>1, <2>2, <2>4, <2>5
<1> QED BY <1>5, <1>6

(* Packets are put at the end of the queue. *)
LEMMA Grown ==
  ASSUME NEW q \in Seq(Packet), NEW sent \in Seq(Packet)
  PROVE  /\ \A s, t : Has(q \o sent, s, t) <=> Has(q, s, t) \/ Has(sent, s, t)
         /\ \A s : /\ One(q, s) /\ One(sent, s)
                   /\ ~Has(q, s, "CONTINUE") \/ ~Has(sent, s, "CONTINUE")
                   => One(q \o sent, s)
         /\ Whole(q) /\ Whole(sent) => Whole(q \o sent)
         /\ /\ Final(q) /\ Final(sent)
            /\ \A s, t : Has(q, s, "CLOSE") => ~Has(sent, s, t)
            => Final(q \o sent)
<1> DEFINE r == q \o sent
<1>1. /\ r \in Seq(Packet) /\ Len(q) \in Nat /\ Len(sent) \in Nat /\ Len(r) = Len(q) + Len(sent)
      /\ DOMAIN r = 1..(Len(q) + Len(sent)) /\ DOMAIN q = 1..Len(q) /\ DOMAIN sent = 1..Len(sent)
      /\ \A i \in DOMAIN q : r[i] = q[i] /\ i \in DOMAIN r
      /\ \A i \in DOMAIN sent : Len(q) + i \in DOMAIN r /\ r[Len(q) + i] = sent[i]
  BY ConcatProperties
<1>2. ASSUME NEW i \in DOMAIN r
      PROVE  \/ i \in DOMAIN q /\ r[i] = q[i]
             \/ i - Len(q) \in DOMAIN sent /\ r[i] = sent[i - Len(q)] /\ i > Len(q)
  <2>1. CASE i \in DOMAIN q
    BY <1>1, <2>1
  <2>2. CASE i \notin DOMAIN q
    <3>1. i - Len(q) \in DOMAIN sent /\ Len(q) + (i - Len(q)) = i /\ i > Len(q)
      BY <1>1, <2>2
    <3> QED BY <1>1, <3>1
  <2> QED BY <2>1, <2>2
<1> HIDE DEF r
<1>3. \A s, t : Has(r, s, t) <=> Has(q, s, t) \/ Has(sent, s, t)
  <2> SUFFICES ASSUME NEW s, NEW t PROVE Has(r, s, t) <=> Has(q, s, t) \/ Has(sent, s, t)
    OBVIOUS
  <2>1. Has(r, s, t) => Has(q, s, t) \/ Has(sent, s, t)
    BY <1>2 DEF Has
  <2>2. Has(q, s, t) => Has(r, s, t)
    BY <1>1 DEF Has
  <2>3. Has(sent, s, t) => Has(r, s, t)
    BY <1>1 DEF Has
  <2> QED BY <2>1, <2>2, <2>3
<1>4. ASSUME NEW s, One(q, s), One(sent, s), ~Has(q, s, "CONTINUE") \/ ~Has(sent, s, "CONTINUE")
      PROVE  One(r, s)
  <2> SUFFICES ASSUME NEW i \in DOMAIN r, NEW j \in DOMAIN r,
                      r[i].stream = s, r[i].type = "CONTINUE",
                      r[j].stream = s, r[j].type = "CONTINUE"
               PROVE  i = j
    BY DEF One
  <2>1. CASE i \in DOMAIN q /\ j \in DOMAIN q
    BY <2>1, <1>1, <1>4 DEF One
  <2>2. CASE i \notin DOMAIN q /\ j \notin DOMAIN q
    <3>1. i - Len(q) = j - Len(q)
      BY <2>2, <1>2, <1>4 DEF One
    <3> QED BY <1>1, <3>1
  <2>3. CASE \/ i \in DOMAIN q /\ j \notin DOMAIN q
             \/ i \notin DOMAIN q /\ j \in DOMAIN q
    BY <2>3, <1>1, <1>2, <1>4 DEF Has
  <2> QED BY <2>1, <2>2, <2>3
<1>5. Whole(q) /\ Whole(sent) => Whole(r)
  BY <1>2 DEF Whole
<1>6. ASSUME Final(q), Final(sent), \A s, t : Has(q, s, "CLOSE") => ~Has(sent, s, t)
      PROVE  Final(r)
  <2> SUFFICES ASSUME NEW i \in DOMAIN r, NEW j \in DOMAIN r, r[i].type = "CLOSE", i < j,
                      r[j].stream = r[i].stream
               PROVE  FALSE
    BY DEF Final
  <2>1. CASE i \in DOMAIN q /\ j \in DOMAIN q
    BY <2>1, <1>1, <1>6 DEF Final
  <2>2. CASE i \notin DOMAIN q /\ j \notin DOMAIN q
    <3>1. i - Len(q) < j - Len(q)
      BY <1>1
    <3> QED BY <2>2, <3>1, <1>2, <1>6 DEF Final
  <2>3. CASE i \in DOMAIN q /\ j \notin DOMAIN q
    <3>1. Has(q, r[i].stream, "CLOSE") /\ Has(sent, r[i].stream, r[j].type)
      BY <2>3, <1>1, <1>2 DEF Has
    <3> QED BY <3>1, <1>6
  <2>4. CASE i \notin DOMAIN q /\ j \in DOMAIN q
    BY <2>4, <1>1
  <2> QED BY <2>1, <2>2, <2>3, <2>4
<1> QED BY <1>3, <1>4, <1>5, <1>6 DEF r

(* The client takes the packet at the front. *)
LEMMA Shrunk ==
  ASSUME NEW q \in Seq(Packet), q # <<>>
  PROVE  /\ Head(q) \in Packet /\ Head(q) = q[1] /\ 1 \in DOMAIN q
         /\ \A s, t : Has(Tail(q), s, t) => Has(q, s, t)
         /\ \A s, t : Has(q, s, t) /\ ~(Head(q).stream = s /\ Head(q).type = t) => Has(Tail(q), s, t)
         /\ \A s : One(q, s) => One(Tail(q), s)
         /\ \A s : One(q, s) /\ Head(q).stream = s /\ Head(q).type = "CONTINUE"
                     => ~Has(Tail(q), s, "CONTINUE")
         /\ Whole(q) => Whole(Tail(q))
         /\ Final(q) => Final(Tail(q))
<1>1. /\ Tail(q) \in Seq(Packet) /\ Len(q) \in Nat /\ DOMAIN q = 1..Len(q) /\ Len(q) > 0
      /\ DOMAIN Tail(q) = 1..(Len(q) - 1) /\ Head(q) = q[1] /\ 1 \in DOMAIN q /\ Head(q) \in Packet
      /\ \A i \in DOMAIN Tail(q) : i + 1 \in DOMAIN q /\ Tail(q)[i] = q[i + 1] /\ i \in Nat /\ i > 0
  BY HeadTailProperties
<1>2. ASSUME NEW i \in DOMAIN q, i # 1
      PROVE  i - 1 \in DOMAIN Tail(q) /\ Tail(q)[i - 1] = q[i]
  <2>1. i - 1 \in DOMAIN Tail(q) /\ (i - 1) + 1 = i
    BY <1>1, <1>2
  <2> QED BY <1>1, <2>1
<1>3. \A s, t : Has(Tail(q), s, t) => Has(q, s, t)
  BY <1>1, Zenon DEF Has
<1>4. \A s, t : Has(q, s, t) /\ ~(Head(q).stream = s /\ Head(q).type = t) => Has(Tail(q), s, t)
  BY <1>1, <1>2, Zenon DEF Has
<1>5. ASSUME NEW s, One(q, s) PROVE One(Tail(q), s)
  <2> SUFFICES ASSUME NEW i \in DOMAIN Tail(q), NEW j \in DOMAIN Tail(q),
                      Tail(q)[i].stream = s, Tail(q)[i].type = "CONTINUE",
                      Tail(q)[j].stream = s, Tail(q)[j].type = "CONTINUE"
               PROVE  i = j
    BY DEF One
  <2>1. i + 1 = j + 1
    BY <1>1, <1>5 DEF One
  <2> QED BY <1>1, <2>1
<1>6. ASSUME NEW s, One(q, s), Head(q).stream = s, Head(q).type = "CONTINUE",
             NEW i \in DOMAIN Tail(q), Tail(q)[i].stream = s, Tail(q)[i].type = "CONTINUE"
      PROVE  FALSE
  <2>1. i + 1 = 1
    BY <1>1, <1>6 DEF One
  <2> QED BY <1>1, <2>1
<1>7. Whole(q) => Whole(Tail(q))
  BY <1>1 DEF Whole
<1>8. ASSUME Final(q) PROVE Final(Tail(q))
  BY <1>1, <1>8 DEF Final
<1> QED BY <1>1, <1>3, <1>4, <1>5, <1>6, <1>7, <1>8 DEF Has

----------------------------------------------------------------------------
(* A sequence that enumerates a finite set has all of it. *)
LEMMA Enumerates ==
  ASSUME NEW S, IsFiniteSet(S), NEW order \in SetToSeqs(S)
  PROVE  /\ order \in [1..Cardinality(S) -> S] /\ Cardinality(S) \in Nat
         /\ \A i, j \in 1..Cardinality(S) : order[i] = order[j] => i = j
         /\ \A x \in S : \E i \in 1..Cardinality(S) : order[i] = x
<1>1. /\ order \in [1..Cardinality(S) -> S]
      /\ \A i, j \in 1..Cardinality(S) : i # j => order[i] # order[j]
  BY DEF SetToSeqs
<1>2. Cardinality(S) \in Nat
  BY FS_CardinalityType
<1>3. ASSUME NEW x \in S, \A i \in 1..Cardinality(S) : order[i] # x
      PROVE  FALSE
  <2>1. IsFiniteSet(S \ {x}) /\ Cardinality(S \ {x}) = Cardinality(S) - 1
    BY FS_RemoveElement
  <2>2. order \in [1..Cardinality(S) -> S \ {x}]
    BY <1>1, <1>3
  <2>3. IsFiniteSet(1..Cardinality(S)) /\ Cardinality(1..Cardinality(S)) = Cardinality(S)
    BY <1>2, FS_Interval
  <2>4. Cardinality(S \ {x}) < Cardinality(1..Cardinality(S))
    BY <1>2, <2>1, <2>3
  <2>5. \E i, j \in 1..Cardinality(S) : i # j /\ order[i] = order[j]
    <3> DEFINE D == 1..Cardinality(S)
               T == S \ {x}
    <3>1. IsFiniteSet(D) /\ IsFiniteSet(T) /\ Cardinality(T) < Cardinality(D) /\ order \in [D -> T]
      BY <2>1, <2>2, <2>3, <2>4
    <3> HIDE DEF D, T
    <3>2. \E i, j \in D : i # j /\ order[i] = order[j]
      BY <3>1, FS_PigeonHole, Zenon
    <3> QED BY <3>2 DEF D
  <2> QED BY <1>1, <2>5
<1> QED BY <1>1, <1>2, <1>3

(* The three kinds of packets, as a queue sees them. *)
LEMMA PacketFields ==
  ASSUME NEW s
  PROVE  /\ Continue(s).type = "CONTINUE" /\ Continue(s).stream = s
         /\ Continue(s).buffer = BUFFER_COUNT
         /\ \A r : Close(r, s).type = "CLOSE" /\ Close(r, s).stream = s
         /\ \A d : Data(s, d).type = "DATA" /\ Data(s, d).stream = s
  BY DEF Continue, Close, Data

(* update_streams either gives nothing, or refills every empty stream and  *)
(* sends one CONTINUE for each.                                            *)
Refilled(c) == streams' = [streams EXCEPT ![c] = [s \in StreamId |->
                  IF s \in Empty(c) THEN [streams[c][s] EXCEPT !.buffer = BUFFER_COUNT]
                  ELSE streams[c][s]]]

LEMMA UpdateOut ==
  ASSUME TypeOK, NEW c \in Conn, NEW w \in Websocket, NEW hb, update_streams(c, w, hb)
  PROVE  \/ UNCHANGED streams /\ ws' = [ws EXCEPT ![c] = w]
         \/ /\ Refilled(c)
            /\ \E packets \in Seq(Packet) :
                 /\ ws' = [ws EXCEPT ![c] = Send(c, w, packets)]
                 /\ \A i \in DOMAIN packets : \E s \in Empty(c) : packets[i] = Continue(s)
                 /\ \A s \in Empty(c) : Has(packets, s, "CONTINUE")
                 /\ \A i, j \in DOMAIN packets : packets[i].stream = packets[j].stream => i = j
<1>1. CASE UNCHANGED streams /\ ws' = [ws EXCEPT ![c] = w]
  BY <1>1
<1>2. CASE /\ Refilled(c)
           /\ \E order \in SetToSeqs(Empty(c)) :
                ws' = [ws EXCEPT ![c] = Send(c, w, [i \in DOMAIN order |-> Continue(order[i])])]
  <2>1. PICK order \in SetToSeqs(Empty(c)) :
          ws' = [ws EXCEPT ![c] = Send(c, w, [i \in DOMAIN order |-> Continue(order[i])])]
    BY <1>2
  <2>2. Empty(c) \subseteq StreamId /\ IsFiniteSet(Empty(c))
    BY StateAssumption, FS_Subset DEF Empty
  <2>3. /\ order \in [1..Cardinality(Empty(c)) -> Empty(c)] /\ Cardinality(Empty(c)) \in Nat
        /\ \A i, j \in DOMAIN order : order[i] = order[j] => i = j
        /\ \A x \in Empty(c) : \E i \in DOMAIN order : order[i] = x
    BY <2>2, Enumerates
  <2> DEFINE packets == [i \in DOMAIN order |-> Continue(order[i])]
  <2>4. \A i \in DOMAIN order : Continue(order[i]) \in Packet
    BY <2>2, <2>3, StateAssumption DEF Continue, Packet
  <2>5. packets \in Seq(Packet) /\ DOMAIN packets = DOMAIN order
        /\ \A i \in DOMAIN order : packets[i] = Continue(order[i])
    BY <2>3, <2>4
  <2> HIDE DEF packets
  <2>6. \A i \in DOMAIN packets : packets[i].stream = order[i] /\ packets[i].type = "CONTINUE"
    BY <2>5, PacketFields
  <2>7. \A s \in Empty(c) : Has(packets, s, "CONTINUE")
    BY <2>3, <2>5, <2>6 DEF Has
  <2>8. \A i \in DOMAIN packets : \E s \in Empty(c) : packets[i] = Continue(s)
    BY <2>3, <2>5
  <2>9. \A i, j \in DOMAIN packets : packets[i].stream = packets[j].stream => i = j
    BY <2>3, <2>5, <2>6
  <2>10. ws' = [ws EXCEPT ![c] = Send(c, w, packets)]
    BY <2>1 DEF packets
  <2> QED BY <1>2, <2>5, <2>7, <2>8, <2>9, <2>10
<1> QED BY <1>1, <1>2, Zenon DEF update_streams, Refilled

(* What update_streams leaves alone: the other managers, and all of an     *)
(* entry but its buffer.                                                   *)
LEMMA RefilledEntries ==
  ASSUME TypeOK, NEW c \in Conn, Refilled(c)
  PROVE  /\ \A d \in Conn, s \in StreamId : d # c \/ s \notin Empty(c) => streams'[d][s] = streams[d][s]
         /\ \A s \in Empty(c) : /\ s \in StreamId /\ Live(c, s) /\ streams'[c][s] # NoStream
                                /\ streams'[c][s].buffer = BUFFER_COUNT
                                /\ streams'[c][s].stream_type = streams[c][s].stream_type
<1> DEFINE new == [s \in StreamId |->
                  IF s \in Empty(c) THEN [streams[c][s] EXCEPT !.buffer = BUFFER_COUNT]
                  ELSE streams[c][s]]
<1>1. streams'[c] = new /\ \A d \in Conn : d # c => streams'[d] = streams[d]
  BY DEF Refilled, TypeOK
<1>2. ASSUME NEW s \in Empty(c)
      PROVE  /\ s \in StreamId /\ Live(c, s) /\ new[s] # NoStream
             /\ new[s].buffer = BUFFER_COUNT /\ new[s].stream_type = streams[c][s].stream_type
  <2>1. s \in StreamId /\ Live(c, s) /\ streams[c][s] \in Stream
    BY DEF Empty, TypeOK, Live
  <2>2. new[s] = [streams[c][s] EXCEPT !.buffer = BUFFER_COUNT]
    BY <2>1
  <2>3. new[s] \in Stream
    BY <2>1, <2>2, StateAssumption DEF Stream
  <2> QED BY <2>1, <2>2, <2>3, NoStreamAssumption DEF Stream
<1>3. \A s \in StreamId : s \notin Empty(c) => new[s] = streams[c][s]
  OBVIOUS
<1> HIDE DEF new
<1> QED BY <1>1, <1>2, <1>3

(* Sending to one client concerns no other, and takes nothing away. *)
LEMMA SendToOthers ==
  ASSUME TypeOK, NEW c \in Conn, NEW packets \in Seq(Packet), SendTo(c, packets)
  PROVE  /\ \A d \in Conn : ws[d] \in Websocket /\ (d # c => ws'[d] = ws[d])
         /\ ws'[c] = Send(c, ws[c], packets)
         /\ \A d \in Conn : ws[d].backlog <= ws'[d].backlog
<1>1. \A d \in Conn : ws[d] \in Websocket /\ ws[d].backlog \in Nat
  BY DEF TypeOK, Websocket
<1>2. ws'[c] = Send(c, ws[c], packets) /\ \A d \in Conn : d # c => ws'[d] = ws[d]
  BY DEF TypeOK, SendTo
<1>3. ws[c].backlog <= Send(c, ws[c], packets).backlog
  BY <1>1, SendOut
<1> QED BY <1>1, <1>2, <1>3

----------------------------------------------------------------------------
(* has_backpressure and what uWebSockets keeps.                            *)

Backpressure ==
  BackpressureWillDrain /\ \A c \in Conn : manager[c] = "none" => ~has_backpressure[c]

(* Nothing but a drain takes from what uWebSockets keeps. *)
LEMMA FlagKept ==
  ASSUME TypeOK, Backpressure, UNCHANGED <<manager, has_backpressure>>,
         \A c \in Conn : ws[c].backlog <= ws'[c].backlog /\ ws'[c].backlog \in Nat
  PROVE  Backpressure'
<1>1. \A c \in Conn : ws[c].backlog \in Nat
  BY DEF TypeOK
<1>2. \A c \in Conn : ws[c].backlog > 0 => ws'[c].backlog > 0
  BY <1>1
<1> QED BY <1>2, Zenon DEF Backpressure, BackpressureWillDrain

(* The loop thread inside a handler. *)
LEMMA BackpressureLoop ==
  ASSUME TypeOK, TypeOK', Backpressure, Ownership, LoopStep
  PROVE  Backpressure'
<1> USE DEF mgrVars, deferVars, kernelVars, poolVars, netVars
<1>0. \A c \in Conn : ws'[c].backlog \in Nat /\ ws[c].backlog \in Nat /\ ws[c] \in Websocket
  BY DEF TypeOK, Websocket
<1>a. \A c \in Conn : ws[c].backlog <= ws[c].backlog
  BY <1>0
<1>1. CASE ConnectSucceeds \/ ConnectInsert \/ Wake \/ Finish
  <2>1. UNCHANGED <<manager, has_backpressure, ws>>
    BY <1>1, Zenon DEF ConnectSucceeds, ConnectInsert, Wake, Finish
  <2> QED BY <1>0, <1>a, <2>1, FlagKept
<1>2. CASE Destruct
  <2>1. UNCHANGED <<has_backpressure, ws>> /\ manager' = [manager EXCEPT ![loop.c] = "deleted"]
    BY <1>2, Zenon DEF Destruct
  <2>2. \A c \in Conn : manager'[c] \in {"open", "none"} => manager[c] = manager'[c]
    BY <2>1 DEF TypeOK
  <2> QED BY <2>1, <2>2, Zenon DEF Backpressure, BackpressureWillDrain
<1>3. CASE ConnectFails
  <2>1. UNCHANGED <<manager, has_backpressure>> /\ SendTo(loop.c, <<Close("0x41", loop.s)>>)
        /\ loop.at = "connect"
    BY <1>3, Zenon DEF ConnectFails
  <2>2. loop.c \in Conn /\ loop.s \in StreamId
    BY <2>1 DEF TypeOK, LoopState
  <2> QED BY <1>0, <2>1, <2>2, PacketTypes, SendToOthers, FlagKept
<1>4. CASE DeferredClose
  <2>1. UNCHANGED <<manager, has_backpressure>> /\ SendTo(loop.c, <<Close("0x02", loop.s)>>)
        /\ loop.at = "close"
    BY <1>4, Zenon DEF DeferredClose, close_stream
  <2>2. loop.c \in Conn /\ loop.s \in StreamId
    BY <2>1 DEF TypeOK, LoopState
  <2> QED BY <1>0, <2>1, <2>2, PacketTypes, SendToOthers, FlagKept
<1>5. CASE ForceClose
  <2>1. PICK s \in loop.todo : SendTo(loop.c, <<Close("0x02", s)>>)
    BY <1>5, Zenon DEF ForceClose, close_stream
  <2>2. UNCHANGED <<manager, has_backpressure>> /\ loop.at = "force"
    BY <1>5, Zenon DEF ForceClose
  <2>3. loop.c \in Conn /\ s \in StreamId
    BY <2>2 DEF TypeOK, LoopState
  <2> QED BY <1>0, <2>1, <2>2, <2>3, PacketTypes, SendToOthers, FlagKept
<1>6. CASE UpdateNext
  <2>1. PICK c \in loop.todo : update_streams(c, ws[c], has_backpressure[c])
    BY <1>6, Zenon DEF UpdateNext
  <2>2. UNCHANGED <<manager, has_backpressure>> /\ loop.at = "update"
    BY <1>6, Zenon DEF UpdateNext
  <2>3. c \in Conn
    BY <2>2 DEF TypeOK, LoopState
  <2>4. ws' = [ws EXCEPT ![c] = ws[c]]
        \/ \E packets \in Seq(Packet) : ws' = [ws EXCEPT ![c] = Send(c, ws[c], packets)]
    BY <1>0, <2>1, <2>3, UpdateOut
  <2>5. \A d \in Conn : ws[d].backlog <= ws'[d].backlog
    <3>1. CASE ws' = [ws EXCEPT ![c] = ws[c]]
      BY <1>0, <2>3, <3>1 DEF TypeOK
    <3>2. ASSUME NEW packets \in Seq(Packet), ws' = [ws EXCEPT ![c] = Send(c, ws[c], packets)]
          PROVE  \A d \in Conn : ws[d].backlog <= ws'[d].backlog
      BY <2>3, <3>2, SendToOthers DEF SendTo
    <3> QED BY <2>4, <3>1, <3>2
  <2> QED BY <1>0, <2>2, <2>5, FlagKept
<1>7. CASE RunDeferred
  <2>1. UNCHANGED manager
    BY <1>7, Zenon DEF RunDeferred
  <2>2. CASE UNCHANGED <<ws, has_backpressure>>
    BY <1>0, <1>a, <2>1, <2>2, FlagKept
  <2>3. ASSUME NEW o \in Owners(Head(deferred).fd),
               has_backpressure' = [has_backpressure EXCEPT ![o[1]] =
                                     @ \/ SendStatus(ws[o[1]]) = "BACKPRESSURE"],
               SendTo(o[1], <<Data(o[2], Head(deferred).data)>>)
        PROVE  Backpressure'
    <3>1. deferred # <<>>
      BY <1>7, Zenon DEF RunDeferred
    <3>2. o[1] \in Conn /\ o[2] \in StreamId /\ manager[o[1]] \in {"open", "closing"}
      BY DEF Owners, watched_sockets
    <3>3. Head(deferred).data \in Seq(Chunk)
      <4>1. Head(deferred) \in Lambda
        BY <3>1 DEF TypeOK
      <4> QED BY <4>1 DEF Lambda
    <3> PICK c, packets : c = o[1] /\ packets = <<Data(o[2], Head(deferred).data)>>
      OBVIOUS
    <3>4. packets \in Seq(Packet) /\ Len(packets) = 1 /\ SendTo(c, packets) /\ c \in Conn
      BY <2>3, <3>2, <3>3, PacketTypes
    <3>5. \A d \in Conn : ws[d].backlog <= ws'[d].backlog
      BY <3>4, SendToOthers
    <3>6. SendStatus(ws[c]) = "BACKPRESSURE" /\ manager[c] = "open" => ws'[c].backlog > 0
      <4> SUFFICES ASSUME SendStatus(ws[c]) = "BACKPRESSURE", manager[c] = "open"
                   PROVE  ws'[c].backlog > 0
        OBVIOUS
      <4>1. ws[c].backlog <= MAX_BACKPRESSURE /\ KernelRoom(ws[c]) = 0
        BY <1>0, <3>4, StateAssumption DEF SendStatus
      <4>2. Len(Accepted(ws[c], packets)) = 1
        <5>1. 0 + MAX_BACKPRESSURE + 1 - ws[c].backlog >= 1 /\ ~(ws[c].backlog > MAX_BACKPRESSURE)
          BY <1>0, <3>4, <4>1, StateAssumption
        <5>2. Accepted(ws[c], packets) = SubSeq(packets, 1, 1)
          BY <3>4, <4>1, <5>1 DEF Accepted
        <5> QED BY <3>4, <5>2
      <4>3. Send(c, ws[c], packets).backlog = ws[c].backlog + 1
        <5>1. Len(Accepted(ws[c], packets)) - KernelRoom(ws[c]) = 1 /\ 1 > 0 /\ manager[c] # "closing"
          BY <4>1, <4>2
        <5>2. Send(c, ws[c], packets).backlog = ws[c].backlog + (IF 1 > 0 THEN 1 ELSE 0)
          BY <5>1, Zenon DEF Send
        <5> QED BY <5>2
      <4>4. ws'[c].backlog = ws[c].backlog + 1
        BY <3>4, <4>3, SendToOthers
      <4> QED BY <1>0, <3>4, <4>4
    <3>7. \A d \in Conn : d # c => has_backpressure'[d] = has_backpressure[d]
      BY <2>3, Zenon DEF TypeOK
    <3>8. has_backpressure'[c] => has_backpressure[c] \/ SendStatus(ws[c]) = "BACKPRESSURE"
      BY <2>3, <3>4, Zenon DEF TypeOK
    <3>9. \A d \in Conn : ws[d].backlog > 0 => ws'[d].backlog > 0
      BY <1>0, <3>5
    <3>10. manager[c] # "none"
      BY <3>2
    <3> QED BY <2>1, <3>6, <3>7, <3>8, <3>9, <3>10, Zenon DEF Backpressure, BackpressureWillDrain
  <2> QED BY <1>7, <2>2, <2>3, Zenon DEF RunDeferred
<1> QED BY <1>1, <1>2, <1>3, <1>4, <1>5, <1>6, <1>7 DEF LoopStep

(* What clients, uWebSockets and targets start. *)
LEMMA BackpressureOutside ==
  ASSUME TypeOK, TypeOK', Backpressure, Outside
  PROVE  Backpressure'
<1> USE DEF mgrVars, deferVars, kernelVars, poolVars, netVars
<1>0. \A c \in Conn : ws'[c].backlog \in Nat /\ ws[c].backlog \in Nat /\ ws[c] \in Websocket
  BY DEF TypeOK, Websocket
<1>a. \A c \in Conn : ws[c].backlog <= ws[c].backlog
  BY <1>0
<1>1. ASSUME NEW c \in Conn, Open(c) PROVE Backpressure'
  <2>1. UNCHANGED has_backpressure /\ manager' = [manager EXCEPT ![c] = "open"]
        /\ SendTo(c, <<Continue(0)>>) /\ manager[c] = "none"
    BY <1>1, Zenon DEF Open, Construct
  <2>2. \A d \in Conn : d # c => manager'[d] = manager[d] /\ ws'[d] = ws[d]
    BY <2>1, PacketTypes, SendToOthers DEF TypeOK
  <2>3. ~has_backpressure[c] /\ manager'[c] = "open"
    BY <2>1, Zenon DEF Backpressure, TypeOK
  <2> QED BY <2>1, <2>2, <2>3, Zenon DEF Backpressure, BackpressureWillDrain
<1>2. ASSUME NEW c \in Conn, Drain(c) PROVE Backpressure'
  <2>1. UNCHANGED manager /\ has_backpressure' = [has_backpressure EXCEPT ![c] = FALSE]
        /\ update_streams(c, Moved(ws[c]), FALSE)
    BY <1>2, Zenon DEF Drain
  <2>2. \A d \in Conn : d # c => ws'[d] = ws[d]
    BY <2>1 DEF update_streams, TypeOK
  <2>3. ~has_backpressure'[c] /\ \A d \in Conn : d # c => has_backpressure'[d] = has_backpressure[d]
    BY <2>1, Zenon DEF TypeOK
  <2> QED BY <2>1, <2>2, <2>3, Zenon DEF Backpressure, BackpressureWillDrain
<1>3. ASSUME NEW c \in Conn, WsClosed(c) PROVE Backpressure'
  <2>1. /\ manager' = [manager EXCEPT ![c] = "closing"]
        /\ has_backpressure' = [has_backpressure EXCEPT ![c] = FALSE]
        /\ ws' = [ws EXCEPT ![c] = [out |-> <<>>, backlog |-> 0]]
    BY <1>3, Zenon DEF WsClosed
  <2>2. manager'[c] = "closing" /\ \A d \in Conn : d # c => manager'[d] = manager[d] /\ ws'[d] = ws[d]
    BY <2>1 DEF TypeOK
  <2>3. \A d \in Conn : d # c => has_backpressure'[d] = has_backpressure[d]
    BY <2>1, Zenon DEF TypeOK
  <2>4. manager'[c] # "open" /\ manager'[c] # "none"
    BY <2>2
  <2> QED BY <2>2, <2>3, <2>4, Zenon DEF Backpressure, BackpressureWillDrain
<1>4. ASSUME NEW c \in Conn, ClientReceive(c) PROVE Backpressure'
  <2>1. UNCHANGED <<manager, has_backpressure>> /\ ws' = [ws EXCEPT ![c].out = Tail(@)]
    BY <1>4, Zenon DEF ClientReceive
  <2>2. \A d \in Conn : ws'[d].backlog = ws[d].backlog
    BY <2>1 DEF TypeOK
  <2> QED BY <1>0, <1>a, <2>1, <2>2, FlagKept
<1>5. ASSUME NEW c \in Conn, NEW s \in StreamId, RecvData(c, s) PROVE Backpressure'
  <2>1. UNCHANGED <<manager, has_backpressure>> /\ (UNCHANGED ws \/ SendTo(c, <<Continue(s)>>))
    BY <1>5, Zenon DEF RecvData, handle_data, charge
  <2> QED BY <1>0, <1>a, <2>1, PacketTypes, SendToOthers, FlagKept
<1>6. ASSUME NEW c \in Conn, NEW s \in StreamId, NEW type \in Asked, RecvConnect(c, s, type)
      PROVE  Backpressure'
  <2>1. UNCHANGED <<manager, has_backpressure>> /\ (UNCHANGED ws \/ SendTo(c, <<Close("0x41", s)>>))
    BY <1>6, Zenon DEF RecvConnect, handle_connect
  <2> QED BY <1>0, <1>a, <2>1, PacketTypes, SendToOthers, FlagKept
<1>7. ASSUME UNCHANGED <<manager, has_backpressure, ws>> PROVE Backpressure'
  BY <1>0, <1>a, <1>7, FlagKept
<1>8. ASSUME NEW c \in Conn, NEW s \in StreamId, RecvClose(c, s) PROVE Backpressure'
  BY <1>7, <1>8, Zenon DEF RecvClose
<1>9. ASSUME NEW k \in DOMAIN sock, TargetSend(k) \/ TargetClose(k) PROVE Backpressure'
  BY <1>7, <1>9, Zenon DEF TargetSend, TargetClose
<1> QED BY <1>1, <1>2, <1>3, <1>4, <1>5, <1>6, <1>8, <1>9, Zenon DEF Outside

(* The watcher and the pool threads send nothing. *)
LEMMA ThreadsSendNothing ==
  ASSUME WatcherStep \/ (\E w \in Worker : WorkerStep(w)) \/ UNCHANGED vars \/ Resting
  PROVE  UNCHANGED <<manager, streams, has_backpressure, loop, ws, client>>
<1> USE DEF vars, mgrVars, netVars
<1>1. CASE WatcherStep
  BY <1>1, Zenon DEF WatcherStep, WatchWait, WatchWake, WatchEvent, WatchRead, WatchReadReturns,
                     WatchErase, WatchCount, WatchDefer
<1>2. ASSUME NEW w \in Worker, WorkerStep(w)
      PROVE  UNCHANGED <<manager, streams, has_backpressure, loop, ws, client>>
  BY <1>2, Zenon DEF WorkerStep, WorkerPop, WorkerLock, WorkerNoStream, WorkerNoManager, WorkerWrite, WorkerSigpipe
<1>3. CASE UNCHANGED vars
  BY <1>3, Zenon
<1>4. CASE Resting
  BY <1>4, Zenon DEF Resting
<1> QED BY <1>1, <1>2, <1>3, <1>4

(* has_backpressure is set only while a drain callback is to come: the     *)
(* send that set it left something with uWebSockets, which nothing but a   *)
(* drain takes away (websocketManager.h send_data, server.cpp drain).      *)
THEOREM BackpressureDrains == Spec => []BackpressureWillDrain
<1>1. Init => Backpressure
  BY Zenon DEF Init, Backpressure, BackpressureWillDrain
<1>2. TypeOK /\ TypeOK' /\ Ownership /\ Backpressure /\ [Next]_vars => Backpressure'
  <2> SUFFICES ASSUME TypeOK, TypeOK', Ownership, Backpressure, [Next]_vars
               PROVE  Backpressure'
    OBVIOUS
  <2>1. CASE LoopStep
    BY <2>1, BackpressureLoop
  <2>2. CASE Outside
    BY <2>2, BackpressureOutside
  <2>3. CASE WatcherStep \/ (\E w \in Worker : WorkerStep(w)) \/ UNCHANGED vars \/ Resting
    <3>1. \A c \in Conn : ws[c].backlog <= ws[c].backlog /\ ws[c].backlog \in Nat
      BY DEF TypeOK
    <3>2. UNCHANGED <<manager, has_backpressure, ws>>
      BY <2>3, ThreadsSendNothing
    <3> QED BY <3>1, <3>2, FlagKept
  <2> QED BY <2>1, <2>2, <2>3, Zenon DEF Next
<1>3. Backpressure => BackpressureWillDrain
  BY DEF Backpressure
<1> QED BY <1>1, <1>2, <1>3, TypeCorrect, OwnershipInvariant, PTL DEF Spec

----------------------------------------------------------------------------
(* What holds of every stream of a conforming client, and of its queue.    *)

(* handle_connect is at work on stream s of client c. *)
AtConnect(c, s) == loop.at \in {"connect", "insert"} /\ loop.c = c /\ loop.s = s

(* A TCP stream that is open at both ends. *)
Spends(c, s) ==
  Live(c, s) /\ streams[c][s].stream_type = "tcp" /\ client[c].state[s] = "tcp"

(* No packet of an id the client has not used, nor of one that is being    *)
(* connected, is under way; none of an entry says CLOSE.  An entry is of   *)
(* the type the client asked for.                                          *)
QueueFlow(c, s) ==
  /\ manager[c] = "open" /\ client[c].state[s] = "unused" => \A t : ~Has(ws[c].out, s, t)
  /\ AtConnect(c, s) => /\ client[c].state[s] = loop.type /\ client[c].credit[s] = BUFFER_COUNT
                        /\ \A t : ~Has(ws[c].out, s, t)
  /\ manager[c] = "open" /\ Live(c, s) =>
       /\ ~Has(ws[c].out, s, "CLOSE")
       /\ client[c].state[s] \in {streams[c][s].stream_type, "closed"}

(* The client has no more credit than the server has room, and none at all *)
(* while its one CONTINUE is under way.                                    *)
CreditFlow(c, s) == Spends(c, s) =>
  /\ client[c].credit[s] <= streams[c][s].buffer /\ streams[c][s].buffer <= BUFFER_COUNT
  /\ One(ws[c].out, s)
  /\ Has(ws[c].out, s, "CONTINUE") =>
       client[c].credit[s] = 0 /\ streams[c][s].buffer = BUFFER_COUNT

(* Nothing is under way to a client that is not connected. *)
ClientFlow(c) ==
  /\ manager[c] # "open" =>
       ws[c].out = <<>> /\ \A s \in StreamId : client[c].state[s] = "unused"
  /\ Whole(ws[c].out) /\ Final(ws[c].out) /\ client[c].credit[0] \in {0, BUFFER_COUNT}

Flow == \A c \in Conn : ClientFlow(c) /\ \A s \in StreamId : QueueFlow(c, s) /\ CreditFlow(c, s)

(* A step that does not concern stream s of client c. *)
SameStream(c, s) ==
  /\ streams'[c][s] = streams[c][s]
  /\ client'[c].state[s] = client[c].state[s] /\ client'[c].credit[s] = client[c].credit[s]
  /\ \A t : Has(ws'[c].out, s, t) => Has(ws[c].out, s, t)
  /\ Has(ws[c].out, s, "CONTINUE") => Has(ws'[c].out, s, "CONTINUE")
  /\ One(ws[c].out, s) => One(ws'[c].out, s)

LEMMA StreamStays ==
  ASSUME NEW c \in Conn, NEW s \in StreamId, QueueFlow(c, s), CreditFlow(c, s),
         SameStream(c, s), manager'[c] = manager[c],
         AtConnect(c, s)' => AtConnect(c, s) /\ loop'.type = loop.type
  PROVE  QueueFlow(c, s)' /\ CreditFlow(c, s)'
<1>1. Live(c, s)' <=> Live(c, s)
  BY DEF SameStream, Live
<1>2. Spends(c, s)' <=> Spends(c, s)
  BY <1>1 DEF SameStream, Spends
<1>3. QueueFlow(c, s)'
  BY <1>1 DEF QueueFlow, SameStream
<1>4. CreditFlow(c, s)'
  BY <1>2 DEF CreditFlow, SameStream
<1> QED BY <1>3, <1>4

LEMMA ClientStays ==
  ASSUME NEW c \in Conn, ClientFlow(c), manager'[c] = manager[c], ws'[c].out = ws[c].out,
         \A s \in StreamId : client'[c].state[s] = client[c].state[s],
         client'[c].credit[0] = client[c].credit[0]
  PROVE  ClientFlow(c)'
  BY DEF ClientFlow

(* A client nothing happens to. *)
LEMMA ClientUnmoved ==
  ASSUME NEW c \in Conn, Flow, manager'[c] = manager[c], streams'[c] = streams[c],
         ws'[c].out = ws[c].out, client'[c] = client[c],
         \A s \in StreamId : AtConnect(c, s)' => AtConnect(c, s) /\ loop'.type = loop.type
  PROVE  /\ ClientFlow(c)' /\ \A s \in StreamId : QueueFlow(c, s)' /\ CreditFlow(c, s)'
         /\ \A s \in StreamId : SameStream(c, s)
<1>1. \A s \in StreamId : SameStream(c, s)
  BY DEF SameStream
<1>2. ClientFlow(c)'
  BY ClientStays DEF Flow
<1>3. \A s \in StreamId : QueueFlow(c, s)' /\ CreditFlow(c, s)'
  BY <1>1, StreamStays DEF Flow
<1> QED BY <1>1, <1>2, <1>3

(* Steps that send nothing and concern no stream. *)
LEMMA FlowKept ==
  ASSUME Flow, UNCHANGED <<manager, streams, ws, client>>,
         loop'.at \in {"connect", "insert"} =>
           /\ loop.at \in {"connect", "insert"}
           /\ loop'.c = loop.c /\ loop'.s = loop.s /\ loop'.type = loop.type
  PROVE  Flow' /\ \A c \in Conn, s \in StreamId : SameStream(c, s)
<1>1. \A c \in Conn, s \in StreamId : AtConnect(c, s)' => AtConnect(c, s) /\ loop'.type = loop.type
  BY DEF AtConnect
<1> QED BY <1>1, ClientUnmoved DEF Flow

(* One packet is sent: it may be dropped, or swallowed by a closing        *)
(* websocket.                                                              *)
LEMMA SendOne ==
  ASSUME TypeOK, NEW c \in Conn, NEW p \in Packet, SendTo(c, <<p>>)
  PROVE  /\ \A d \in Conn : d # c => ws'[d] = ws[d]
         /\ ws'[c].out = ws[c].out \/ ws'[c].out = ws[c].out \o <<p>>
         /\ manager[c] = "closing" => ws'[c].out = ws[c].out
         /\ /\ manager[c] # "closing" /\ ws[c].backlog <= MAX_BACKPRESSURE
            /\ ws'[c].backlog <= MAX_BACKPRESSURE
            => ws'[c].out = ws[c].out \o <<p>>
<1>1. ws[c] \in Websocket /\ ws[c].out \in Seq(Packet) /\ <<p>> \in Seq(Packet)
  BY DEF TypeOK, Websocket
<1>2. ws'[c] = Send(c, ws[c], <<p>>) /\ \A d \in Conn : d # c => ws'[d] = ws[d]
  BY <1>1, SendToOthers
<1>3. PICK sent \in Seq(Packet) :
           /\ ws'[c].out = ws[c].out \o sent
           /\ \A i \in DOMAIN sent : i \in DOMAIN <<p>> /\ sent[i] = <<p>>[i]
           /\ /\ ws[c].backlog <= MAX_BACKPRESSURE /\ manager[c] # "closing"
              /\ ws'[c].backlog <= MAX_BACKPRESSURE
              => sent = <<p>>
           /\ manager[c] = "closing" => sent = <<>>
  <2> DEFINE one == <<p>>
  <2> HIDE DEF one
  <2>1. one \in Seq(Packet) /\ ws'[c] = Send(c, ws[c], one)
    BY <1>1, <1>2 DEF one
  <2>2. \E sent \in Seq(Packet) :
           /\ Send(c, ws[c], one).out = ws[c].out \o sent
           /\ \A i \in DOMAIN sent : i \in DOMAIN one /\ sent[i] = one[i]
           /\ /\ ws[c].backlog <= MAX_BACKPRESSURE /\ manager[c] # "closing"
              /\ Send(c, ws[c], one).backlog <= MAX_BACKPRESSURE
              => sent = one
           /\ manager[c] = "closing" => sent = <<>>
           /\ ws[c].backlog <= Send(c, ws[c], one).backlog
    BY <1>1, <2>1, SendOut, Zenon
  <2> QED BY <2>1, <2>2 DEF one
<1>4. sent = <<>> \/ sent = <<p>>
  <2>1. Len(sent) \in Nat /\ DOMAIN sent = 1..Len(sent) /\ DOMAIN <<p>> = {1}
    OBVIOUS
  <2>2. Len(sent) <= 1
    BY <1>3, <2>1
  <2>3. CASE Len(sent) = 0
    BY <2>3
  <2>4. CASE Len(sent) = 1
    BY <1>3, <2>4
  <2> QED BY <2>1, <2>2, <2>3, <2>4
<1>5. ws[c].out \o <<>> = ws[c].out
  BY <1>1
<1> QED BY <1>2, <1>3, <1>4, <1>5

(* One packet more in the queue. *)
LEMMA GrownByOne ==
  ASSUME NEW q \in Seq(Packet), NEW p \in Packet, NEW r, r = q \/ r = q \o <<p>>
  PROVE  /\ \A s, t : Has(q, s, t) => Has(r, s, t)
         /\ \A s, t : Has(r, s, t) => Has(q, s, t) \/ (p.stream = s /\ p.type = t)
         /\ r = q \o <<p>> => Has(r, p.stream, p.type)
         /\ \A s : One(q, s) /\ (p.stream # s \/ p.type # "CONTINUE" \/ ~Has(q, s, "CONTINUE"))
                     => One(r, s)
         /\ Whole(q) /\ (p.type = "CONTINUE" => p.buffer = BUFFER_COUNT) => Whole(r)
         /\ Final(q) /\ ~Has(q, p.stream, "CLOSE") => Final(r)
<1> DEFINE one == <<p>>
<1>1. one \in Seq(Packet) /\ DOMAIN one = {1} /\ one[1] = p
  OBVIOUS
<1> HIDE DEF one
<1>2. \A s, t : Has(one, s, t) <=> p.stream = s /\ p.type = t
  BY <1>1 DEF Has
<1>3. (\A s : One(one, s)) /\ Final(one) /\ ((p.type = "CONTINUE" => p.buffer = BUFFER_COUNT) => Whole(one))
  BY <1>1 DEF One, Final, Whole
<1>4. CASE r = q
  BY <1>1, <1>2, <1>4, Grown DEF one
<1>5. CASE r = q \o one
  BY <1>1, <1>2, <1>3, <1>5, Grown
<1> QED BY <1>4, <1>5 DEF one

----------------------------------------------------------------------------
(* The streams as WispCredit sees them.                                    *)

Pairs == Conn \X StreamId

(* Nothing has been dropped: uWebSockets drops only once it keeps more     *)
(* than MAX_BACKPRESSURE, and then it does.                                *)
NothingDropped == \A c \in Conn : ws[c].backlog <= MAX_BACKPRESSURE

(* A step of WispCredit, or none. *)
CreditStep == [Credit!Next]_(Credit!vars)

SameCredit(i) ==
  /\ i \in Spending' <=> i \in Spending
  /\ Credits'[i] = Credits[i] /\ Buffers'[i] = Buffers[i] /\ Grants'[i] = Grants[i]

StreamView(c, s) ==
  /\ <<c, s>> \in Pairs
  /\ <<c, s>> \in Spending <=> Spends(c, s)
  /\ Credits[<<c, s>>] = IF Spends(c, s) THEN client[c].credit[s] ELSE 0
  /\ Buffers[<<c, s>>] = IF Spends(c, s) THEN streams[c][s].buffer ELSE 0
  /\ Grants[<<c, s>>] = (Spends(c, s) /\ Has(ws[c].out, s, "CONTINUE"))

Views == \A c \in Conn, s \in StreamId : TypeOK /\ Whole(ws[c].out) => StreamView(c, s)

LEMMA ViewOfStream == Views
<1> SUFFICES ASSUME TypeOK, NEW c \in Conn, NEW s \in StreamId, Whole(ws[c].out)
             PROVE  StreamView(c, s)
  BY DEF Views
<1>1. InFlight(c, Continue(s)) <=> Has(ws[c].out, s, "CONTINUE")
  <2>1. InFlight(c, Continue(s)) => Has(ws[c].out, s, "CONTINUE")
    BY PacketFields DEF InFlight, Has
  <2>2. ASSUME NEW i \in DOMAIN ws[c].out, ws[c].out[i].stream = s, ws[c].out[i].type = "CONTINUE"
        PROVE  ws[c].out[i] = Continue(s)
    <3>1. ws[c].out[i] \in Packet /\ ws[c].out[i].buffer = BUFFER_COUNT
      BY <2>2 DEF TypeOK, Whole
    <3>2. ws[c].out[i] \in [type : {"CONTINUE"}, stream : StreamId \cup {0}, buffer : Nat]
      BY <2>2, <3>1 DEF Packet
    <3> QED BY <2>2, <3>1, <3>2 DEF Continue
  <2> QED BY <2>1, <2>2 DEF InFlight, Has
<1>2. <<c, s>> \in Pairs /\ (<<c, s>> \in Spending <=> Spends(c, s))
  BY DEF Pairs, Spending, Spends
<1>3. /\ Credits[<<c, s>>] = IF Spends(c, s) THEN client[c].credit[s] ELSE 0
      /\ Buffers[<<c, s>>] = IF Spends(c, s) THEN streams[c][s].buffer ELSE 0
  BY <1>2 DEF Credits, Buffers, Pairs
<1>4. Grants[<<c, s>>] = (Spends(c, s) /\ Has(ws[c].out, s, "CONTINUE"))
  BY <1>1, <1>2 DEF Grants, Pairs
<1> QED BY <1>2, <1>3, <1>4 DEF StreamView

(* The maps are functions on the streams. *)
Maps ==
  /\ Credits = [i \in Pairs |-> Credits[i]] /\ Buffers = [i \in Pairs |-> Buffers[i]]
  /\ Grants = [i \in Pairs |-> Grants[i]] /\ Spending \subseteq Pairs
  /\ \A i \in Pairs : /\ Grants[i] \in BOOLEAN /\ (Grants[i] => i \in Spending)
                      /\ i \notin Spending => Credits[i] = 0 /\ Buffers[i] = 0

LEMMA ViewMaps == Maps
  BY DEF Maps, Credits, Buffers, Grants, Spending, Pairs

LEMMA NextMaps ==
  /\ Credits' = [i \in Pairs |-> Credits'[i]] /\ Buffers' = [i \in Pairs |-> Buffers'[i]]
  /\ Grants' = [i \in Pairs |-> Grants'[i]] /\ Spending' \subseteq Pairs
  /\ \A i \in Pairs : /\ Grants'[i] \in BOOLEAN /\ (Grants'[i] => i \in Spending')
                      /\ i \notin Spending' => Credits'[i] = 0 /\ Buffers'[i] = 0
<1>1. Maps'
  BY ViewMaps, PTL
<1> QED BY <1>1 DEF Maps

LEMMA SameView ==
  ASSUME TypeOK, TypeOK', NEW c \in Conn, NEW s \in StreamId, SameStream(c, s),
         Whole(ws[c].out), Whole(ws'[c].out)
  PROVE  SameCredit(<<c, s>>)
<1>1. Spends(c, s)' <=> Spends(c, s)
  BY DEF SameStream, Spends, Live
<1>2. StreamView(c, s) /\ StreamView(c, s)'
  <2>1. Views'
    BY ViewOfStream, PTL
  <2> QED BY <2>1, ViewOfStream DEF Views
<1>3. Has(ws'[c].out, s, "CONTINUE") <=> Has(ws[c].out, s, "CONTINUE")
  BY DEF SameStream
<1> QED BY <1>1, <1>2, <1>3 DEF SameCredit, SameStream, StreamView

(* Maps that agree but for one place, or for a set of places. *)
LEMMA MapUpdate ==
  ASSUME NEW P, NEW f, NEW g, NEW i \in P, f = [j \in P |-> f[j]], g = [j \in P |-> g[j]],
         \A j \in P : j # i => g[j] = f[j]
  PROVE  g = [f EXCEPT ![i] = g[i]] /\ (g[i] = f[i] => g = f)
<1>1. [f EXCEPT ![i] = g[i]] = [j \in P |-> IF j = i THEN g[i] ELSE f[j]]
  BY Zenon
<1>2. [j \in P |-> IF j = i THEN g[i] ELSE f[j]] = [j \in P |-> g[j]]
  BY Zenon
<1>3. g[i] = f[i] => g = f
  BY Zenon
<1> QED BY <1>1, <1>2, <1>3

LEMMA MapChoice ==
  ASSUME NEW P, NEW f, NEW g, NEW v, NEW I, f = [j \in P |-> f[j]], g = [j \in P |-> g[j]],
         \A j \in P : j \notin I => g[j] = f[j], \A j \in P : j \in I => g[j] = v
  PROVE  g = [j \in P |-> IF j \in I THEN v ELSE f[j]]
<1>1. \A j \in P : g[j] = IF j \in I THEN v ELSE f[j]
  BY Zenon
<1> QED BY <1>1, Zenon

(* The six things that can happen to the credit of the streams. *)
LEMMA CreditStays ==
  ASSUME \A i \in Pairs : SameCredit(i)
  PROVE  CreditStep
<1> USE ViewMaps, NextMaps DEF SameCredit, Maps
<1>1. Credits' = Credits
  BY Zenon
<1>2. Buffers' = Buffers
  BY Zenon
<1>3. Grants' = Grants
  BY Zenon
<1>4. Spending' = Spending
  OBVIOUS
<1> QED BY <1>1, <1>2, <1>3, <1>4 DEF CreditStep, Credit!vars

LEMMA CreditOpens ==
  ASSUME NEW i \in Pairs, \A j \in Pairs : j # i => SameCredit(j),
         i \notin Spending, i \in Spending', ~Grants'[i],
         Credits'[i] = BUFFER_COUNT, Buffers'[i] = BUFFER_COUNT
  PROVE  CreditStep
<1>1. Spending' = Spending \cup {i}
  BY ViewMaps, NextMaps DEF SameCredit, Maps
<1>2. Credits' = [Credits EXCEPT ![i] = BUFFER_COUNT]
  BY ViewMaps, NextMaps, MapUpdate, Zenon DEF SameCredit, Maps
<1>3. Buffers' = [Buffers EXCEPT ![i] = BUFFER_COUNT]
  BY ViewMaps, NextMaps, MapUpdate, Zenon DEF SameCredit, Maps
<1>4. Grants' = Grants
  <2>1. Grants'[i] = Grants[i]
    BY ViewMaps, NextMaps, Zenon DEF Maps
  <2> QED BY <2>1, ViewMaps, NextMaps, MapUpdate, Zenon DEF SameCredit, Maps
<1>5. Credit!Open(i)
  BY <1>1, <1>2, <1>3, <1>4 DEF Credit!Open
<1> QED BY <1>5 DEF CreditStep, Credit!Next, Pairs

LEMMA CreditSends ==
  ASSUME NEW i \in Pairs, \A j \in Pairs : j # i => SameCredit(j),
         i \in Spending, i \in Spending', Credits[i] > 0, Credits'[i] = Credits[i] - 1,
         \/ Buffers'[i] = Buffers[i] - 1 /\ Grants'[i] = Grants[i]
         \/ Buffers[i] = 1 /\ Buffers'[i] = BUFFER_COUNT /\ Grants'[i] = TRUE
  PROVE  CreditStep
<1>1. Spending' = Spending
  BY ViewMaps, NextMaps DEF SameCredit, Maps
<1>2. Credits' = [Credits EXCEPT ![i] = Credits[i] - 1]
  <2>1. Credits' = [Credits EXCEPT ![i] = Credits'[i]]
    BY ViewMaps, NextMaps, MapUpdate, Zenon DEF SameCredit, Maps
  <2> QED BY <2>1, Zenon
<1>3. Buffers' = [Buffers EXCEPT ![i] = Buffers'[i]]
  BY ViewMaps, NextMaps, MapUpdate, Zenon DEF SameCredit, Maps
<1>4. Grants' = [Grants EXCEPT ![i] = Grants'[i]]
  BY ViewMaps, NextMaps, MapUpdate, Zenon DEF SameCredit, Maps
<1>5. ASSUME Grants'[i] = Grants[i] PROVE Grants' = Grants
  <2>1. \A j \in Pairs : Grants'[j] = Grants[j]
    BY <1>5, Zenon DEF SameCredit
  <2> QED BY <2>1, ViewMaps, NextMaps, Zenon DEF Maps
<1>6. Credit!Send(i)
  BY <1>1, <1>2, <1>3, <1>4, <1>5 DEF Credit!Send
<1> QED BY <1>6 DEF CreditStep, Credit!Next, Pairs

LEMMA CreditReceived ==
  ASSUME NEW i \in Pairs, \A j \in Pairs : j # i => SameCredit(j),
         i \in Spending, i \in Spending', Grants[i], ~Grants'[i],
         Credits[i] = 0, Credits'[i] = BUFFER_COUNT, Buffers'[i] = Buffers[i]
  PROVE  CreditStep
<1>1. Spending' = Spending
  BY ViewMaps, NextMaps DEF SameCredit, Maps
<1>2. Credits' = [Credits EXCEPT ![i] = BUFFER_COUNT]
  BY ViewMaps, NextMaps, MapUpdate, Zenon DEF SameCredit, Maps
<1>3. Buffers' = Buffers
  <2>1. Buffers = [j \in Pairs |-> Buffers[j]] /\ Buffers' = [j \in Pairs |-> Buffers'[j]]
    BY ViewMaps, NextMaps, Zenon DEF Maps
  <2>2. \A j \in Pairs : Buffers'[j] = Buffers[j]
    BY Zenon DEF SameCredit
  <2> QED BY ONLY <2>1, <2>2, Zenon
<1>4. Grants' = [Grants EXCEPT ![i] = FALSE]
  <2>1. Grants'[i] = FALSE
    BY NextMaps, Zenon
  <2> QED BY <2>1, ViewMaps, NextMaps, MapUpdate, Zenon DEF SameCredit, Maps
<1>5. Credit!Receive(i)
  BY <1>1, <1>2, <1>3, <1>4 DEF Credit!Receive
<1> QED BY <1>5 DEF CreditStep, Credit!Next, Pairs

LEMMA CreditCloses ==
  ASSUME NEW I \in SUBSET Pairs, \A j \in Pairs : j \notin I => SameCredit(j),
         \A j \in I : j \in Spending /\ j \notin Spending'
  PROVE  CreditStep
<1>1. Spending' = Spending \ I
  BY ViewMaps, NextMaps DEF SameCredit, Maps
<1>2. Credits' = [j \in Pairs |-> IF j \in I THEN 0 ELSE Credits[j]]
  BY ViewMaps, NextMaps, MapChoice, Zenon DEF SameCredit, Maps
<1>3. Buffers' = [j \in Pairs |-> IF j \in I THEN 0 ELSE Buffers[j]]
  BY ViewMaps, NextMaps, MapChoice, Zenon DEF SameCredit, Maps
<1>4. Grants' = [j \in Pairs |-> j \notin I /\ Grants[j]]
  <2>1. \A j \in Pairs : (j \notin I /\ Grants[j]) = Grants'[j]
    BY ViewMaps, NextMaps, Zenon DEF SameCredit, Maps
  <2> QED BY <2>1, NextMaps, Zenon
<1>5. CASE I = {}
  BY <1>5, CreditStays
<1>6. CASE I # {}
  <2>1. I \subseteq Spending
    OBVIOUS
  <2>2. Credit!Close(I)
    BY <1>1, <1>2, <1>3, <1>4, <2>1 DEF Credit!Close, Pairs
  <2> QED BY <1>6, <2>2 DEF CreditStep, Credit!Next, Pairs
<1> QED BY <1>5, <1>6

LEMMA CreditGrants ==
  ASSUME NEW I \in SUBSET Pairs, \A j \in Pairs : j \notin I => SameCredit(j),
         \A j \in I : /\ j \in Spending /\ j \in Spending' /\ Credits'[j] = Credits[j]
                     /\ Buffers[j] = 0 /\ Buffers'[j] = BUFFER_COUNT /\ ~Grants[j] /\ Grants'[j]
  PROVE  CreditStep
<1>1. Spending' = Spending
  BY ViewMaps, NextMaps DEF SameCredit, Maps
<1>2. Credits' = Credits
  <2>1. \A j \in Pairs : Credits'[j] = Credits[j]
    BY DEF SameCredit
  <2> QED BY <2>1, ViewMaps, NextMaps, Zenon DEF Maps
<1>3. Buffers' = [j \in Pairs |-> IF j \in I THEN BUFFER_COUNT ELSE Buffers[j]]
  BY ViewMaps, NextMaps, MapChoice, Zenon DEF SameCredit, Maps
<1>4. Grants' = [j \in Pairs |-> j \in I \/ Grants[j]]
  <2>1. \A j \in Pairs : (j \in I \/ Grants[j]) = Grants'[j]
    BY ViewMaps, NextMaps, Zenon DEF SameCredit, Maps
  <2> QED BY <2>1, NextMaps, Zenon
<1>5. CASE I = {}
  BY <1>5, CreditStays
<1>6. CASE I # {}
  <2>1. Credit!Grant(I)
    BY <1>1, <1>2, <1>3, <1>4 DEF Credit!Grant, Pairs
  <2> QED BY <1>6, <2>1 DEF CreditStep, Credit!Next, Pairs
<1> QED BY <1>5, <1>6

----------------------------------------------------------------------------
(* One lemma per callback.                                                 *)

(* The step keeps Flow and, when nothing is dropped, is one of WispCredit. *)
FlowStep == Flow' /\ (NothingDropped /\ NothingDropped' => CreditStep)

(* The step concerns no other streams than S of client c. *)
Elsewhere(c, S) ==
  /\ \A d \in Conn : d # c =>
       /\ manager'[d] = manager[d] /\ streams'[d] = streams[d] /\ ws'[d].out = ws[d].out
       /\ client'[d] = client[d]
  /\ \A t \in StreamId : t \notin S => SameStream(c, t) /\ manager'[c] = manager[c]
  /\ \A d \in Conn, t \in StreamId : AtConnect(d, t)' /\ ~(d = c /\ t \in S) =>
       AtConnect(d, t) /\ loop'.type = loop.type

LEMMA StreamsMove ==
  ASSUME TypeOK, TypeOK', Flow, NEW c \in Conn, NEW S \in SUBSET StreamId, Elsewhere(c, S),
         ClientFlow(c)', \A s \in S : QueueFlow(c, s)' /\ CreditFlow(c, s)'
  PROVE  /\ Flow'
         /\ \A i \in Pairs : ~(i[1] = c /\ i[2] \in S) => SameCredit(i)
         /\ \A s \in StreamId : StreamView(c, s) /\ StreamView(c, s)'
<1>1. ASSUME NEW d \in Conn, d # c
      PROVE  /\ ClientFlow(d)' /\ \A t \in StreamId : QueueFlow(d, t)' /\ CreditFlow(d, t)'
             /\ \A t \in StreamId : SameStream(d, t)
  <2>1. /\ manager'[d] = manager[d] /\ streams'[d] = streams[d] /\ ws'[d].out = ws[d].out
        /\ client'[d] = client[d]
    BY <1>1, Zenon DEF Elsewhere
  <2>2. \A t \in StreamId : AtConnect(d, t)' => AtConnect(d, t) /\ loop'.type = loop.type
    BY <1>1 DEF Elsewhere
  <2> QED BY <2>1, <2>2, ClientUnmoved
<1>2. ASSUME NEW t \in StreamId, t \notin S
      PROVE  QueueFlow(c, t)' /\ CreditFlow(c, t)' /\ SameStream(c, t)
  <2>1. SameStream(c, t) /\ manager'[c] = manager[c]
    BY <1>2, Zenon DEF Elsewhere
  <2>2. AtConnect(c, t)' => AtConnect(c, t) /\ loop'.type = loop.type
    BY <1>2 DEF Elsewhere
  <2>3. QueueFlow(c, t) /\ CreditFlow(c, t)
    BY Zenon DEF Flow
  <2> QED BY <2>1, <2>2, <2>3, StreamStays
<1>3. Flow'
  BY <1>1, <1>2, Zenon DEF Flow
<1>4. \A d \in Conn : Whole(ws[d].out) /\ Whole(ws'[d].out)
  BY <1>3 DEF Flow, ClientFlow
<1>5. ASSUME NEW d \in Conn, NEW t \in StreamId, ~(d = c /\ t \in S)
      PROVE  SameCredit(<<d, t>>)
  BY <1>1, <1>2, <1>4, <1>5, SameView
<1>6. \A i \in Pairs : ~(i[1] = c /\ i[2] \in S) => SameCredit(i)
  BY <1>5 DEF Pairs
<1>7. Views /\ Views'
  BY ViewOfStream, PTL
<1>8. \A s \in StreamId : StreamView(c, s) /\ StreamView(c, s)'
  BY <1>4, <1>7 DEF Views
<1> QED BY <1>3, <1>6, <1>8

(* A step that concerns one stream, and its credit not, or for the last    *)
(* time.                                                                   *)
LEMMA CreditUntouched ==
  ASSUME NEW c \in Conn, NEW S \in SUBSET StreamId,
         \A s \in StreamId : StreamView(c, s) /\ StreamView(c, s)',
         \A i \in Pairs : ~(i[1] = c /\ i[2] \in S) => SameCredit(i),
         \A s \in S : \/ ~Spends(c, s)'
                      \/ /\ Spends(c, s) /\ client'[c].credit[s] = client[c].credit[s]
                         /\ streams'[c][s].buffer = streams[c][s].buffer
                         /\ Has(ws'[c].out, s, "CONTINUE") <=> Has(ws[c].out, s, "CONTINUE")
  PROVE  CreditStep
<1> DEFINE I == {i \in Pairs : i[1] = c /\ i[2] \in S /\ Spends(c, i[2]) /\ ~Spends(c, i[2])'}
<1>1. I \in SUBSET Pairs
  OBVIOUS
<1>2. ASSUME NEW j \in I PROVE j \in Spending /\ j \notin Spending'
  <2>1. PICK s \in S : j = <<c, s>> /\ Spends(c, s) /\ ~Spends(c, s)'
    BY DEF Pairs
  <2> QED BY <2>1 DEF StreamView
<1>3. ASSUME NEW j \in Pairs, j \notin I PROVE SameCredit(j)
  <2>1. CASE ~(j[1] = c /\ j[2] \in S)
    BY <2>1, Zenon
  <2>2. CASE j[1] = c /\ j[2] \in S
    <3>1. PICK s \in S : j = <<c, s>>
      BY <2>2 DEF Pairs
    <3>2. ~Spends(c, s) \/ Spends(c, s)'
      BY <1>3, <3>1 DEF Pairs
    <3>3. StreamView(c, s) /\ StreamView(c, s)'
      BY Zenon
    <3>4. CASE ~Spends(c, s)'
      BY <3>1, <3>2, <3>3, <3>4 DEF StreamView, SameCredit
    <3>5. CASE Spends(c, s)'
      BY <3>1, <3>2, <3>3, <3>5 DEF StreamView, SameCredit
    <3> QED BY <3>4, <3>5
  <2> QED BY <2>1, <2>2
<1> HIDE DEF I
<1> QED BY <1>1, <1>2, <1>3, CreditCloses

(* Steps that concern no stream. *)
LEMMA FlowQuiet ==
  ASSUME TypeOK, TypeOK', Flow, UNCHANGED <<manager, streams, ws, client>>,
         loop'.at \in {"connect", "insert"} =>
           /\ loop.at \in {"connect", "insert"}
           /\ loop'.c = loop.c /\ loop'.s = loop.s /\ loop'.type = loop.type
  PROVE  FlowStep
<1>1. Flow' /\ \A c \in Conn, s \in StreamId : SameStream(c, s)
  BY FlowKept
<1>2. \A c \in Conn : Whole(ws[c].out) /\ Whole(ws'[c].out)
  BY <1>1 DEF Flow, ClientFlow
<1>3. \A i \in Pairs : SameCredit(i)
  BY <1>1, <1>2, SameView DEF Pairs
<1> QED BY <1>1, <1>3, CreditStays DEF FlowStep

(* One packet of a stream that has not been closed is sent. *)
LEMMA OnePacket ==
  ASSUME TypeOK, Flow, NEW c \in Conn, NEW p \in Packet, SendTo(c, <<p>>),
         ~Has(ws[c].out, p.stream, "CLOSE"), p.type = "CONTINUE" => p.buffer = BUFFER_COUNT
  PROVE  /\ \A d \in Conn : d # c => ws'[d].out = ws[d].out
         /\ \A s, t : Has(ws[c].out, s, t) => Has(ws'[c].out, s, t)
         /\ \A s, t : Has(ws'[c].out, s, t) => Has(ws[c].out, s, t) \/ (p.stream = s /\ p.type = t)
         /\ \A s : /\ One(ws[c].out, s)
                   /\ p.stream # s \/ p.type # "CONTINUE" \/ ~Has(ws[c].out, s, "CONTINUE")
                   => One(ws'[c].out, s)
         /\ Whole(ws'[c].out) /\ Final(ws'[c].out)
         /\ manager[c] = "closing" => ws'[c].out = ws[c].out
         /\ NothingDropped /\ NothingDropped' /\ manager[c] # "closing"
              => Has(ws'[c].out, p.stream, p.type)
         /\ \A s \in StreamId :
              /\ s # p.stream /\ streams'[c][s] = streams[c][s]
              /\ client'[c].state[s] = client[c].state[s]
              /\ client'[c].credit[s] = client[c].credit[s]
              => SameStream(c, s)
<1> DEFINE q == ws[c].out
           r == ws'[c].out
<1>1. q \in Seq(Packet) /\ Whole(q) /\ Final(q)
  BY DEF TypeOK, Flow, ClientFlow
<1>2. /\ \A d \in Conn : d # c => ws'[d] = ws[d]
      /\ r = q \/ r = q \o <<p>>
      /\ manager[c] = "closing" => r = q
      /\ /\ manager[c] # "closing" /\ ws[c].backlog <= MAX_BACKPRESSURE
         /\ ws'[c].backlog <= MAX_BACKPRESSURE
         => r = q \o <<p>>
  BY SendOne, Zenon
<1>3. NothingDropped /\ NothingDropped' /\ manager[c] # "closing" => r = q \o <<p>>
  BY <1>2 DEF NothingDropped
<1>4. ~Has(q, p.stream, "CLOSE")
  OBVIOUS
<1>5. \A d \in Conn : d # c => ws'[d].out = ws[d].out
  BY <1>2
<1> HIDE DEF q, r
<1>6. /\ \A s, t : Has(q, s, t) => Has(r, s, t)
      /\ \A s, t : Has(r, s, t) => Has(q, s, t) \/ (p.stream = s /\ p.type = t)
      /\ r = q \o <<p>> => Has(r, p.stream, p.type)
      /\ \A s : One(q, s) /\ (p.stream # s \/ p.type # "CONTINUE" \/ ~Has(q, s, "CONTINUE"))
                  => One(r, s)
      /\ Whole(q) /\ (p.type = "CONTINUE" => p.buffer = BUFFER_COUNT) => Whole(r)
      /\ Final(q) /\ ~Has(q, p.stream, "CLOSE") => Final(r)
  BY <1>1, <1>2, GrownByOne, Zenon
<1>7. ASSUME NEW s \in StreamId, s # p.stream, streams'[c][s] = streams[c][s],
             client'[c].state[s] = client[c].state[s], client'[c].credit[s] = client[c].credit[s]
      PROVE  SameStream(c, s)
  <2>1. \A t : Has(r, s, t) => Has(q, s, t)
    BY <1>6, <1>7, Zenon
  <2>2. Has(q, s, "CONTINUE") => Has(r, s, "CONTINUE")
    BY <1>6, Zenon
  <2>3. One(q, s) => One(r, s)
    BY <1>6, <1>7, Zenon
  <2> QED BY <1>7, <2>1, <2>2, <2>3, Zenon DEF SameStream, q, r
<1> QED BY <1>1, <1>2, <1>3, <1>4, <1>5, <1>6, <1>7, Zenon DEF q, r
----------------------------------------------------------------------------
(* The callbacks of uWebSockets.                                           *)

LEMMA FlowConnect ==
  ASSUME Conforming, TypeOK, TypeOK', Ownership, Flow,
         NEW c \in Conn, NEW s \in StreamId, NEW type \in Asked, RecvConnect(c, s, type)
  PROVE  FlowStep
<1> USE DEF mgrVars, deferVars, kernelVars, poolVars, netVars
<1>1. /\ loop.at = "idle" /\ manager[c] = "open" /\ UNCHANGED <<manager, streams>>
      /\ client[c].state[s] = "unused" /\ client[c].credit[0] > 0
      /\ client' = [client EXCEPT ![c].state[s] = type, ![c].credit[s] = client[c].credit[0]]
      /\ handle_connect(c, s, type)
  BY Zenon DEF RecvConnect
<1>2. /\ client'[c].state[s] = type /\ type \in StreamType
      /\ client'[c].credit[s] = client[c].credit[0]
      /\ client'[c].credit[0] = client[c].credit[0]
      /\ \A t \in StreamId : t # s =>
           client'[c].state[t] = client[c].state[t] /\ client'[c].credit[t] = client[c].credit[t]
      /\ \A d \in Conn : d # c => client'[d] = client[d]
  <2>1. client \in [Conn -> ClientState] /\ client[c] \in ClientState /\ type \in StreamType
    BY StateAssumption DEF TypeOK, StreamType
  <2>2. client'[c].state = [client[c].state EXCEPT ![s] = type]
    BY <1>1, <2>1 DEF ClientState
  <2>3. client'[c].credit = [client[c].credit EXCEPT ![s] = client[c].credit[0]]
    BY <1>1, <2>1 DEF ClientState
  <2>4. \A d \in Conn : d # c => client'[d] = client[d]
    BY <1>1, <2>1
  <2>5. client[c].state \in [StreamId -> StreamType \cup {"unused", "closed"}]
        /\ client[c].credit \in [StreamId \cup {0} -> Nat]
    BY <2>1 DEF ClientState
  <2> QED BY <2>1, <2>2, <2>3, <2>4, <2>5, StateAssumption
<1>3. /\ ~Live(c, s) /\ ~Live(c, s)' /\ ~Spends(c, s)' /\ \A t : ~Has(ws[c].out, s, t)
  BY <1>1 DEF Ownership, FreshIds, Flow, QueueFlow, Live, Spends
<1>4. client[c].credit[0] = BUFFER_COUNT /\ client'[c].credit[0] = BUFFER_COUNT /\ type # "unused"
  BY <1>1, <1>2 DEF Flow, ClientFlow, StreamType
<1>5. CASE SendTo(c, <<Close("0x41", s)>>) /\ UNCHANGED loop
  <2> DEFINE p == Close("0x41", s)
  <2>1. p \in Packet /\ p.stream = s /\ p.type = "CLOSE"
    BY PacketTypes, PacketFields
  <2> HIDE DEF p
  <2>2. SendTo(c, <<p>>) /\ ~Has(ws[c].out, p.stream, "CLOSE")
    BY <1>3, <1>5, <2>1 DEF p
  <2>3. Elsewhere(c, {s})
    <3>0. streams' = streams /\ p.type # "CONTINUE"
      BY <1>1, <2>1
    <3>1. \A t \in StreamId : t # s => SameStream(c, t)
      BY <1>2, <2>1, <2>2, <3>0, OnePacket
    <3>2. \A d \in Conn : d # c => ws'[d].out = ws[d].out
      BY <2>1, <2>2, OnePacket
    <3> QED BY <1>1, <1>2, <1>5, <3>1, <3>2 DEF Elsewhere, AtConnect
  <2>4. ClientFlow(c)'
    BY <1>1, <1>4, <2>1, <2>2, OnePacket DEF ClientFlow
  <2>5. QueueFlow(c, s)' /\ CreditFlow(c, s)'
    BY <1>1, <1>2, <1>3, <1>4, <1>5 DEF QueueFlow, CreditFlow, AtConnect
  <2> QED BY <1>3, <2>3, <2>4, <2>5, StreamsMove, CreditUntouched DEF FlowStep
<1>6. CASE /\ UNCHANGED ws
           /\ \E fd \in Fd : loop' = [at |-> "connect", c |-> c, s |-> s, type |-> type, fd |-> fd]
  <2>1. loop'.at = "connect" /\ loop'.c = c /\ loop'.s = s /\ loop'.type = type
    BY <1>6
  <2>2. Elsewhere(c, {s})
    BY <1>1, <1>2, <1>6, <2>1 DEF Elsewhere, SameStream, AtConnect
  <2>3. ClientFlow(c)'
    BY <1>1, <1>4, <1>6 DEF Flow, ClientFlow
  <2>4. QueueFlow(c, s)' /\ CreditFlow(c, s)'
    BY <1>1, <1>2, <1>3, <1>4, <1>6, <2>1 DEF QueueFlow, CreditFlow, AtConnect
  <2> QED BY <1>3, <2>2, <2>3, <2>4, StreamsMove, CreditUntouched DEF FlowStep
<1> QED BY <1>1, <1>5, <1>6, Zenon DEF handle_connect

(* handle_data: nothing wraps as long as something is left. *)
LEMMA OneCharged ==
  ASSUME NEW b \in Nat, NEW u \in Nat, 0 < b, b < u
  PROVE  (b + u - 1) % u = b - 1
  OBVIOUS

LEMMA FlowData ==
  ASSUME Conforming, TypeOK, TypeOK', Ownership, Flow,
         NEW c \in Conn, NEW s \in StreamId, RecvData(c, s)
  PROVE  FlowStep
<1> USE DEF mgrVars, deferVars, kernelVars, poolVars, netVars
<1> DEFINE tcp == client[c].state[s] = "tcp"
<1>1. /\ loop.at = "idle" /\ manager[c] = "open" /\ UNCHANGED <<manager, loop>>
      /\ client[c].state[s] \in StreamType /\ (tcp => client[c].credit[s] > 0)
      /\ client' = [client EXCEPT ![c].sent[s] = @ + 1,
                      ![c].credit[s] = IF tcp /\ @ > 0 THEN @ - 1 ELSE @]
      /\ handle_data(c, s, client[c].sent[s] + 1)
  BY Zenon DEF RecvData
<1>2. /\ client'[c].state[s] = client[c].state[s]
      /\ client'[c].credit[s] = IF tcp THEN client[c].credit[s] - 1 ELSE client[c].credit[s]
      /\ client'[c].credit[0] = client[c].credit[0] /\ client[c].credit[s] \in Nat
      /\ \A t \in StreamId : t # s =>
           client'[c].state[t] = client[c].state[t] /\ client'[c].credit[t] = client[c].credit[t]
      /\ \A d \in Conn : d # c => client'[d] = client[d]
  <2>1. client \in [Conn -> ClientState] /\ client[c] \in ClientState
    BY DEF TypeOK
  <2>2. client'[c].state = client[c].state
    BY <1>1, <2>1 DEF ClientState
  <2>3. client'[c].credit = [client[c].credit EXCEPT ![s] = IF tcp /\ @ > 0 THEN @ - 1 ELSE @]
    <3> HIDE DEF tcp
    <3> QED BY <1>1, <2>1 DEF ClientState
  <2>4. \A d \in Conn : d # c => client'[d] = client[d]
    BY <1>1, <2>1
  <2>5. client[c].credit \in [StreamId \cup {0} -> Nat]
    BY <2>1 DEF ClientState
  <2> DEFINE x == IF tcp /\ client[c].credit[s] > 0 THEN client[c].credit[s] - 1 ELSE client[c].credit[s]
  <2>6. client'[c].credit = [client[c].credit EXCEPT ![s] = x]
    BY <2>3, Zenon
  <2> HIDE DEF x
  <2>7. client'[c].credit[s] = x /\ \A t \in StreamId \cup {0} : t # s => client'[c].credit[t] = client[c].credit[t]
    BY <2>5, <2>6
  <2>8. x = IF tcp THEN client[c].credit[s] - 1 ELSE client[c].credit[s]
    BY <1>1 DEF x
  <2> HIDE DEF tcp
  <2> QED BY <2>2, <2>4, <2>5, <2>7, <2>8, StateAssumption
<1>3. QueueFlow(c, s) /\ CreditFlow(c, s) /\ ClientFlow(c)
  BY Zenon DEF Flow
<1>4. client[c].state[s] # "unused" /\ client[c].state[s] # "closed"
  BY <1>1 DEF StreamType
<1> HIDE DEF tcp
<1>5. CASE ~Live(c, s) /\ UNCHANGED <<streams, ws>>
  <2>1. Elsewhere(c, {s}) /\ ~Spends(c, s)'
    BY <1>1, <1>2, <1>5 DEF Elsewhere, SameStream, AtConnect, Spends, Live
  <2>2. ClientFlow(c)'
    BY <1>1, <1>2, <1>3, <1>5 DEF ClientFlow
  <2>3. QueueFlow(c, s)' /\ CreditFlow(c, s)'
    BY <1>1, <1>2, <1>4, <1>5, <2>1 DEF QueueFlow, CreditFlow, AtConnect, Live
  <2> QED BY <2>1, <2>2, <2>3, StreamsMove, CreditUntouched DEF FlowStep
<1>6. CASE Live(c, s) /\ streams[c][s].stream_type = "udp" /\ UNCHANGED <<streams, ws>>
  <2>1. Elsewhere(c, {s}) /\ ~Spends(c, s)'
    BY <1>1, <1>2, <1>6 DEF Elsewhere, SameStream, AtConnect, Spends, Live
  <2>2. ClientFlow(c)'
    BY <1>1, <1>2, <1>3, <1>6 DEF ClientFlow
  <2>3. QueueFlow(c, s)' /\ CreditFlow(c, s)'
    BY <1>1, <1>2, <1>3, <1>4, <1>6, <2>1 DEF QueueFlow, CreditFlow, AtConnect, Live
  <2> QED BY <2>1, <2>2, <2>3, StreamsMove, CreditUntouched DEF FlowStep
<1>7. CASE Live(c, s) /\ streams[c][s].stream_type # "udp" /\ charge(c, s)
  <2> DEFINE left == (streams[c][s].buffer + U32 - 1) % U32
  <2>1. streams[c][s] \in Stream /\ streams[c][s].stream_type = "tcp"
    BY <1>7 DEF TypeOK, Live, Stream, StreamType
  <2>2. Spends(c, s) /\ client[c].credit[s] > 0 /\ tcp
    BY <1>1, <1>3, <1>4, <1>7, <2>1 DEF Spends, QueueFlow, tcp
  <2>3. /\ client[c].credit[s] <= streams[c][s].buffer /\ streams[c][s].buffer <= BUFFER_COUNT
        /\ One(ws[c].out, s) /\ ~Has(ws[c].out, s, "CONTINUE") /\ ~Has(ws[c].out, s, "CLOSE")
    BY <1>1, <1>3, <1>7, <2>2 DEF CreditFlow, QueueFlow
  <2>4. left = streams[c][s].buffer - 1 /\ streams[c][s].buffer \in Nat /\ streams[c][s].buffer > 0
    <3>1. streams[c][s].buffer \in 1 .. BUFFER_COUNT
      BY <1>2, <2>1, <2>2, <2>3, StateAssumption DEF Stream
    <3>2. ASSUME NEW b \in 1 .. BUFFER_COUNT PROVE (b + U32 - 1) % U32 = b - 1 /\ b \in Nat /\ b > 0
      BY ONLY <3>2, StateAssumption, OneCharged, SMT
    <3> QED BY <3>1, <3>2, Zenon
  <2> DEFINE q == ws[c].out
             n == streams'[c][s].buffer
  <2>5. ASSUME NEW m \in 0 .. U32 - 1, streams' = [streams EXCEPT ![c][s].buffer = m]
        PROVE  /\ n = m /\ Live(c, s)' /\ streams'[c][s].stream_type = "tcp" /\ Spends(c, s)'
               /\ \A t \in StreamId : t # s => streams'[c][t] = streams[c][t]
               /\ \A d \in Conn : d # c => streams'[d] = streams[d]
    <3>1. streams'[c][s] = [streams[c][s] EXCEPT !.buffer = m]
      BY <2>5 DEF TypeOK
    <3>2. streams'[c][s] \in Stream /\ n = m /\ streams'[c][s].stream_type = "tcp"
      BY <2>1, <3>1 DEF Stream
    <3>3. Live(c, s)'
      BY <3>2, NoStreamAssumption DEF Live
    <3> QED BY <1>2, <2>2, <2>5, <3>2, <3>3 DEF Spends, TypeOK
  <2> HIDE DEF left, q, n
  <2>6. CASE streams' = [streams EXCEPT ![c][s].buffer = left] /\ UNCHANGED ws
    <3>1. left \in 0 .. U32 - 1
      BY <2>3, <2>4, StateAssumption
    <3>2. /\ n = left /\ Live(c, s)' /\ streams'[c][s].stream_type = "tcp" /\ Spends(c, s)'
          /\ \A t \in StreamId : t # s => streams'[c][t] = streams[c][t]
          /\ \A d \in Conn : d # c => streams'[d] = streams[d]
      BY <2>5, <2>6, <3>1, Zenon
    <3>3. Elsewhere(c, {s})
      BY <1>1, <1>2, <2>6, <3>2 DEF Elsewhere, SameStream, AtConnect
    <3>4. ClientFlow(c)'
      BY <1>1, <1>2, <1>3, <2>6 DEF ClientFlow
    <3>5. QueueFlow(c, s)'
      BY <1>1, <1>2, <1>3, <1>4, <1>7, <2>1, <2>6, <3>2 DEF QueueFlow, AtConnect
    <3>6. CreditFlow(c, s)'
      BY <1>2, <2>2, <2>3, <2>4, <2>6, <3>2, StateAssumption DEF CreditFlow, n
    <3>7. /\ Flow'
          /\ \A i \in Pairs : ~(i[1] = c /\ i[2] \in {s}) => SameCredit(i)
          /\ StreamView(c, s) /\ StreamView(c, s)'
      BY <3>3, <3>4, <3>5, <3>6, StreamsMove
    <3>8. CreditStep
      <4>1. \A i \in Pairs : i # <<c, s>> => SameCredit(i)
        BY <3>7 DEF Pairs
      <4> DEFINE i == <<c, s>>
      <4>2. /\ i \in Pairs /\ i \in Spending /\ i \in Spending'
            /\ Credits[i] = client[c].credit[s] /\ Credits'[i] = client'[c].credit[s]
            /\ Buffers[i] = streams[c][s].buffer /\ Buffers'[i] = n
            /\ Grants[i] = FALSE /\ Grants'[i] = FALSE
        BY <2>2, <2>3, <2>6, <3>2, <3>7 DEF StreamView, n
      <4>3. Credits[i] > 0 /\ Credits'[i] = Credits[i] - 1 /\ Buffers'[i] = Buffers[i] - 1
            /\ Grants'[i] = Grants[i]
        BY <1>2, <2>2, <2>4, <3>2, <4>2
      <4> HIDE DEF i
      <4> QED BY <4>1, <4>2, <4>3, CreditSends DEF i
    <3> QED BY <3>7, <3>8 DEF FlowStep
  <2>7. CASE left = 0 /\ streams' = [streams EXCEPT ![c][s].buffer = BUFFER_COUNT]
             /\ SendTo(c, <<Continue(s)>>)
    <3>1. BUFFER_COUNT \in 0 .. U32 - 1
      BY StateAssumption
    <3>2. /\ n = BUFFER_COUNT /\ Live(c, s)' /\ streams'[c][s].stream_type = "tcp" /\ Spends(c, s)'
          /\ \A t \in StreamId : t # s => streams'[c][t] = streams[c][t]
          /\ \A d \in Conn : d # c => streams'[d] = streams[d]
      BY <2>5, <2>7, <3>1, Zenon
    <3> DEFINE p == Continue(s)
    <3>3. p \in Packet /\ p.stream = s /\ p.type = "CONTINUE" /\ p.buffer = BUFFER_COUNT
      BY PacketTypes, PacketFields
    <3> HIDE DEF p
    <3>4. SendTo(c, <<p>>) /\ ~Has(ws[c].out, p.stream, "CLOSE")
      BY <2>3, <2>7, <3>3 DEF p
    <3>5. Elsewhere(c, {s})
      <4>1. \A t \in StreamId : t # s => SameStream(c, t)
        BY <1>1, <1>2, <3>2, <3>3, <3>4, OnePacket
      <4>2. \A d \in Conn : d # c => ws'[d].out = ws[d].out
        BY <3>3, <3>4, OnePacket
      <4> QED BY <1>1, <1>2, <3>2, <4>1, <4>2 DEF Elsewhere, AtConnect
    <3>6. ClientFlow(c)'
      BY <1>1, <1>2, <1>3, <3>3, <3>4, OnePacket DEF ClientFlow
    <3>7. ~Has(ws'[c].out, s, "CLOSE") /\ One(ws'[c].out, s)
      BY <2>3, <3>3, <3>4, OnePacket
    <3>8. QueueFlow(c, s)'
      BY <1>1, <1>2, <1>3, <1>4, <1>7, <2>1, <3>2, <3>7 DEF QueueFlow, AtConnect
    <3>9. client[c].credit[s] = 1 /\ client'[c].credit[s] = 0 /\ streams[c][s].buffer = 1
      BY <1>2, <2>2, <2>3, <2>4, <2>7
    <3>10. CreditFlow(c, s)'
      BY <3>2, <3>7, <3>9, StateAssumption DEF CreditFlow, n
    <3>11. /\ Flow'
           /\ \A i \in Pairs : ~(i[1] = c /\ i[2] \in {s}) => SameCredit(i)
           /\ StreamView(c, s) /\ StreamView(c, s)'
      BY <3>5, <3>6, <3>8, <3>10, StreamsMove
    <3>12. ASSUME NothingDropped, NothingDropped' PROVE CreditStep
      <4>1. \A i \in Pairs : i # <<c, s>> => SameCredit(i)
        BY <3>11 DEF Pairs
      <4>2. Has(ws'[c].out, s, "CONTINUE")
        BY <1>1, <3>3, <3>4, <3>12, OnePacket
      <4> DEFINE i == <<c, s>>
      <4>3. /\ i \in Pairs /\ i \in Spending /\ i \in Spending'
            /\ Credits[i] = client[c].credit[s] /\ Credits'[i] = client'[c].credit[s]
            /\ Buffers[i] = streams[c][s].buffer /\ Buffers'[i] = n /\ Grants'[i] = TRUE
        BY <2>2, <3>2, <3>11, <4>2 DEF StreamView, n
      <4>4. Credits[i] > 0 /\ Credits'[i] = Credits[i] - 1 /\ Buffers[i] = 1
            /\ Buffers'[i] = BUFFER_COUNT
        BY <3>2, <3>9, <4>3
      <4> HIDE DEF i
      <4> QED BY <4>1, <4>3, <4>4, CreditSends DEF i
    <3> QED BY <3>11, <3>12 DEF FlowStep
  <2> QED BY <1>7, <2>6, <2>7, Zenon DEF charge, left
<1> QED BY <1>1, <1>5, <1>6, <1>7, Zenon DEF handle_data, charge

LEMMA FlowClientCloses ==
  ASSUME Conforming, TypeOK, TypeOK', Ownership, Flow,
         NEW c \in Conn, NEW s \in StreamId, RecvClose(c, s)
  PROVE  FlowStep
<1> USE DEF mgrVars, deferVars, kernelVars, poolVars, netVars
<1>1. /\ loop.at = "idle" /\ manager[c] = "open" /\ UNCHANGED <<manager, streams, loop, ws>>
      /\ client' = [client EXCEPT ![c].state[s] = "closed"]
  BY Zenon DEF RecvClose
<1>2. /\ client'[c].state[s] = "closed" /\ client'[c].credit = client[c].credit
      /\ \A t \in StreamId : t # s => client'[c].state[t] = client[c].state[t]
      /\ \A d \in Conn : d # c => client'[d] = client[d]
  <2>1. client \in [Conn -> ClientState] /\ client[c] \in ClientState
    BY DEF TypeOK
  <2>2. client'[c].state = [client[c].state EXCEPT ![s] = "closed"]
    BY <1>1, <2>1 DEF ClientState
  <2>3. client'[c].credit = client[c].credit
    BY <1>1, <2>1 DEF ClientState
  <2>4. \A d \in Conn : d # c => client'[d] = client[d]
    BY <1>1, <2>1
  <2>5. client[c].state \in [StreamId -> StreamType \cup {"unused", "closed"}]
    BY <2>1 DEF ClientState
  <2> QED BY <2>2, <2>3, <2>4, <2>5
<1>3. QueueFlow(c, s) /\ ClientFlow(c)
  BY Zenon DEF Flow
<1>4. Elsewhere(c, {s}) /\ ~Spends(c, s)'
  BY <1>1, <1>2 DEF Elsewhere, SameStream, AtConnect, Spends
<1>5. ClientFlow(c)'
  BY <1>1, <1>2, <1>3 DEF ClientFlow
<1>6. QueueFlow(c, s)' /\ CreditFlow(c, s)'
  BY <1>1, <1>2, <1>3, <1>4 DEF QueueFlow, CreditFlow, AtConnect, Live
<1> QED BY <1>4, <1>5, <1>6, StreamsMove, CreditUntouched DEF FlowStep

LEMMA FlowReceive ==
  ASSUME Conforming, TypeOK, TypeOK', Ownership, Flow, NEW c \in Conn, ClientReceive(c)
  PROVE  FlowStep
<1> USE DEF mgrVars, deferVars, kernelVars, poolVars, netVars
<1> DEFINE q == ws[c].out
           p == Head(q)
           me == client[c]
<1>1. /\ Len(q) > ws[c].backlog /\ UNCHANGED <<manager, streams, loop>>
      /\ ws' = [ws EXCEPT ![c].out = Tail(@)]
      /\ client' = [client EXCEPT ![c] =
           CASE p.type = "CONTINUE" -> [me EXCEPT !.credit[p.stream] = p.buffer]
             [] p.type = "CLOSE"    -> [me EXCEPT !.state[p.stream] = "closed"]
             [] p.type = "DATA"     -> [me EXCEPT !.got[p.stream] = @ \o p.data]]
  BY Zenon DEF ClientReceive
<1>2. q \in Seq(Packet) /\ q # <<>>
  <2>1. q \in Seq(Packet) /\ ws[c].backlog \in Nat
    BY DEF TypeOK
  <2> HIDE DEF q
  <2> QED BY <1>1, <2>1
<1>3. ws'[c].out = Tail(q) /\ \A d \in Conn : d # c => ws'[d] = ws[d]
  <2>1. ws' = [ws EXCEPT ![c].out = Tail(@)]
    BY <1>1, Zenon
  <2> QED BY <2>1 DEF TypeOK
<1>4. me \in ClientState /\ client \in [Conn -> ClientState]
  BY DEF TypeOK
<1>5. \A d \in Conn : d # c => client'[d] = client[d]
  BY <1>1, <1>4, Zenon
<1>6. ClientFlow(c) /\ Whole(q) /\ Final(q) /\ \A s \in StreamId : QueueFlow(c, s) /\ CreditFlow(c, s)
  BY Zenon DEF Flow, ClientFlow
<1>7. manager[c] = "open"
  BY <1>2, <1>6 DEF ClientFlow
<1> HIDE DEF q, p, me
<1>8. /\ p \in Packet /\ p = q[1] /\ 1 \in DOMAIN q
      /\ \A s, t : Has(Tail(q), s, t) => Has(q, s, t)
      /\ \A s, t : Has(q, s, t) /\ ~(p.stream = s /\ p.type = t) => Has(Tail(q), s, t)
      /\ \A s : One(q, s) => One(Tail(q), s)
      /\ \A s : One(q, s) /\ p.stream = s /\ p.type = "CONTINUE" => ~Has(Tail(q), s, "CONTINUE")
      /\ Whole(Tail(q)) /\ Final(Tail(q))
  BY <1>2, <1>6, Shrunk, Zenon DEF p
<1>9. Has(q, p.stream, p.type)
  BY <1>8 DEF Has
<1>10. ASSUME NEW t \in StreamId, ~(p.stream = t /\ p.type = "CONTINUE"),
              client'[c].state[t] = client[c].state[t], client'[c].credit[t] = client[c].credit[t]
       PROVE  SameStream(c, t)
  BY <1>1, <1>3, <1>8, <1>10, Zenon DEF SameStream, q
<1>11. ASSUME NEW S \in SUBSET StreamId,
              \A t \in StreamId : t \notin S => SameStream(c, t)
       PROVE  Elsewhere(c, S)
  BY <1>1, <1>3, <1>5, <1>11 DEF Elsewhere, AtConnect
<1>12. ASSUME client'[c].credit[0] \in {0, BUFFER_COUNT} PROVE ClientFlow(c)'
  BY <1>1, <1>3, <1>7, <1>8, <1>12 DEF ClientFlow
<1>13. client[c].credit[0] \in {0, BUFFER_COUNT} /\ (p.type = "CONTINUE" => p.buffer = BUFFER_COUNT)
  BY <1>6, <1>8 DEF ClientFlow, Whole
<1>14. CASE p.type = "CONTINUE"
  <2>1. p.stream \in StreamId \cup {0}
    BY <1>8, <1>14 DEF Packet
  <2>2. client'[c] = [me EXCEPT !.credit[p.stream] = p.buffer]
    BY <1>1, <1>4, <1>14, Zenon DEF me
  <2>3. client'[c].state = me.state /\ client'[c].credit = [me.credit EXCEPT ![p.stream] = p.buffer]
    BY <1>4, <2>2 DEF ClientState
  <2>4. me.credit \in [StreamId \cup {0} -> Nat]
    BY <1>4 DEF ClientState
  <2>5. /\ client'[c].credit[p.stream] = BUFFER_COUNT
        /\ \A t \in StreamId \cup {0} : t # p.stream => client'[c].credit[t] = client[c].credit[t]
    BY <1>13, <1>14, <2>1, <2>3, <2>4 DEF me
  <2>6. client'[c].credit[0] \in {0, BUFFER_COUNT}
    BY <1>13, <2>5
  <2>7. \A t \in StreamId : t # p.stream => SameStream(c, t)
    BY <1>10, <2>3, <2>5, Zenon DEF me
  <2>8. CASE p.stream = 0
    <3>1. Elsewhere(c, {})
      BY <1>11, <2>7, <2>8, StateAssumption
    <3> QED BY <1>12, <2>6, <3>1, StreamsMove, CreditUntouched DEF FlowStep
  <2>9. CASE p.stream # 0
    <3> PICK s : s = p.stream
      OBVIOUS
    <3>1. s \in StreamId /\ Has(q, s, "CONTINUE")
      BY <1>9, <1>14, <2>1, <2>9
    <3>2. Elsewhere(c, {s})
      BY <1>11, <2>7, <3>1
    <3>3. QueueFlow(c, s) /\ CreditFlow(c, s)
      BY <1>6, <3>1
    <3>4. QueueFlow(c, s)'
      <4>1. client[c].state[s] # "unused" /\ ~AtConnect(c, s)
        BY <1>7, <3>1, <3>3 DEF QueueFlow, q
      <4>2. client'[c].state[s] = client[c].state[s] /\ ~AtConnect(c, s)'
        BY <1>1, <2>3, <4>1 DEF AtConnect, me
      <4>3. manager'[c] = manager[c] /\ streams'[c][s] = streams[c][s]
        BY <1>1
      <4>4. ~Has(q, s, "CLOSE") => ~Has(ws'[c].out, s, "CLOSE")
        BY <1>3, <1>8
      <4> QED BY <3>3, <4>1, <4>2, <4>3, <4>4 DEF QueueFlow, Live, q
    <3>5. Spends(c, s)' <=> Spends(c, s)
      BY <1>1, <2>3, <3>1 DEF Spends, Live, me
    <3>6. Spends(c, s) => /\ client[c].credit[s] = 0 /\ streams[c][s].buffer = BUFFER_COUNT
                          /\ One(q, s) /\ One(Tail(q), s) /\ ~Has(Tail(q), s, "CONTINUE")
      BY <1>8, <1>14, <3>1, <3>3 DEF CreditFlow, q
    <3>7. client'[c].credit[s] = BUFFER_COUNT /\ BUFFER_COUNT <= BUFFER_COUNT
      BY <2>5, StateAssumption
    <3>8. CreditFlow(c, s)'
      BY <1>1, <1>3, <3>5, <3>6, <3>7 DEF CreditFlow
    <3>9. /\ Flow'
          /\ \A i \in Pairs : ~(i[1] = c /\ i[2] \in {s}) => SameCredit(i)
          /\ \A t \in StreamId : StreamView(c, t) /\ StreamView(c, t)'
      BY <1>12, <2>6, <3>1, <3>2, <3>4, <3>8, StreamsMove
    <3>10. CreditStep
      <4>1. CASE ~Spends(c, s)
        <5>1. ~Spends(c, s)'
          BY <3>5, <4>1
        <5> DEFINE S == {s}
        <5>2. S \in SUBSET StreamId /\ \A x \in S : ~Spends(c, x)'
          BY <3>1, <5>1
        <5>3. \A i \in Pairs : ~(i[1] = c /\ i[2] \in S) => SameCredit(i)
          BY <3>9
        <5>4. \A x \in StreamId : StreamView(c, x) /\ StreamView(c, x)'
          BY <3>9
        <5> HIDE DEF S
        <5> QED BY <5>2, <5>3, <5>4, CreditUntouched
      <4>2. CASE Spends(c, s)
        <5>1. \A i \in Pairs : i # <<c, s>> => SameCredit(i)
          BY <3>9 DEF Pairs
        <5> DEFINE i == <<c, s>>
        <5>2. StreamView(c, s) /\ StreamView(c, s)'
          BY <3>1, <3>9
        <5>3. /\ i \in Pairs /\ i \in Spending /\ i \in Spending'
              /\ Credits[i] = 0 /\ Credits'[i] = BUFFER_COUNT /\ Buffers[i] = BUFFER_COUNT
              /\ Buffers'[i] = BUFFER_COUNT /\ Grants[i] = TRUE /\ Grants'[i] = FALSE
          BY <1>1, <1>3, <3>1, <3>5, <3>6, <3>7, <4>2, <5>2 DEF StreamView, q
        <5> HIDE DEF i
        <5> QED BY <5>1, <5>3, CreditReceived DEF i
      <4> QED BY <4>1, <4>2
    <3> QED BY <3>9, <3>10 DEF FlowStep
  <2> QED BY <2>8, <2>9
<1>15. CASE p.type = "CLOSE"
  <2> PICK s : s = p.stream
    OBVIOUS
  <2>1. s \in StreamId /\ Has(q, s, "CLOSE")
    BY <1>8, <1>9, <1>15 DEF Packet
  <2>2. client'[c] = [me EXCEPT !.state[s] = "closed"]
    <3>1. p.type # "CONTINUE"
      BY <1>15
    <3> QED BY <1>1, <1>4, <1>15, <3>1, Zenon DEF me
  <2>3. client'[c].credit = me.credit /\ client'[c].state = [me.state EXCEPT ![s] = "closed"]
    BY <1>4, <2>2 DEF ClientState
  <2>4. me.state \in [StreamId -> StreamType \cup {"unused", "closed"}]
    BY <1>4 DEF ClientState
  <2>5. /\ client'[c].state[s] = "closed"
        /\ \A t \in StreamId : t # s => client'[c].state[t] = client[c].state[t]
    BY <2>1, <2>3, <2>4 DEF me
  <2>6. \A t \in StreamId : t # s => SameStream(c, t)
    BY <1>10, <2>3, <2>5, Zenon DEF me
  <2>7. Elsewhere(c, {s})
    BY <1>11, <2>1, <2>6
  <2>8. QueueFlow(c, s)
    BY <1>6, <2>1
  <2>9. ~Live(c, s) /\ ~AtConnect(c, s) /\ ~Spends(c, s)' /\ ~Live(c, s)'
    BY <1>1, <1>7, <2>1, <2>8 DEF QueueFlow, Spends, Live, q
  <2>10. QueueFlow(c, s)' /\ CreditFlow(c, s)'
    BY <1>1, <2>5, <2>9 DEF QueueFlow, CreditFlow, AtConnect
  <2>11. ClientFlow(c)'
    BY <1>12, <1>13, <2>3 DEF me
  <2> QED BY <2>1, <2>7, <2>9, <2>10, <2>11, StreamsMove, CreditUntouched DEF FlowStep
<1>16. CASE p.type = "DATA"
  <2>1. client'[c] = [me EXCEPT !.got[p.stream] = @ \o p.data]
    <3>1. p.type # "CONTINUE" /\ p.type # "CLOSE"
      BY <1>16
    <3> QED BY <1>1, <1>4, <1>16, <3>1, Zenon DEF me
  <2>2. client'[c].credit = client[c].credit /\ client'[c].state = client[c].state
    BY <1>4, <2>1 DEF ClientState, me
  <2>3. \A t \in StreamId : SameStream(c, t)
    <3>1. p.type # "CONTINUE"
      BY <1>16
    <3> QED BY <1>10, <2>2, <3>1, Zenon
  <2>4. Elsewhere(c, {})
    BY <1>11, <2>3
  <2>5. ClientFlow(c)'
    BY <1>12, <1>13, <2>2
  <2> QED BY <2>4, <2>5, StreamsMove, CreditUntouched DEF FlowStep
<1>17. p.type \in {"CONTINUE", "CLOSE", "DATA"}
  BY <1>8 DEF Packet
<1> QED BY <1>14, <1>15, <1>16, <1>17

LEMMA FlowOpen ==
  ASSUME Conforming, TypeOK, TypeOK', Ownership, Flow, NEW c \in Conn, Open(c)
  PROVE  FlowStep
<1> USE DEF mgrVars, deferVars, kernelVars, poolVars, netVars
<1>1. /\ loop.at = "idle" /\ manager[c] = "none" /\ UNCHANGED <<streams, loop, client>>
      /\ manager' = [manager EXCEPT ![c] = "open"]
      /\ SendTo(c, <<Continue(0)>>)
  BY Zenon DEF Open, Construct
<1>2. manager'[c] = "open" /\ \A d \in Conn : d # c => manager'[d] = manager[d]
  BY <1>1 DEF TypeOK
<1>3. ClientFlow(c) /\ ws[c].out = <<>> /\ \A s, t : ~Has(ws[c].out, s, t)
  BY <1>1 DEF Flow, ClientFlow, Has
<1> DEFINE p == Continue(0)
<1>4. p \in Packet /\ p.stream = 0 /\ p.type = "CONTINUE" /\ p.buffer = BUFFER_COUNT
  BY PacketTypes, PacketFields
<1> HIDE DEF p
<1>5. SendTo(c, <<p>>)
  BY <1>1 DEF p
<1>6. /\ \A d \in Conn : d # c => ws'[d].out = ws[d].out
      /\ \A s \in StreamId : \A t : ~Has(ws'[c].out, s, t)
      /\ Whole(ws'[c].out) /\ Final(ws'[c].out)
  <2>1. /\ \A d \in Conn : d # c => ws'[d].out = ws[d].out
        /\ \A s, t : Has(ws'[c].out, s, t) => Has(ws[c].out, s, t) \/ (p.stream = s /\ p.type = t)
        /\ Whole(ws'[c].out) /\ Final(ws'[c].out)
    BY <1>3, <1>4, <1>5, OnePacket, Zenon
  <2> QED BY <1>3, <1>4, <2>1, StateAssumption
<1>7. \A s \in StreamId : ~Live(c, s) /\ ~Live(c, s)' /\ ~Spends(c, s)'
  BY <1>1 DEF Ownership, EntriesOpen, watched_sockets, Live, Spends
<1>8. Elsewhere(c, StreamId)
  BY <1>1, <1>2, <1>6 DEF Elsewhere, AtConnect
<1>9. ClientFlow(c)'
  BY <1>1, <1>2, <1>3, <1>6 DEF ClientFlow
<1>10. \A s \in StreamId : QueueFlow(c, s)' /\ CreditFlow(c, s)'
  BY <1>1, <1>6, <1>7 DEF QueueFlow, CreditFlow, AtConnect
<1> QED BY <1>7, <1>8, <1>9, <1>10, StreamsMove, CreditUntouched DEF FlowStep

LEMMA FlowWsClosed ==
  ASSUME Conforming, TypeOK, TypeOK', Ownership, Flow, NEW c \in Conn, WsClosed(c)
  PROVE  FlowStep
<1> USE DEF mgrVars, deferVars, kernelVars, poolVars, netVars
<1>1. /\ UNCHANGED streams /\ manager' = [manager EXCEPT ![c] = "closing"]
      /\ loop' = [at |-> "force", c |-> c, todo |-> {s \in StreamId : Live(c, s)}]
      /\ ws' = [ws EXCEPT ![c] = [out |-> <<>>, backlog |-> 0]]
      /\ client' = [client EXCEPT ![c] = InitClient]
  BY Zenon DEF WsClosed
<1>2. /\ manager'[c] = "closing" /\ ws'[c].out = <<>> /\ client'[c] = InitClient
      /\ loop'.at = "force"
      /\ \A d \in Conn : d # c =>
           manager'[d] = manager[d] /\ ws'[d] = ws[d] /\ client'[d] = client[d]
  BY <1>1 DEF TypeOK
<1>3. client'[c].credit[0] = 0 /\ \A s \in StreamId : client'[c].state[s] = "unused"
  BY <1>2 DEF InitClient
<1>4. Whole(ws'[c].out) /\ Final(ws'[c].out)
  BY <1>2 DEF Whole, Final
<1>5. ClientFlow(c)'
  BY <1>2, <1>3, <1>4 DEF ClientFlow
<1>6. Elsewhere(c, StreamId) /\ \A s \in StreamId : ~Spends(c, s)'
  BY <1>1, <1>2, <1>3 DEF Elsewhere, AtConnect, Spends
<1>7. \A s \in StreamId : QueueFlow(c, s)' /\ CreditFlow(c, s)'
  BY <1>2, <1>6 DEF QueueFlow, CreditFlow, AtConnect
<1> QED BY <1>5, <1>6, <1>7, StreamsMove, CreditUntouched DEF FlowStep

----------------------------------------------------------------------------
(* The handlers of the loop thread.                                        *)

LEMMA FlowDestruct ==
  ASSUME Conforming, TypeOK, TypeOK', Ownership, Flow, Destruct
  PROVE  FlowStep
<1> USE DEF mgrVars, deferVars, kernelVars, poolVars, netVars
<1>1. /\ loop.at = "force" /\ loop.todo = {} /\ UNCHANGED <<streams, ws, client>>
      /\ manager' = [manager EXCEPT ![loop.c] = "deleted"] /\ loop' = Idle
  BY Zenon DEF Destruct
<1> PICK c : c = loop.c
  OBVIOUS
<1>2. c \in Conn
  BY <1>1 DEF TypeOK, LoopState
<1>3. manager[c] = "closing" /\ \A s \in StreamId : ~Live(c, s)
  BY <1>1 DEF Ownership, LoopOwns
<1>4. manager'[c] = "deleted" /\ (\A d \in Conn : d # c => manager'[d] = manager[d]) /\ loop'.at = "idle"
  BY <1>1, <1>2 DEF TypeOK, Idle
<1>5. Elsewhere(c, StreamId) /\ \A s \in StreamId : ~Spends(c, s)'
  BY <1>1, <1>3, <1>4 DEF Elsewhere, AtConnect, Spends, Live
<1>6. ClientFlow(c)'
  BY <1>1, <1>2, <1>3, <1>4 DEF Flow, ClientFlow
<1>7. \A s \in StreamId : QueueFlow(c, s)' /\ CreditFlow(c, s)'
  BY <1>4, <1>5 DEF QueueFlow, CreditFlow, AtConnect
<1> QED BY <1>2, <1>5, <1>6, <1>7, StreamsMove, CreditUntouched DEF FlowStep

LEMMA FlowConnectFails ==
  ASSUME Conforming, TypeOK, TypeOK', Ownership, Flow, ConnectFails
  PROVE  FlowStep
<1> USE DEF mgrVars, deferVars, kernelVars, poolVars, netVars
<1> PICK c, s : c = loop.c /\ s = loop.s
  OBVIOUS
<1>1. /\ loop.at = "connect" /\ UNCHANGED <<manager, streams, client>> /\ loop' = Idle
      /\ SendTo(c, <<Close("0x41", s)>>)
  BY Zenon DEF ConnectFails
<1>2. c \in Conn /\ s \in StreamId /\ loop.type \in StreamType
  BY <1>1 DEF TypeOK, LoopState
<1>3. manager[c] = "open" /\ ~Live(c, s) /\ AtConnect(c, s) /\ loop'.at = "idle"
  BY <1>1 DEF Ownership, EntriesOpen, FreshIds, AtConnect, Idle
<1>4. QueueFlow(c, s) /\ ClientFlow(c)
  BY <1>2, Zenon DEF Flow
<1>5. client[c].state[s] \in StreamType /\ \A t : ~Has(ws[c].out, s, t)
  BY <1>2, <1>3, <1>4 DEF QueueFlow
<1> DEFINE p == Close("0x41", s)
<1>6. p \in Packet /\ p.stream = s /\ p.type = "CLOSE" /\ p.type # "CONTINUE"
  BY <1>2, PacketTypes, PacketFields
<1> HIDE DEF p
<1>7. SendTo(c, <<p>>) /\ ~Has(ws[c].out, p.stream, "CLOSE")
  <2>1. ~Has(ws[c].out, p.stream, "CLOSE")
    BY <1>5, <1>6
  <2> QED BY <1>1, <2>1 DEF p
<1>8. /\ \A t \in StreamId : t # s => SameStream(c, t)
      /\ \A d \in Conn : d # c => ws'[d].out = ws[d].out
      /\ Whole(ws'[c].out) /\ Final(ws'[c].out)
  BY <1>1, <1>2, <1>6, <1>7, OnePacket
<1>9. Elsewhere(c, {s}) /\ ~Spends(c, s)' /\ ~Live(c, s)'
  BY <1>1, <1>3, <1>8 DEF Elsewhere, AtConnect, Spends, Live
<1>10. ClientFlow(c)'
  BY <1>1, <1>3, <1>4, <1>8 DEF ClientFlow
<1>11. QueueFlow(c, s)' /\ CreditFlow(c, s)'
  BY <1>1, <1>3, <1>5, <1>9 DEF QueueFlow, CreditFlow, AtConnect, StreamType
<1> QED BY <1>2, <1>9, <1>10, <1>11, StreamsMove, CreditUntouched DEF FlowStep

LEMMA FlowConnectInsert ==
  ASSUME Conforming, TypeOK, TypeOK', Ownership, Flow, ConnectInsert
  PROVE  FlowStep
<1> USE DEF mgrVars, deferVars, kernelVars, poolVars, netVars
<1> PICK c, s, type, fd : c = loop.c /\ s = loop.s /\ type = loop.type /\ fd = loop.fd
  OBVIOUS
<1>1. /\ loop.at = "insert" /\ UNCHANGED <<manager, ws, client>>
      /\ loop' = [at |-> "wake", locked |-> {c}]
      /\ streams' = [streams EXCEPT ![c][s] =
                        [stream_type |-> type, fd |-> fd, buffer |-> BUFFER_COUNT]]
  BY Zenon DEF ConnectInsert
<1>2. c \in Conn /\ s \in StreamId /\ type \in StreamType /\ fd \in Fd
  BY <1>1 DEF TypeOK, LoopState
<1>3. manager[c] = "open" /\ ~Live(c, s) /\ AtConnect(c, s) /\ loop'.at = "wake"
  BY <1>1 DEF Ownership, EntriesOpen, FreshIds, AtConnect
<1>4. QueueFlow(c, s) /\ ClientFlow(c)
  BY <1>2, Zenon DEF Flow
<1>5. /\ client[c].state[s] = type /\ client[c].credit[s] = BUFFER_COUNT
      /\ \A t : ~Has(ws[c].out, s, t)
  BY <1>3, <1>4 DEF QueueFlow
<1>6. /\ streams'[c][s] = [stream_type |-> type, fd |-> fd, buffer |-> BUFFER_COUNT]
      /\ \A t \in StreamId : t # s => streams'[c][t] = streams[c][t]
      /\ \A d \in Conn : d # c => streams'[d] = streams[d]
  BY <1>1, <1>2 DEF TypeOK
<1>7. streams'[c][s].stream_type = type /\ streams'[c][s].buffer = BUFFER_COUNT /\ Live(c, s)'
  <2>1. streams'[c][s] \in Stream
    BY <1>2, <1>6, StateAssumption DEF Stream
  <2> QED BY <1>6, <2>1, NoStreamAssumption DEF Live
<1>8. One(ws[c].out, s)
  BY <1>5 DEF One, Has
<1>9. Elsewhere(c, {s})
  BY <1>1, <1>3, <1>6 DEF Elsewhere, SameStream, AtConnect
<1>10. ClientFlow(c)'
  BY <1>1, <1>3, <1>4 DEF ClientFlow
<1>11. QueueFlow(c, s)'
  BY <1>1, <1>2, <1>3, <1>5, <1>7 DEF QueueFlow, AtConnect, StreamType
<1>12. CreditFlow(c, s)'
  BY <1>1, <1>5, <1>7, <1>8, StateAssumption DEF CreditFlow
<1>13. /\ Flow'
       /\ \A i \in Pairs : ~(i[1] = c /\ i[2] \in {s}) => SameCredit(i)
       /\ \A t \in StreamId : StreamView(c, t) /\ StreamView(c, t)'
  BY <1>2, <1>9, <1>10, <1>11, <1>12, StreamsMove
<1>14. CASE type # "tcp"
  <2>1. ~Spends(c, s)'
    BY <1>7, <1>14 DEF Spends
  <2> QED BY <1>2, <1>9, <1>10, <1>11, <1>12, <2>1, StreamsMove, CreditUntouched DEF FlowStep
<1>15. CASE type = "tcp"
  <2>1. Spends(c, s)' /\ ~Spends(c, s)
    BY <1>1, <1>3, <1>5, <1>7, <1>15 DEF Spends
  <2>2. \A i \in Pairs : i # <<c, s>> => SameCredit(i)
    BY <1>13 DEF Pairs
  <2> DEFINE i == <<c, s>>
  <2>3. /\ i \in Pairs /\ i \notin Spending /\ i \in Spending' /\ Grants'[i] = FALSE
        /\ Credits'[i] = BUFFER_COUNT /\ Buffers'[i] = BUFFER_COUNT
    BY <1>1, <1>2, <1>5, <1>7, <1>13, <2>1 DEF StreamView
  <2> HIDE DEF i
  <2>4. CreditStep
    BY <2>2, <2>3, CreditOpens DEF i
  <2> QED BY <1>13, <2>4 DEF FlowStep
<1> QED BY <1>14, <1>15

(* A packet other than CONTINUE is sent on an entry, which stays or goes. *)
LEMMA FlowEntrySends ==
  ASSUME Conforming, TypeOK, TypeOK', Ownership, Flow, UNCHANGED <<manager, client>>,
         NEW c \in Conn, NEW s \in StreamId, Live(c, s), loop'.at \notin {"connect", "insert"},
         NEW p \in Packet, p.stream = s, p.type # "CONTINUE", SendTo(c, <<p>>),
         \/ UNCHANGED streams /\ p.type = "DATA"
         \/ streams' = [streams EXCEPT ![c][s] = NoStream]
  PROVE  FlowStep
<1>1. QueueFlow(c, s) /\ CreditFlow(c, s) /\ ClientFlow(c)
  BY Zenon DEF Flow
<1>2. manager[c] = "open" => client[c].state[s] # "unused" /\ ~Has(ws[c].out, s, "CLOSE")
  BY <1>1 DEF Ownership, FreshIds, QueueFlow
<1>3. manager[c] # "open" => manager[c] = "closing" /\ ws[c].out = <<>>
  BY <1>1 DEF Ownership, EntriesOpen, watched_sockets, ClientFlow
<1>4. ~Has(ws[c].out, p.stream, "CLOSE")
  BY <1>2, <1>3 DEF Has
<1>5. /\ \A d \in Conn : d # c => streams'[d] = streams[d]
      /\ \A t \in StreamId : t # s => streams'[c][t] = streams[c][t]
      /\ \/ ~Live(c, s)'
         \/ streams'[c][s] = streams[c][s] /\ p.type = "DATA"
  BY DEF TypeOK, Live
<1>6. /\ \A d \in Conn : d # c => ws'[d].out = ws[d].out
      /\ \A t : Has(ws[c].out, s, t) => Has(ws'[c].out, s, t)
      /\ \A t : Has(ws'[c].out, s, t) => Has(ws[c].out, s, t) \/ p.type = t
      /\ One(ws[c].out, s) => One(ws'[c].out, s)
      /\ Whole(ws'[c].out) /\ Final(ws'[c].out)
      /\ manager[c] = "closing" => ws'[c].out = ws[c].out
  BY <1>4, OnePacket
<1>7. \A t \in StreamId : t # s => SameStream(c, t)
  BY <1>4, <1>5, OnePacket
<1>8. Elsewhere(c, {s})
  BY <1>5, <1>6, <1>7 DEF Elsewhere, AtConnect
<1>9. ClientFlow(c)'
  BY <1>1, <1>3, <1>6 DEF ClientFlow
<1>10. QueueFlow(c, s)'
  <2>1. ~AtConnect(c, s)'
    BY DEF AtConnect
  <2>2. manager'[c] = manager[c] /\ client'[c].state[s] = client[c].state[s]
    OBVIOUS
  <2>3. p.type = "DATA" => (Has(ws'[c].out, s, "CLOSE") => Has(ws[c].out, s, "CLOSE"))
    BY <1>6
  <2> QED BY <1>1, <1>2, <1>5, <2>1, <2>2, <2>3 DEF QueueFlow, Live
<1>11. Has(ws'[c].out, s, "CONTINUE") <=> Has(ws[c].out, s, "CONTINUE")
  BY <1>6
<1>12. CreditFlow(c, s)'
  BY <1>1, <1>5, <1>6, <1>11 DEF CreditFlow, Spends, Live
<1>13. \/ ~Spends(c, s)'
       \/ /\ Spends(c, s) /\ client'[c].credit[s] = client[c].credit[s]
          /\ streams'[c][s].buffer = streams[c][s].buffer
          /\ Has(ws'[c].out, s, "CONTINUE") <=> Has(ws[c].out, s, "CONTINUE")
  BY <1>5, <1>11 DEF Spends, Live
<1> QED BY <1>8, <1>9, <1>10, <1>12, <1>13, StreamsMove, CreditUntouched DEF FlowStep

(* close_stream. *)
LEMMA FlowClose ==
  ASSUME Conforming, TypeOK, TypeOK', Ownership, Flow, UNCHANGED <<manager, client>>,
         NEW c \in Conn, NEW s \in StreamId, Live(c, s), loop'.at \notin {"connect", "insert"},
         close_stream(c, s)
  PROVE  FlowStep
<1> DEFINE p == Close("0x02", s)
<1>1. p \in Packet /\ p.stream = s /\ p.type # "CONTINUE"
  BY PacketTypes, PacketFields
<1>2. SendTo(c, <<p>>) /\ streams' = [streams EXCEPT ![c][s] = NoStream]
  BY Zenon DEF close_stream
<1> HIDE DEF p
<1> QED BY <1>1, <1>2, FlowEntrySends

LEMMA FlowDeferred ==
  ASSUME Conforming, TypeOK, TypeOK', Ownership, Flow, RunDeferred
  PROVE  FlowStep
<1> USE DEF mgrVars, deferVars, kernelVars, poolVars, netVars
<1>1. deferred # <<>> /\ UNCHANGED <<manager, streams, client>>
  BY Zenon DEF RunDeferred
<1>2. CASE UNCHANGED ws /\ loop' = [at |-> "finish"]
  <2>1. loop'.at \notin {"connect", "insert"}
    BY <1>2
  <2> QED BY <1>1, <1>2, <2>1, FlowQuiet
<1>3. ASSUME NEW o \in Owners(Head(deferred).fd), SendTo(o[1], <<Data(o[2], Head(deferred).data)>>),
             \/ loop' = [at |-> "finish"]
             \/ loop' = [at |-> "close", c |-> o[1], s |-> o[2]]
      PROVE  FlowStep
  <2> PICK c, s, p : c = o[1] /\ s = o[2] /\ p = Data(o[2], Head(deferred).data)
    OBVIOUS
  <2>1. c \in Conn /\ s \in StreamId /\ Live(c, s)
    BY DEF Owners, watched_sockets
  <2>2. Head(deferred).data \in Seq(Chunk)
    <3>1. Head(deferred) \in Lambda
      BY <1>1 DEF TypeOK
    <3> QED BY <3>1 DEF Lambda
  <2>3. p \in Packet /\ p.stream = s /\ p.type = "DATA" /\ p.type # "CONTINUE"
    BY <2>1, <2>2, PacketTypes, PacketFields
  <2>4. SendTo(c, <<p>>)
    BY <1>3
  <2>5. loop'.at \notin {"connect", "insert"}
    BY <1>3
  <2> QED BY <1>1, <2>1, <2>3, <2>4, <2>5, FlowEntrySends
<1> QED BY <1>2, <1>3, Zenon DEF RunDeferred, Uncount

(* update_streams, entered with websocket w, to which nothing has been     *)
(* added.                                                                  *)
LEMMA FlowUpdate ==
  ASSUME Conforming, TypeOK, TypeOK', Ownership, Flow, UNCHANGED <<manager, client>>,
         NEW c \in Conn, NEW w \in Websocket, NEW hb, update_streams(c, w, hb),
         w.out = ws[c].out, loop'.at \notin {"connect", "insert"}
  PROVE  FlowStep
<1> DEFINE q == ws[c].out
           E == Empty(c)
<1>1. ClientFlow(c) /\ \A s \in StreamId : QueueFlow(c, s) /\ CreditFlow(c, s)
  BY Zenon DEF Flow
<1>2. q \in Seq(Packet) /\ Whole(q) /\ Final(q) /\ E \in SUBSET StreamId
      /\ w.backlog \in Nat
  BY <1>1 DEF TypeOK, ClientFlow, Empty, Websocket
<1>3. CASE UNCHANGED streams /\ ws' = [ws EXCEPT ![c] = w]
  <2>1. \A d \in Conn : ws'[d].out = ws[d].out
    BY <1>3 DEF TypeOK
  <2>2. \A t \in StreamId : SameStream(c, t)
    BY <1>3, <2>1 DEF SameStream
  <2>3. Elsewhere(c, {})
    BY <1>3, <2>1, <2>2 DEF Elsewhere, AtConnect
  <2>4. ClientFlow(c)'
    BY <1>1, <2>1, ClientStays
  <2> QED BY <2>3, <2>4, StreamsMove, CreditUntouched DEF FlowStep
<1>4. ASSUME Refilled(c), NEW packets \in Seq(Packet), ws' = [ws EXCEPT ![c] = Send(c, w, packets)],
             \A i \in DOMAIN packets : \E s \in E : packets[i] = Continue(s),
             \A s \in E : Has(packets, s, "CONTINUE"),
             \A i, j \in DOMAIN packets : packets[i].stream = packets[j].stream => i = j
      PROVE  FlowStep
  <2>1. ws'[c] = Send(c, w, packets) /\ \A d \in Conn : d # c => ws'[d] = ws[d]
    BY <1>4 DEF TypeOK
  <2> DEFINE r == ws'[c].out
  <2>2. PICK sent \in Seq(Packet) :
           /\ r = q \o sent
           /\ \A i \in DOMAIN sent : i \in DOMAIN packets /\ sent[i] = packets[i]
           /\ /\ w.backlog <= MAX_BACKPRESSURE /\ manager[c] # "closing"
              /\ ws'[c].backlog <= MAX_BACKPRESSURE
              => sent = packets
           /\ manager[c] = "closing" => sent = <<>>
           /\ w.backlog <= ws'[c].backlog
    <3>1. \E sent \in Seq(Packet) :
           /\ Send(c, w, packets).out = w.out \o sent
           /\ \A i \in DOMAIN sent : i \in DOMAIN packets /\ sent[i] = packets[i]
           /\ /\ w.backlog <= MAX_BACKPRESSURE /\ manager[c] # "closing"
              /\ Send(c, w, packets).backlog <= MAX_BACKPRESSURE
              => sent = packets
           /\ manager[c] = "closing" => sent = <<>>
           /\ w.backlog <= Send(c, w, packets).backlog
      BY SendOut, Zenon
    <3> QED BY <2>1, <3>1, Zenon
  <2>3. ASSUME NEW i \in DOMAIN sent PROVE \E s \in E : sent[i] = Continue(s)
    <3>1. i \in DOMAIN packets /\ sent[i] = packets[i]
      BY <2>2, Zenon
    <3> QED BY <1>4, <3>1
  <2>4. \A i \in DOMAIN sent : sent[i].stream \in E /\ sent[i].type = "CONTINUE"
                               /\ sent[i].buffer = BUFFER_COUNT
    BY <2>3, PacketFields
  <2>5. \A i, j \in DOMAIN sent : sent[i].stream = sent[j].stream => i = j
    BY <1>4, <2>2, Zenon
  <2>6. NothingDropped /\ NothingDropped' /\ manager[c] = "open" => \A s \in E : Has(sent, s, "CONTINUE")
    <3> SUFFICES ASSUME NothingDropped, NothingDropped', manager[c] = "open"
                 PROVE  sent = packets
      BY <1>4
    <3>1. ws'[c].backlog <= MAX_BACKPRESSURE /\ ws'[c].backlog \in Nat
      BY DEF NothingDropped, TypeOK
    <3>2. w.backlog <= MAX_BACKPRESSURE
      BY <1>2, <2>2, <3>1, StateAssumption
    <3> QED BY <2>2, <3>1, <3>2
  <2> HIDE DEF q, E, r
  <2>7. /\ \A s, t : Has(sent, s, t) => s \in E /\ t = "CONTINUE"
        /\ \A s : One(sent, s)
        /\ Whole(sent) /\ Final(sent)
    BY <2>4, <2>5 DEF Has, One, Whole, Final
  <2>8. /\ \A s \in StreamId : s \notin E => streams'[c][s] = streams[c][s]
        /\ \A s \in E : /\ s \in StreamId /\ Live(c, s) /\ streams'[c][s] # NoStream
                        /\ streams'[c][s].buffer = BUFFER_COUNT
                        /\ streams'[c][s].stream_type = streams[c][s].stream_type
    BY <1>4, RefilledEntries DEF E
  <2>9. \A d \in Conn : d # c => streams'[d] = streams[d]
    BY <1>4 DEF Refilled, TypeOK
  <2>10. \A s \in E : streams[c][s].buffer = 0
    BY DEF E, Empty
  <2>11. ASSUME NEW s \in E, manager[c] = "open"
         PROVE  /\ ~Has(q, s, "CLOSE") /\ client[c].state[s] # "unused"
                /\ Spends(c, s) => client[c].credit[s] = 0 /\ ~Has(q, s, "CONTINUE") /\ One(q, s)
    <3>1. s \in StreamId /\ Live(c, s) /\ QueueFlow(c, s) /\ CreditFlow(c, s) /\ streams[c][s].buffer = 0
      BY <1>1, <2>8, <2>10
    <3>2. client[c].credit[s] \in Nat
      BY <3>1 DEF TypeOK, ClientState
    <3> QED BY <2>11, <3>1, <3>2, StateAssumption DEF QueueFlow, CreditFlow, q, Ownership, FreshIds
  <2>12. /\ \A s, t : Has(r, s, t) <=> Has(q, s, t) \/ Has(sent, s, t)
         /\ \A s : /\ One(q, s) /\ One(sent, s)
                   /\ ~Has(q, s, "CONTINUE") \/ ~Has(sent, s, "CONTINUE")
                   => One(r, s)
         /\ Whole(q) /\ Whole(sent) => Whole(r)
         /\ /\ Final(q) /\ Final(sent)
            /\ \A s, t : Has(q, s, "CLOSE") => ~Has(sent, s, t)
            => Final(r)
    BY <1>2, <2>2, Grown, Zenon
  <2>13. manager[c] # "open" => r = q /\ q = <<>> /\ \A s, t : ~Has(q, s, t)
    <3> SUFFICES ASSUME manager[c] # "open" PROVE r = q /\ q = <<>> /\ \A s, t : ~Has(q, s, t)
      OBVIOUS
    <3>1. q = <<>>
      BY <1>1 DEF ClientFlow, q
    <3>2. sent = <<>>
      <4>1. CASE manager[c] = "closing"
        BY <2>2, <4>1
      <4>2. CASE manager[c] # "closing"
        <5>1. E = {}
          BY <2>8, <4>2 DEF Ownership, EntriesOpen, watched_sockets
        <5>2. DOMAIN sent = {}
          BY <2>4, <5>1
        <5> QED BY <5>2
      <4> QED BY <4>1, <4>2
    <3> QED BY <2>2, <3>1, <3>2 DEF Has
  <2>14. Whole(r) /\ Final(r)
    <3>1. CASE manager[c] # "open"
      BY <1>2, <2>13, <3>1 DEF q
    <3>2. CASE manager[c] = "open"
      <4>1. \A s, t : Has(q, s, "CLOSE") => ~Has(sent, s, t)
        BY <2>7, <2>11, <3>2, Zenon
      <4> QED BY <1>2, <2>7, <2>12, <4>1, Zenon DEF q
    <3> QED BY <3>1, <3>2
  <2>15. ClientFlow(c)'
    BY <1>1, <2>13, <2>14 DEF ClientFlow, r, q
  <2>16. ASSUME NEW t \in StreamId, t \notin E PROVE SameStream(c, t)
    <3>1. \A x : ~Has(sent, t, x)
      BY <2>7, <2>16, Zenon
    <3>2. \A x : Has(r, t, x) <=> Has(q, t, x)
      BY <2>12, <3>1, Zenon
    <3>3. One(q, t) => One(r, t)
      BY <2>7, <2>12, <3>1, Zenon
    <3> QED BY <2>8, <2>16, <3>2, <3>3 DEF SameStream, q, r
  <2>17. Elsewhere(c, E)
    BY <2>1, <2>9, <2>16 DEF Elsewhere, AtConnect
  <2>18. ASSUME NEW s \in E
         PROVE  /\ QueueFlow(c, s)' /\ CreditFlow(c, s)' /\ (Spends(c, s)' <=> Spends(c, s))
                /\ Spends(c, s)' => /\ manager[c] = "open" /\ client[c].credit[s] = 0
                                    /\ ~Has(q, s, "CONTINUE")
    <3>1. ~AtConnect(c, s)' /\ manager'[c] = manager[c] /\ client'[c] = client[c]
      BY DEF AtConnect
    <3>2. /\ s \in StreamId /\ Live(c, s) /\ Live(c, s)' /\ streams'[c][s].buffer = BUFFER_COUNT
          /\ streams'[c][s].stream_type = streams[c][s].stream_type
      BY <2>8 DEF Live
    <3>3. Spends(c, s)' <=> Spends(c, s)
      BY <3>1, <3>2 DEF Spends
    <3>4. Spends(c, s) => manager[c] = "open"
      BY <1>1, <3>2 DEF Spends, ClientFlow
    <3>5. manager[c] = "open" => ~Has(r, s, "CLOSE")
      <4>1. "CLOSE" # "CONTINUE"
        OBVIOUS
      <4> QED BY <2>7, <2>11, <2>12, <4>1, Zenon
    <3>6. QueueFlow(c, s)'
      BY <1>1, <2>11, <3>1, <3>2, <3>5 DEF QueueFlow, r
    <3>7. Spends(c, s) => One(r, s) /\ client[c].credit[s] = 0 /\ ~Has(q, s, "CONTINUE")
      BY <2>7, <2>11, <2>12, <3>4, Zenon
    <3>8. CreditFlow(c, s)'
      BY <3>1, <3>2, <3>3, <3>7, StateAssumption DEF CreditFlow, r
    <3> QED BY <3>3, <3>4, <3>6, <3>7, <3>8
  <2>19. /\ Flow'
         /\ \A i \in Pairs : ~(i[1] = c /\ i[2] \in E) => SameCredit(i)
         /\ \A s \in StreamId : StreamView(c, s) /\ StreamView(c, s)'
    <3>1. E \in SUBSET StreamId /\ \A s \in E : QueueFlow(c, s)' /\ CreditFlow(c, s)'
      BY <1>2, <2>18 DEF E
    <3> QED BY <2>15, <2>17, <3>1, StreamsMove
  <2>20. ASSUME NothingDropped, NothingDropped' PROVE CreditStep
    <3> DEFINE I == {i \in Pairs : i[1] = c /\ i[2] \in E /\ Spends(c, i[2])}
    <3>1. I \in SUBSET Pairs
      OBVIOUS
    <3>2. ASSUME NEW j \in I
          PROVE  /\ j \in Spending /\ j \in Spending' /\ Credits'[j] = Credits[j]
                 /\ Buffers[j] = 0 /\ Buffers'[j] = BUFFER_COUNT /\ ~Grants[j] /\ Grants'[j]
      <4>1. PICK s \in E : j = <<c, s>> /\ Spends(c, s)
        BY DEF Pairs
      <4>2. /\ Spends(c, s)' /\ manager[c] = "open" /\ ~Has(q, s, "CONTINUE")
            /\ client'[c].credit[s] = client[c].credit[s]
        BY <2>18, <4>1
      <4>3. Has(r, s, "CONTINUE")
        BY <2>6, <2>12, <2>20, <4>2, Zenon
      <4>4. StreamView(c, s) /\ StreamView(c, s)'
        BY <2>8, <2>19
      <4> QED BY <2>8, <2>10, <4>1, <4>2, <4>3, <4>4 DEF StreamView, q, r
    <3>3. ASSUME NEW j \in Pairs, j \notin I PROVE SameCredit(j)
      <4>1. CASE ~(j[1] = c /\ j[2] \in E)
        BY <2>19, <4>1, Zenon
      <4>2. CASE j[1] = c /\ j[2] \in E
        <5>1. PICK s \in E : j = <<c, s>> /\ ~Spends(c, s)
          BY <3>3, <4>2 DEF Pairs
        <5>2. ~Spends(c, s)' /\ StreamView(c, s) /\ StreamView(c, s)'
          BY <2>8, <2>18, <2>19, <5>1
        <5> QED BY <5>1, <5>2 DEF StreamView, SameCredit
      <4> QED BY <4>1, <4>2
    <3> HIDE DEF I
    <3> QED BY <3>1, <3>2, <3>3, CreditGrants
  <2> QED BY <2>19, <2>20 DEF FlowStep
<1> HIDE DEF q, E
<1> QED BY <1>3, <1>4, UpdateOut, Zenon DEF E

(* A drain moves packets to the kernel and takes none away. *)
LEMMA MovedKeepsOut ==
  ASSUME NEW w \in Websocket
  PROVE  Moved(w) \in Websocket /\ Moved(w).out = w.out
<1> DEFINE room == SOCKBUF - (Len(w.out) - w.backlog)
           b == IF w.backlog > room THEN w.backlog - room ELSE 0
<1>1. w.backlog \in Nat /\ w.out \in Seq(Packet) /\ Len(w.out) \in Nat
  BY DEF Websocket
<1>2. Moved(w) = [w EXCEPT !.backlog = b]
  BY DEF Moved
<1>3. b \in Nat
  BY <1>1, StateAssumption
<1> HIDE DEF b
<1> QED BY <1>2, <1>3 DEF Websocket

LEMMA FlowLoop ==
  ASSUME Conforming, TypeOK, TypeOK', Ownership, Flow, LoopStep
  PROVE  FlowStep
<1> USE DEF mgrVars, deferVars, kernelVars, poolVars, netVars
<1>1. CASE ConnectSucceeds
  <2>1. loop.at = "connect" /\ loop' = [loop EXCEPT !.at = "insert"]
        /\ UNCHANGED <<manager, streams, ws, client>>
    BY <1>1, Zenon DEF ConnectSucceeds
  <2>2. loop'.c = loop.c /\ loop'.s = loop.s /\ loop'.type = loop.type
    BY <2>1 DEF TypeOK, LoopState
  <2> QED BY <2>1, <2>2, FlowQuiet
<1>2. CASE Wake
  <2>1. loop' = Idle /\ UNCHANGED <<manager, streams, ws, client>>
    BY <1>2, Zenon DEF Wake
  <2> QED BY <2>1, FlowQuiet DEF Idle
<1>3. CASE Finish
  <2>1. /\ \/ loop' = [at |-> "update", todo |-> watched_sockets]
           \/ loop' = Idle
        /\ UNCHANGED <<manager, streams, ws, client>>
    BY <1>3, Zenon DEF Finish
  <2>2. loop'.at \notin {"connect", "insert"}
    BY <2>1 DEF Idle
  <2> QED BY <2>1, <2>2, FlowQuiet
<1>4. CASE DeferredClose
  <2> PICK c, s : c = loop.c /\ s = loop.s
    OBVIOUS
  <2>1. /\ loop.at = "close" /\ close_stream(c, s) /\ UNCHANGED <<manager, client>>
        /\ loop' = [at |-> "finish"]
    BY <1>4, Zenon DEF DeferredClose, Uncount
  <2>2. c \in Conn /\ s \in StreamId /\ Live(c, s) /\ loop'.at \notin {"connect", "insert"}
    BY <2>1 DEF TypeOK, LoopState, Ownership, LoopOwns
  <2> QED BY <2>1, <2>2, FlowClose
<1>5. CASE ForceClose
  <2> PICK c : c = loop.c
    OBVIOUS
  <2>1. PICK s \in loop.todo : close_stream(c, s) /\ loop' = [loop EXCEPT !.todo = @ \ {s}]
    BY <1>5, Zenon DEF ForceClose
  <2>2. loop.at = "force" /\ UNCHANGED <<manager, client>>
    BY <1>5, Zenon DEF ForceClose
  <2>3. c \in Conn /\ s \in StreamId /\ Live(c, s)
    BY <2>1, <2>2 DEF TypeOK, LoopState, Ownership, LoopOwns
  <2>4. loop'.at \notin {"connect", "insert"}
    BY <2>1, <2>2 DEF TypeOK, LoopState
  <2> QED BY <2>1, <2>2, <2>3, <2>4, FlowClose
<1>6. CASE UpdateNext
  <2>1. PICK c \in loop.todo :
          /\ update_streams(c, ws[c], has_backpressure[c])
          /\ loop' = IF loop.todo = {c} THEN Idle ELSE [loop EXCEPT !.todo = @ \ {c}]
    BY <1>6, Zenon DEF UpdateNext
  <2>2. loop.at = "update" /\ UNCHANGED <<manager, client>>
    BY <1>6, Zenon DEF UpdateNext
  <2>3. c \in Conn
    BY <2>2 DEF TypeOK, LoopState
  <2>4. loop'.at \notin {"connect", "insert"}
    <3>1. CASE loop' = Idle
      BY <3>1 DEF Idle
    <3>2. CASE loop' = [loop EXCEPT !.todo = @ \ {c}]
      <4>1. loop'.at = loop.at
        BY <3>2 DEF TypeOK, LoopState
      <4> QED BY <2>2, <4>1
    <3> QED BY <2>1, <3>1, <3>2, Zenon
  <2>5. ws[c] \in Websocket
    BY <2>3 DEF TypeOK, Websocket
  <2> QED BY <2>1, <2>2, <2>3, <2>4, <2>5, FlowUpdate
<1> QED BY <1>1, <1>2, <1>3, <1>4, <1>5, <1>6, FlowDestruct, FlowConnectFails, FlowConnectInsert,
           FlowDeferred DEF LoopStep

LEMMA FlowOutside ==
  ASSUME Conforming, TypeOK, TypeOK', Ownership, Flow, Outside
  PROVE  FlowStep
<1> USE DEF mgrVars, deferVars, kernelVars, poolVars, netVars
<1>1. ASSUME NEW c \in Conn, Drain(c) PROVE FlowStep
  <2>1. /\ UNCHANGED <<manager, client>> /\ update_streams(c, Moved(ws[c]), FALSE)
        /\ loop' = [at |-> "wake", locked |-> {}]
    BY <1>1, Zenon DEF Drain
  <2>2. ws[c] \in Websocket /\ loop'.at \notin {"connect", "insert"}
    BY <2>1 DEF TypeOK, Websocket
  <2> DEFINE w == Moved(ws[c])
  <2>3. w \in Websocket /\ w.out = ws[c].out /\ update_streams(c, w, FALSE)
    BY <2>1, <2>2, MovedKeepsOut
  <2> HIDE DEF w
  <2> QED BY <2>1, <2>2, <2>3, FlowUpdate
<1>2. ASSUME NEW k \in DOMAIN sock, TargetSend(k) \/ TargetClose(k) PROVE FlowStep
  <2>1. UNCHANGED <<manager, streams, ws, client, loop>>
    BY <1>2, Zenon DEF TargetSend, TargetClose
  <2> QED BY <2>1, FlowQuiet
<1>3. ASSUME NEW c \in Conn, Open(c) \/ WsClosed(c) \/ ClientReceive(c) PROVE FlowStep
  BY <1>3, FlowOpen, FlowWsClosed, FlowReceive
<1>4. ASSUME NEW c \in Conn, NEW s \in StreamId, RecvData(c, s) \/ RecvClose(c, s) PROVE FlowStep
  BY <1>4, FlowData, FlowClientCloses
<1>5. ASSUME NEW c \in Conn, NEW s \in StreamId, NEW type \in Asked, RecvConnect(c, s, type)
      PROVE  FlowStep
  BY <1>5, FlowConnect
<1> QED BY <1>1, <1>2, <1>3, <1>4, <1>5, Zenon DEF Outside

----------------------------------------------------------------------------
(* The theorems.                                                           *)

LEMMA FlowInit == Init /\ Conforming => Flow
<1> SUFFICES ASSUME Init, NEW c \in Conn
             PROVE  ClientFlow(c) /\ \A s \in StreamId : QueueFlow(c, s) /\ CreditFlow(c, s)
  BY DEF Flow
<1>1. /\ manager[c] = "none" /\ ws[c].out = <<>> /\ client[c] = InitClient
      /\ loop.at = "idle" /\ \A s \in StreamId : streams[c][s] = NoStream
  BY DEF Init, Idle
<1>2. client[c].credit[0] = 0 /\ \A s \in StreamId : client[c].state[s] = "unused"
  BY <1>1 DEF InitClient
<1>3. ClientFlow(c)
  BY <1>1, <1>2 DEF ClientFlow, Whole, Final
<1> QED BY <1>1, <1>3 DEF QueueFlow, CreditFlow, AtConnect, Spends, Live

LEMMA FlowNext ==
  ASSUME Conforming, TypeOK, TypeOK', Ownership, Flow, [Next]_vars
  PROVE  FlowStep
<1>1. CASE LoopStep
  BY <1>1, FlowLoop
<1>2. CASE Outside
  BY <1>2, FlowOutside
<1>3. CASE WatcherStep \/ (\E w \in Worker : WorkerStep(w)) \/ UNCHANGED vars \/ Resting
  <2>1. UNCHANGED <<manager, streams, loop, ws, client>>
    BY <1>3, ThreadsSendNothing
  <2> QED BY <2>1, FlowQuiet
<1> QED BY <1>1, <1>2, <1>3, Zenon DEF Next

(* The inductive invariant behind the theorems that follow. *)
THEOREM FlowInvariant == Spec => [](Conforming => Flow)
<1>1. Init => (Conforming => Flow)
  BY FlowInit
<1>2. TypeOK /\ TypeOK' /\ Ownership /\ (Conforming => Flow) /\ [Next]_vars => (Conforming => Flow)'
  BY FlowNext DEF FlowStep
<1> QED BY <1>1, <1>2, TypeCorrect, OwnershipInvariant, PTL DEF Spec

(* A conforming client never has more credit than the server has room, so  *)
(* that SocketStreamData::buffer never wraps, however CONTINUEs, DATA,     *)
(* drains and closes interleave (handle_data, update_streams).             *)
THEOREM CreditIsCovered == Spec => []CreditCovered
<1>1. TypeOK /\ (Conforming => Flow) => CreditCovered
  <2> SUFFICES ASSUME TypeOK, Flow, NEW c \in Conn, NEW s \in StreamId, Spends(c, s)
               PROVE  /\ client[c].credit[s] <= streams[c][s].buffer
                      /\ streams[c][s].buffer <= BUFFER_COUNT
                      /\ InFlight(c, Continue(s)) =>
                           client[c].credit[s] = 0 /\ streams[c][s].buffer = BUFFER_COUNT
    BY DEF CreditCovered, Spends
  <2>1. CreditFlow(c, s)
    BY DEF Flow
  <2>2. InFlight(c, Continue(s)) => Has(ws[c].out, s, "CONTINUE")
    BY PacketFields DEF InFlight, Has
  <2> QED BY <2>1, <2>2 DEF CreditFlow
<1> QED BY <1>1, FlowInvariant, TypeCorrect, PTL

(* After the CLOSE of a stream no packet of it follows, and the stream is  *)
(* not in the map: no DATA or CONTINUE is sent on a stream the client has  *)
(* been told is gone (close_stream, and the CLOSE 0x41 of handle_connect). *)
THEOREM SilentAfterClose == Spec => []ClosedIsSilent
<1>1. TypeOK /\ (Conforming => Flow) => ClosedIsSilent
  <2> SUFFICES ASSUME TypeOK, Flow, NEW c \in Conn, NEW i \in DOMAIN ws[c].out,
                      ws[c].out[i].type = "CLOSE"
               PROVE  /\ ~Live(c, ws[c].out[i].stream)
                      /\ \A j \in DOMAIN ws[c].out : j > i => ws[c].out[j].stream # ws[c].out[i].stream
    BY DEF ClosedIsSilent
  <2> PICK s : s = ws[c].out[i].stream
    OBVIOUS
  <2>1. ws[c].out \in Seq(Packet) /\ ClientFlow(c)
    BY DEF TypeOK, Flow
  <2>2. s \in StreamId /\ Has(ws[c].out, s, "CLOSE") /\ i \in Nat /\ ws[c].out # <<>>
    <3>1. ws[c].out[i] \in Packet
      BY <2>1
    <3> QED BY <2>1, <3>1 DEF Packet, Has
  <2>3. manager[c] = "open" /\ QueueFlow(c, s) /\ Final(ws[c].out)
    BY <2>1, <2>2 DEF ClientFlow, Flow
  <2>4. ~Live(c, s)
    BY <2>2, <2>3 DEF QueueFlow
  <2>5. ASSUME NEW j \in DOMAIN ws[c].out, j > i PROVE ws[c].out[j].stream # ws[c].out[i].stream
    <3>1. i < j
      BY <2>1, <2>5
    <3> QED BY <2>3, <3>1 DEF Final
  <2> QED BY <2>4, <2>5
<1> QED BY <1>1, FlowInvariant, TypeCorrect, PTL

(* With clients that follow the protocol, and as long as uWebSockets drops *)
(* nothing, the server implements the flow control of WispCredit: the      *)
(* three places that refill a buffer, the queues between server and client *)
(* and the deaths of streams at either end lose no credit and make none.   *)
THEOREM KeepsCredit ==
  ASSUME Conforming
  PROVE  Spec /\ []NothingDropped => CreditKept
<1>1. Init => Credit!Init
  <2> SUFFICES ASSUME Init PROVE Credit!Init
    OBVIOUS
  <2>1. Spending = {}
    BY DEF Init, Spending, Live
  <2> QED BY <2>1 DEF Credit!Init, Credits, Buffers, Grants
<1>2. TypeOK /\ TypeOK' /\ Ownership /\ (Conforming => Flow) /\ NothingDropped /\ NothingDropped'
        /\ [Next]_vars => [Credit!Next]_(Credit!vars)
  BY FlowNext DEF FlowStep, CreditStep
<1> QED BY <1>1, <1>2, FlowInvariant, TypeCorrect, OwnershipInvariant, PTL DEF Spec, CreditKept, Credit!Spec

----------------------------------------------------------------------------
(* The order of the payloads, with one pool thread.                        *)

(* If t and u are payloads of the same stream, t was sent first. *)
Ahead(t, u) == t.c = u.c /\ t.s = u.s => t.data < u.data

(* A pool thread has a payload in hand. *)
Holds(w) == worker[w].at \in {"start", "poll"}

(* As long as the client may send, it has counted payload t. *)
Counted(t) == manager[t.c] \in {"none", "open"} => t.data <= client[t.c].sent[t.s]

(* What was written to a socket is of its stream, in order, and ahead of   *)
(* everything that is still to be written.                                 *)
WrittenLine(k) ==
  \A i \in DOMAIN sock[k].rx :
    /\ sock[k].rx[i].c = sock[k].c /\ sock[k].rx[i].s = sock[k].s
    /\ Counted(sock[k].rx[i])
    /\ \A j \in DOMAIN sock[k].rx : i < j => sock[k].rx[i].data < sock[k].rx[j].data
    /\ \A w \in Worker : Holds(w) => Ahead(sock[k].rx[i], worker[w].task)
    /\ \A j \in DOMAIN tasks : Ahead(sock[k].rx[i], tasks[j])

(* The payload in hand is ahead of the queue. *)
HeldLine ==
  \A w \in Worker : Holds(w) =>
    /\ Counted(worker[w].task)
    /\ \A j \in DOMAIN tasks : Ahead(worker[w].task, tasks[j])

(* The queue is in order. *)
QueueLine ==
  \A i \in DOMAIN tasks :
    /\ Counted(tasks[i])
    /\ \A j \in DOMAIN tasks : i < j => Ahead(tasks[i], tasks[j])

(* The inductive invariant. *)
UploadLine == (\A k \in DOMAIN sock : WrittenLine(k)) /\ HeldLine /\ QueueLine

(* A step that writes nothing. *)
RxKept ==
  \A k \in DOMAIN sock' : sock'[k].rx # <<>> =>
    /\ k \in DOMAIN sock /\ sock'[k].rx = sock[k].rx
    /\ sock'[k].c = sock[k].c /\ sock'[k].s = sock[k].s

(* A step after which the client has counted what it had counted. *)
CountsKept ==
  \A c \in Conn : manager'[c] \in {"none", "open"} =>
    /\ manager[c] \in {"none", "open"}
    /\ \A s \in StreamId : client[c].sent[s] <= client'[c].sent[s]

(* A step that takes no payload in hand. *)
HandsKept == \A w \in Worker : Holds(w)' => Holds(w) /\ worker'[w].task = worker[w].task

(* Counted(t) after the step, for a payload of either state. *)
CountedNext(t) == manager'[t.c] \in {"none", "open"} => t.data <= client'[t.c].sent[t.s]

LEMMA CountedKept ==
  ASSUME TypeOK, TypeOK', CountsKept, NEW t \in Task, Counted(t)
  PROVE  CountedNext(t)
<1>1. t.c \in Conn /\ t.s \in StreamId /\ t.data \in Nat
  BY DEF Task
<1>2. client[t.c].sent[t.s] \in Nat /\ client'[t.c].sent[t.s] \in Nat
  <2>1. client[t.c] \in ClientState /\ client'[t.c] \in ClientState
    BY <1>1 DEF TypeOK
  <2> QED BY <1>1, <2>1 DEF ClientState
<1> QED BY <1>1, <1>2 DEF CountsKept, Counted, CountedNext

(* Where the payloads are. *)
LEMMA PayloadTypes ==
  ASSUME TypeOK
  PROVE  /\ tasks \in Seq(Task) /\ \A j \in DOMAIN tasks : tasks[j] \in Task
         /\ \A w \in Worker : Holds(w) => worker[w].task \in Task
         /\ sock \in Seq(Socket)
         /\ \A k \in DOMAIN sock : sock[k].rx \in Seq(Task) /\ \A i \in DOMAIN sock[k].rx : sock[k].rx[i] \in Task
<1>1. \A k \in DOMAIN sock : sock[k] \in Socket
  BY DEF TypeOK
<1>2. \A k \in DOMAIN sock : sock[k].rx \in Seq(Task) /\ \A i \in DOMAIN sock[k].rx : sock[k].rx[i] \in Task
  BY <1>1 DEF Socket
<1>3. tasks \in Seq(Task) /\ sock \in Seq(Socket)
  BY DEF TypeOK
<1>4. \A j \in DOMAIN tasks : tasks[j] \in Task
  BY <1>3
<1>5. \A w \in Worker : Holds(w) => worker[w].task \in Task
  BY TaskType DEF Holds
<1> QED BY <1>2, <1>3, <1>4, <1>5

LEMMA UploadQuiet ==
  ASSUME TypeOK, TypeOK', UploadLine, RxKept, CountsKept, HandsKept, UNCHANGED tasks
  PROVE  UploadLine'
<1>1. ASSUME NEW k \in DOMAIN sock' PROVE WrittenLine(k)'
  <2> SUFFICES ASSUME NEW i \in DOMAIN sock'[k].rx
               PROVE  /\ sock'[k].rx[i].c = sock'[k].c /\ sock'[k].rx[i].s = sock'[k].s
                      /\ CountedNext(sock'[k].rx[i])
                      /\ \A j \in DOMAIN sock'[k].rx : i < j => sock'[k].rx[i].data < sock'[k].rx[j].data
                      /\ \A w \in Worker : Holds(w)' => Ahead(sock'[k].rx[i], worker'[w].task)
                      /\ \A j \in DOMAIN tasks' : Ahead(sock'[k].rx[i], tasks'[j])
    BY Zenon DEF WrittenLine, Ahead, Counted, CountedNext
  <2>1. sock'[k].rx # <<>>
    OBVIOUS
  <2>2. /\ k \in DOMAIN sock /\ sock'[k].rx = sock[k].rx
        /\ sock'[k].c = sock[k].c /\ sock'[k].s = sock[k].s
    BY <2>1 DEF RxKept
  <2> PICK t : t = sock[k].rx[i]
    OBVIOUS
  <2>3. t \in Task /\ WrittenLine(k)
    BY <2>2, PayloadTypes DEF UploadLine
  <2>4. Counted(t)
    BY <2>2, <2>3 DEF WrittenLine
  <2>5. CountedNext(t)
    BY <2>3, <2>4, CountedKept
  <2> QED BY <2>2, <2>3, <2>5 DEF WrittenLine, HandsKept
<1>2. HeldLine'
  <2> SUFFICES ASSUME NEW w \in Worker, Holds(w)'
               PROVE  CountedNext(worker'[w].task) /\ \A j \in DOMAIN tasks' : Ahead(worker'[w].task, tasks'[j])
    BY Zenon DEF HeldLine, Ahead, Counted, CountedNext
  <2> PICK t : t = worker[w].task
    OBVIOUS
  <2>1. Holds(w) /\ worker'[w].task = t /\ t \in Task /\ HeldLine
    BY PayloadTypes DEF HandsKept, UploadLine
  <2>2. CountedNext(t)
    BY <2>1, CountedKept DEF HeldLine
  <2> QED BY <2>1, <2>2 DEF HeldLine
<1>3. QueueLine'
  <2> SUFFICES ASSUME NEW i \in DOMAIN tasks
               PROVE  CountedNext(tasks[i]) /\ \A j \in DOMAIN tasks : i < j => Ahead(tasks[i], tasks[j])
    BY Zenon DEF QueueLine, Ahead, Counted, CountedNext
  <2> PICK t : t = tasks[i]
    OBVIOUS
  <2>1. t \in Task /\ Counted(t) /\ QueueLine
    BY PayloadTypes DEF UploadLine, QueueLine
  <2>2. CountedNext(t)
    BY <2>1, CountedKept
  <2> QED BY <2>1, <2>2 DEF QueueLine
<1> QED BY <1>1, <1>2, <1>3 DEF UploadLine

(* The thread takes the first payload of the queue. *)
LEMMA UploadPop ==
  ASSUME \A v, w \in Worker : v = w, TypeOK, TypeOK', UploadLine, NEW w \in Worker, WorkerPop(w)
  PROVE  UploadLine'
<1> PICK t : t = Head(tasks)
  OBVIOUS
<1>1. /\ tasks # <<>> /\ tasks' = Tail(tasks) /\ UNCHANGED <<manager, client, sock>>
      /\ worker' = [worker EXCEPT ![w] = [at |-> "start", task |-> t]]
  BY Zenon DEF WorkerPop, mgrVars, kernelVars, netVars
<1>2. worker'[w].task = t
  BY <1>1 DEF TypeOK
<1>3. t = tasks[1] /\ 1 \in DOMAIN tasks
  BY <1>1, PayloadTypes
<1>4. \A j \in DOMAIN tasks' : j + 1 \in DOMAIN tasks /\ tasks'[j] = tasks[j + 1] /\ 1 < j + 1
  BY <1>1, PayloadTypes
<1>5. \A v \in Worker : worker'[v].task = t
  BY <1>2
<1>6. \A x : Counted(x) => CountedNext(x)
  BY <1>1 DEF Counted, CountedNext
<1>7. ASSUME NEW k \in DOMAIN sock PROVE WrittenLine(k)'
  <2>1. WrittenLine(k)
    BY <1>7 DEF UploadLine
  <2> SUFFICES ASSUME NEW i \in DOMAIN sock[k].rx
               PROVE  /\ sock[k].rx[i].c = sock[k].c /\ sock[k].rx[i].s = sock[k].s
                      /\ CountedNext(sock[k].rx[i])
                      /\ \A j \in DOMAIN sock[k].rx : i < j => sock[k].rx[i].data < sock[k].rx[j].data
                      /\ \A v \in Worker : Ahead(sock[k].rx[i], worker'[v].task)
                      /\ \A j \in DOMAIN tasks' : Ahead(sock[k].rx[i], tasks'[j])
    BY <1>1, Zenon DEF WrittenLine, Ahead, Counted, CountedNext
  <2> QED BY <1>3, <1>4, <1>5, <1>6, <2>1 DEF WrittenLine
<1>8. HeldLine'
  <2> SUFFICES ASSUME NEW v \in Worker
               PROVE  CountedNext(worker'[v].task) /\ \A j \in DOMAIN tasks' : Ahead(worker'[v].task, tasks'[j])
    BY Zenon DEF HeldLine, Ahead, Counted, CountedNext
  <2> QED BY <1>3, <1>4, <1>5, <1>6 DEF UploadLine, QueueLine
<1>9. QueueLine'
  <2> SUFFICES ASSUME NEW i \in DOMAIN tasks'
               PROVE  CountedNext(tasks'[i]) /\ \A j \in DOMAIN tasks' : i < j => Ahead(tasks'[i], tasks'[j])
    BY Zenon DEF QueueLine, Ahead, Counted, CountedNext
  <2>1. \A j \in DOMAIN tasks' : i < j => i + 1 < j + 1
    BY <1>1, PayloadTypes
  <2> QED BY <1>4, <1>6, <2>1 DEF UploadLine, QueueLine
<1> QED BY <1>1, <1>7, <1>8, <1>9 DEF UploadLine

(* The payload in hand goes to a socket of its stream, or is gone. *)
Writes(w, t, k) ==
  /\ t = worker[w].task /\ sock[k].c = t.c /\ sock[k].s = t.s
  /\ \/ sock' = [sock EXCEPT ![k].rx = Append(@, t)]
     \/ UNCHANGED sock

LEMMA WriteFinds ==
  ASSUME TypeOK, Ownership, NEW w \in Worker, WorkerWrite(w)
  PROVE  \E t \in Task : \E k \in DOMAIN sock : Writes(w, t, k)
<1> DEFINE t == worker[w].task
           k == fdtab[streams[t.c][t.s].fd]
<1>1. worker[w].at = "poll"
  BY Zenon DEF WorkerWrite
<1>2. sock' = [sock EXCEPT ![k].rx = Append(@, t)] \/ UNCHANGED sock
  BY Zenon DEF WorkerWrite
<1>3. t \in Task
  BY <1>1, TaskType
<1>4. t.c \in Conn /\ t.s \in StreamId
  BY <1>3 DEF Task
<1>5. Live(t.c, t.s)
  BY <1>1 DEF Ownership, WriterHoldsStream
<1>6. OpenFor(FdOf(t.c, t.s), t.c, t.s)
  BY <1>4, <1>5, Zenon DEF Ownership, EntriesOpen
<1>7. k \in DOMAIN sock /\ sock[k].c = t.c /\ sock[k].s = t.s
  BY <1>6, Zenon DEF OpenFor, FdOf
<1> QED BY <1>2, <1>3, <1>7, Zenon DEF Writes

LEMMA UploadWrite ==
  ASSUME \A v, w \in Worker : v = w, TypeOK, TypeOK', Ownership, UploadLine, NEW w \in Worker, WorkerWrite(w)
  PROVE  UploadLine'
<1>0. PICK t \in Task, k \in DOMAIN sock : Writes(w, t, k)
  BY WriteFinds
<1>1. /\ worker[w].at = "poll" /\ worker' = [worker EXCEPT ![w] = Idle]
      /\ UNCHANGED <<manager, client, tasks>>
  BY Zenon DEF WorkerWrite, mgrVars, netVars
<1>2. \A v \in Worker : ~Holds(v)'
  <2>1. worker'[w] = Idle
    BY <1>1 DEF TypeOK
  <2> QED BY <2>1 DEF Holds, Idle
<1>3. t = worker[w].task /\ sock[k].c = t.c /\ sock[k].s = t.s /\ Holds(w)
  BY <1>0, <1>1 DEF Writes, Holds
<1>4. CASE UNCHANGED sock
  <2>1. CountsKept
    <3>1. \A c \in Conn, s \in StreamId : client[c].sent[s] <= client[c].sent[s]
      <4>1. \A c \in Conn : client[c] \in ClientState
        BY DEF TypeOK
      <4> QED BY <4>1 DEF ClientState
    <3> QED BY <1>1, <3>1 DEF CountsKept
  <2>2. RxKept /\ HandsKept
    BY <1>2, <1>4 DEF RxKept, HandsKept
  <2> QED BY <1>1, <2>1, <2>2, UploadQuiet
<1>5. CASE sock' = [sock EXCEPT ![k].rx = Append(@, t)]
  <2> PICK q : q = sock[k].rx
    OBVIOUS
  <2>1. /\ DOMAIN sock' = DOMAIN sock /\ sock'[k].rx = Append(q, t)
        /\ sock'[k].c = t.c /\ sock'[k].s = t.s
        /\ \A l \in DOMAIN sock : l # k => sock'[l] = sock[l]
    <3>1. sock[k] \in Socket
      BY <1>3, PayloadTypes
    <3> QED BY <1>3, <1>5, <3>1, PayloadTypes DEF Socket
  <2>2. q \in Seq(Task) /\ Len(q) \in Nat /\ DOMAIN q = 1 .. Len(q)
    BY <1>3, PayloadTypes
  <2>3. /\ DOMAIN Append(q, t) = 1 .. Len(q) + 1 /\ Append(q, t)[Len(q) + 1] = t
        /\ \A i \in DOMAIN q : Append(q, t)[i] = q[i]
    BY <1>3, <2>2
  <2>4. \A x : Counted(x) => CountedNext(x)
    BY <1>1 DEF Counted, CountedNext
  <2>5. WrittenLine(k) /\ HeldLine
    BY <1>3 DEF UploadLine
  <2>6. ASSUME NEW l \in DOMAIN sock', l # k PROVE WrittenLine(l)'
    <3>1. sock'[l] = sock[l] /\ WrittenLine(l)
      BY <2>1, <2>6 DEF UploadLine
    <3> SUFFICES ASSUME NEW i \in DOMAIN sock[l].rx
                 PROVE  /\ sock[l].rx[i].c = sock[l].c /\ sock[l].rx[i].s = sock[l].s
                        /\ CountedNext(sock[l].rx[i])
                        /\ \A j \in DOMAIN sock[l].rx : i < j => sock[l].rx[i].data < sock[l].rx[j].data
                        /\ \A j \in DOMAIN tasks : Ahead(sock[l].rx[i], tasks[j])
      BY <1>1, <1>2, <3>1, Zenon DEF WrittenLine, Ahead, Counted, CountedNext
    <3> QED BY <2>4, <3>1 DEF WrittenLine
  <2>7. WrittenLine(k)'
    <3> DEFINE r == Append(q, t)
    <3> HIDE DEF r
    <3>1. sock'[k].rx = r /\ DOMAIN r = 1 .. Len(q) + 1 /\ r[Len(q) + 1] = t
          /\ \A i \in DOMAIN q : r[i] = q[i]
      BY <2>1, <2>3 DEF r
    <3> SUFFICES ASSUME NEW i \in DOMAIN r
                 PROVE  /\ r[i].c = t.c /\ r[i].s = t.s
                        /\ CountedNext(r[i])
                        /\ \A j \in DOMAIN r : i < j => r[i].data < r[j].data
                        /\ \A j \in DOMAIN tasks : Ahead(r[i], tasks[j])
      BY <1>1, <1>2, <2>1, <3>1, Zenon DEF WrittenLine, Ahead, Counted, CountedNext
    <3>2. CASE i = Len(q) + 1
      <4>1. ~\E j \in DOMAIN r : i < j
        BY <2>2, <3>1, <3>2
      <4>2. Counted(t) /\ \A j \in DOMAIN tasks : Ahead(t, tasks[j])
        BY <1>3, <2>5 DEF HeldLine
      <4> QED BY <2>4, <3>1, <3>2, <4>1, <4>2
    <3>3. CASE i \in DOMAIN q
      <4>1. /\ q[i].c = t.c /\ q[i].s = t.s /\ Counted(q[i])
            /\ \A j \in DOMAIN q : i < j => q[i].data < q[j].data
            /\ Ahead(q[i], t)
            /\ \A j \in DOMAIN tasks : Ahead(q[i], tasks[j])
        BY <1>3, <2>5, <3>3 DEF WrittenLine
      <4>2. q[i].data < t.data
        BY <4>1 DEF Ahead
      <4>3. \A j \in DOMAIN r : j \in DOMAIN q \/ j = Len(q) + 1
        BY <2>2, <3>1
      <4>4. r[i] = q[i]
        BY <3>1, <3>3
      <4> QED BY <2>4, <3>1, <4>1, <4>2, <4>3, <4>4
    <3> QED BY <2>2, <3>1, <3>2, <3>3
  <2>8. HeldLine'
    BY <1>2 DEF HeldLine
  <2>9. QueueLine'
    <3>1. QueueLine
      BY DEF UploadLine
    <3> QED BY <1>1, <3>1 DEF QueueLine, Counted, Ahead
  <2> QED BY <2>6, <2>7, <2>8, <2>9 DEF UploadLine
<1> QED BY <1>0, <1>4, <1>5, Zenon DEF Writes

(* The client's counts stay, where no client sends and no manager is made. *)
LEMMA SameCounts ==
  ASSUME TypeOK,
         \A c \in Conn : manager'[c] \in {"none", "open"} =>
           manager[c] \in {"none", "open"} /\ client'[c].sent = client[c].sent
  PROVE  CountsKept
<1>1. \A c \in Conn : client[c] \in ClientState
  BY DEF TypeOK
<1>2. \A c \in Conn, s \in StreamId : client[c].sent[s] <= client[c].sent[s]
  BY <1>1 DEF ClientState
<1> QED BY <1>2 DEF CountsKept

(* handle_data puts the newest payload of a stream behind all others. *)
LEMMA UploadData ==
  ASSUME TypeOK, TypeOK', UploadLine, NEW c \in Conn, NEW s \in StreamId, RecvData(c, s)
  PROVE  UploadLine'
<1> DEFINE n == client[c].sent[s]
           m == [client EXCEPT ![c].sent[s] = @ + 1,
                  ![c].credit[s] = IF client[c].state[s] = "tcp" /\ @ > 0 THEN @ - 1 ELSE @]
<1>1. /\ manager[c] = "open" /\ UNCHANGED <<manager, sock, worker>> /\ client' = m
      /\ handle_data(c, s, n + 1)
  BY Zenon DEF RecvData, kernelVars
<1>2. client[c] \in ClientState /\ client \in [Conn -> ClientState] /\ n \in Nat
  <2>1. client[c] \in ClientState /\ client \in [Conn -> ClientState]
    BY DEF TypeOK
  <2> QED BY <2>1 DEF ClientState
<1>3. /\ \A d \in Conn : d # c => client'[d].sent = client[d].sent
      /\ client'[c].sent = [client[c].sent EXCEPT ![s] = @ + 1]
  <2>1. \A d \in Conn : d # c => client'[d] = client[d]
    BY <1>1, <1>2
  <2>2. client'[c].sent = [client[c].sent EXCEPT ![s] = @ + 1]
    BY <1>1, <1>2 DEF ClientState
  <2> QED BY <2>1, <2>2
<1>4. \A d \in Conn : client[d] \in ClientState
  BY DEF TypeOK
<1>5. client[c].sent \in [StreamId -> Nat] /\ client'[c].sent[s] = n + 1
  BY <1>2, <1>3 DEF ClientState
<1>6. CountsKept
  <2>1. ASSUME NEW d \in Conn, NEW x \in StreamId PROVE client[d].sent[x] <= client'[d].sent[x]
    <3>1. client[d].sent \in [StreamId -> Nat]
      BY <1>4 DEF ClientState
    <3> HIDE DEF n, m
    <3>2. CASE d = c
      BY <1>3, <3>1, <3>2
    <3>3. CASE d # c
      BY <1>3, <3>1, <3>3
    <3> QED BY <3>2, <3>3
  <2> QED BY <1>1, <2>1 DEF CountsKept
<1>7. RxKept /\ HandsKept
  BY <1>1 DEF RxKept, HandsKept, Holds
<1>8. CASE UNCHANGED tasks
  BY <1>6, <1>7, <1>8, UploadQuiet
<1>9. CASE tasks' = Append(tasks, [c |-> c, s |-> s, data |-> n + 1])
  <2> PICK u : u = [c |-> c, s |-> s, data |-> n + 1]
    OBVIOUS
  <2>1. u.c = c /\ u.s = s /\ u.data = n + 1 /\ u \in Task
    BY <1>2 DEF Task
  <2>2. /\ \A j \in DOMAIN tasks' : (j \in DOMAIN tasks /\ tasks'[j] = tasks[j]) \/ tasks'[j] = u
        /\ \A i, j \in DOMAIN tasks' : i < j => i \in DOMAIN tasks
    <3> HIDE DEF n, m
    <3>1. tasks' = Append(tasks, u) /\ tasks \in Seq(Task)
      BY <1>9, PayloadTypes
    <3> QED BY ONLY <2>1, <3>1, SMT
  <2>3. ASSUME NEW x \in Task, Counted(x) PROVE Ahead(x, u)
    <3> HIDE DEF n, m
    <3>1. x.data \in Nat
      BY DEF Task
    <3>2. x.c = c /\ x.s = s => x.data <= n
      BY <1>1, <2>3 DEF Counted, n
    <3> QED BY <1>2, <2>1, <3>1, <3>2 DEF Ahead
  <2>4. CountedNext(u)
    <3> HIDE DEF n, m
    <3> QED BY <1>2, <1>5, <2>1 DEF CountedNext
  <2>5. \A x \in Task : Counted(x) => CountedNext(x)
    BY <1>6, CountedKept
  <2>6. /\ \A k \in DOMAIN sock : \A i \in DOMAIN sock[k].rx : sock[k].rx[i] \in Task
        /\ \A w \in Worker : Holds(w) => worker[w].task \in Task
        /\ \A j \in DOMAIN tasks : tasks[j] \in Task
    BY PayloadTypes
  <2> HIDE DEF n, m
  <2>7. ASSUME NEW k \in DOMAIN sock PROVE WrittenLine(k)'
    <3>1. WrittenLine(k)
      BY DEF UploadLine
    <3> SUFFICES ASSUME NEW i \in DOMAIN sock[k].rx
                 PROVE  /\ sock[k].rx[i].c = sock[k].c /\ sock[k].rx[i].s = sock[k].s
                        /\ CountedNext(sock[k].rx[i])
                        /\ \A j \in DOMAIN sock[k].rx : i < j => sock[k].rx[i].data < sock[k].rx[j].data
                        /\ \A w \in Worker : Holds(w) => Ahead(sock[k].rx[i], worker[w].task)
                        /\ \A j \in DOMAIN tasks' : Ahead(sock[k].rx[i], tasks'[j])
      BY <1>1, Zenon DEF WrittenLine, Ahead, Counted, CountedNext, Holds
    <3> PICK x \in Task : x = sock[k].rx[i]
      BY <2>6
    <3>2. /\ x.c = sock[k].c /\ x.s = sock[k].s /\ Counted(x)
          /\ \A j \in DOMAIN sock[k].rx : i < j => x.data < sock[k].rx[j].data
          /\ \A w \in Worker : Holds(w) => Ahead(x, worker[w].task)
          /\ \A j \in DOMAIN tasks : Ahead(x, tasks[j])
      BY <3>1, Zenon DEF WrittenLine
    <3>3. CountedNext(x) /\ Ahead(x, u)
      BY <2>3, <2>5, <3>2
    <3>4. \A j \in DOMAIN tasks' : Ahead(x, tasks'[j])
      BY <2>2, <3>2, <3>3, Zenon
    <3> QED BY <3>2, <3>3, <3>4, Zenon
  <2>8. HeldLine'
    <3> SUFFICES ASSUME NEW w \in Worker, Holds(w)
                 PROVE  CountedNext(worker[w].task) /\ \A j \in DOMAIN tasks' : Ahead(worker[w].task, tasks'[j])
      BY <1>1, Zenon DEF HeldLine, Ahead, Counted, CountedNext, Holds
    <3> PICK x \in Task : x = worker[w].task
      BY <2>6
    <3>1. Counted(x) /\ \A j \in DOMAIN tasks : Ahead(x, tasks[j])
      BY Zenon DEF UploadLine, HeldLine
    <3>2. CountedNext(x) /\ Ahead(x, u)
      BY <2>3, <2>5, <3>1
    <3> QED BY <2>2, <3>1, <3>2, Zenon
  <2>9. QueueLine'
    <3> SUFFICES ASSUME NEW i \in DOMAIN tasks'
                 PROVE  CountedNext(tasks'[i]) /\ \A j \in DOMAIN tasks' : i < j => Ahead(tasks'[i], tasks'[j])
      BY Zenon DEF QueueLine, Ahead, Counted, CountedNext
    <3>1. CASE i \in DOMAIN tasks /\ tasks'[i] = tasks[i]
      <4> PICK x \in Task : x = tasks[i]
        BY <2>6, <3>1
      <4>1. Counted(x) /\ \A j \in DOMAIN tasks : i < j => Ahead(x, tasks[j])
        BY <3>1, Zenon DEF UploadLine, QueueLine
      <4>2. CountedNext(x) /\ Ahead(x, u)
        BY <2>3, <2>5, <4>1
      <4> QED BY <2>2, <3>1, <4>1, <4>2, Zenon
    <3>2. CASE i \notin DOMAIN tasks
      BY <2>2, <2>4, <3>2, Zenon
    <3>3. CASE i \in DOMAIN tasks /\ tasks'[i] # tasks[i]
      <4>1. FALSE
        <5>1. tasks' = Append(tasks, u) /\ tasks \in Seq(Task)
          BY <1>9, PayloadTypes
        <5> QED BY ONLY <2>1, <3>3, <5>1, SMT
      <4> QED BY <4>1
    <3> QED BY <3>1, <3>2, <3>3
  <2> QED BY <1>1, <2>7, <2>8, <2>9 DEF UploadLine
<1> HIDE DEF n, m
<1>10. UNCHANGED tasks \/ tasks' = Append(tasks, [c |-> c, s |-> s, data |-> n + 1])
  BY <1>1, Zenon DEF handle_data
<1> QED BY <1>8, <1>9, <1>10, Zenon

(* Steps of the loop thread inside a handler write and queue nothing. *)
LEMMA UploadLoop ==
  ASSUME TypeOK, TypeOK', Ownership, UploadLine, LoopStep
  PROVE  UploadLine'
<1> USE DEF mgrVars, deferVars, kernelVars, poolVars, netVars
<1>1. UNCHANGED <<tasks, worker, client>>
  BY Zenon DEF LoopStep, ConnectFails, ConnectSucceeds, ConnectInsert, Wake, RunDeferred, DeferredClose,
               Finish, UpdateNext, ForceClose, Destruct
<1>2. UNCHANGED manager \/ manager' = [manager EXCEPT ![loop.c] = "deleted"]
  BY Zenon DEF LoopStep, ConnectFails, ConnectSucceeds, ConnectInsert, Wake, RunDeferred, DeferredClose,
               Finish, UpdateNext, ForceClose, Destruct
<1>3. UNCHANGED sock \/ ConnectFails
  BY Zenon DEF LoopStep, ConnectSucceeds, ConnectInsert, Wake, RunDeferred, DeferredClose,
               Finish, UpdateNext, ForceClose, Destruct, close_stream, CloseFd
<1>4. CountsKept
  <2>1. \A c \in Conn : manager'[c] \in {"none", "open"} => manager[c] \in {"none", "open"}
    BY <1>2 DEF TypeOK
  <2> QED BY <1>1, <2>1, SameCounts
<1>5. RxKept
  <2>1. CASE UNCHANGED sock
    BY <2>1 DEF RxKept
  <2>2. CASE ConnectFails
    <3> PICK k : k = fdtab[loop.fd]
      OBVIOUS
    <3>1. sock' = [sock EXCEPT ![k].eof = TRUE]
      BY <2>2, Zenon DEF ConnectFails
    <3>2. \A l \in DOMAIN sock : sock[l] \in Socket
      BY DEF TypeOK
    <3> QED BY <3>1, <3>2 DEF RxKept, Socket
  <2> QED BY <1>3, <2>1, <2>2
<1>6. HandsKept
  BY <1>1 DEF HandsKept, Holds
<1> QED BY <1>1, <1>4, <1>5, <1>6, UploadQuiet

(* The watcher reads what targets sent, never what they were written. *)
LEMMA UploadWatcher ==
  ASSUME TypeOK, TypeOK', UploadLine, WatcherStep
  PROVE  UploadLine'
<1> USE DEF mgrVars, deferVars, kernelVars, poolVars, netVars
<1>1. UNCHANGED <<tasks, worker, client, manager>>
  BY Zenon DEF WatcherStep, WatchWait, WatchWake, WatchEvent, WatchRead, WatchReadReturns, WatchErase,
               WatchCount, WatchDefer
<1>2. UNCHANGED sock \/ \E k : sock' = [sock EXCEPT ![k].inq = Tail(@)]
  BY Zenon DEF WatcherStep, WatchWait, WatchWake, WatchEvent, WatchRead, WatchReadReturns, WatchErase,
               WatchCount, WatchDefer, ReadChunk, ReadEnd
<1>3. CountsKept
  BY <1>1, SameCounts
<1>4. RxKept
  <2>1. CASE UNCHANGED sock
    BY <2>1 DEF RxKept
  <2>2. ASSUME NEW k, sock' = [sock EXCEPT ![k].inq = Tail(@)] PROVE RxKept
    <3>1. \A l \in DOMAIN sock : sock[l] \in Socket
      BY DEF TypeOK
    <3> QED BY <2>2, <3>1 DEF RxKept, Socket
  <2> QED BY <1>2, <2>1, <2>2
<1>5. HandsKept
  BY <1>1 DEF HandsKept, Holds
<1> QED BY <1>1, <1>3, <1>4, <1>5, UploadQuiet

LEMMA UploadOutside ==
  ASSUME TypeOK, TypeOK', UploadLine, Outside
  PROVE  UploadLine'
<1> USE DEF mgrVars, deferVars, kernelVars, poolVars, netVars
<1> DEFINE Still == UNCHANGED <<tasks, worker>> /\ CountsKept /\ RxKept
<1>0. /\ \A c \in Conn : client[c] \in ClientState /\ client'[c] \in ClientState
      /\ \A k \in DOMAIN sock : sock[k] \in Socket
  BY DEF TypeOK
<1>1. ASSUME NEW c \in Conn, Open(c) \/ Drain(c) PROVE Still
  <2>1. /\ UNCHANGED <<tasks, worker, client, sock>>
        /\ UNCHANGED manager \/ (manager[c] = "none" /\ manager' = [manager EXCEPT ![c] = "open"])
    BY <1>1, Zenon DEF Open, Construct, Drain
  <2>2. \A d \in Conn : manager'[d] \in {"none", "open"} => manager[d] \in {"none", "open"}
    BY <2>1 DEF TypeOK
  <2>3. CountsKept
    BY <2>1, <2>2, SameCounts
  <2> QED BY <2>1, <2>3 DEF RxKept
<1>2. ASSUME NEW c \in Conn, WsClosed(c) PROVE Still
  <2>1. /\ UNCHANGED <<tasks, worker, sock>> /\ manager' = [manager EXCEPT ![c] = "closing"]
        /\ client' = [client EXCEPT ![c] = InitClient]
    BY <1>2, Zenon DEF WsClosed
  <2>2. \A d \in Conn : manager'[d] \in {"none", "open"} =>
          manager[d] \in {"none", "open"} /\ client'[d].sent = client[d].sent
    BY <2>1 DEF TypeOK
  <2>3. CountsKept
    BY <2>2, SameCounts
  <2> QED BY <2>1, <2>3 DEF RxKept
<1>3. ASSUME NEW c \in Conn, ClientReceive(c) PROVE Still
  <2> DEFINE q == ws[c].out
             p == Head(q)
  <2>1. /\ UNCHANGED <<tasks, worker, sock, manager>> /\ Len(q) > ws[c].backlog
        /\ client' = [client EXCEPT ![c] =
             CASE p.type = "CONTINUE" -> [client[c] EXCEPT !.credit[p.stream] = p.buffer]
               [] p.type = "CLOSE"    -> [client[c] EXCEPT !.state[p.stream] = "closed"]
               [] p.type = "DATA"     -> [client[c] EXCEPT !.got[p.stream] = @ \o p.data]]
    BY <1>3, Zenon DEF ClientReceive
  <2>2. p.type \in {"CONTINUE", "CLOSE", "DATA"}
    <3>1. q \in Seq(Packet) /\ ws[c].backlog \in Nat
      BY DEF TypeOK
    <3>2. q # <<>>
      <4> HIDE DEF q
      <4> QED BY <2>1, <3>1
    <3>3. p \in Packet
      <4> HIDE DEF q
      <4> QED BY ONLY <3>1, <3>2, SMT DEF p
    <3> HIDE DEF p
    <3> QED BY <3>3 DEF Packet
  <2> HIDE DEF p, q
  <2>3. client'[c].sent = client[c].sent
    <3>1. client'[c] = CASE p.type = "CONTINUE" -> [client[c] EXCEPT !.credit[p.stream] = p.buffer]
               [] p.type = "CLOSE"    -> [client[c] EXCEPT !.state[p.stream] = "closed"]
               [] p.type = "DATA"     -> [client[c] EXCEPT !.got[p.stream] = @ \o p.data]
      BY <2>1, Zenon DEF TypeOK
    <3>2. \/ client'[c] = [client[c] EXCEPT !.credit[p.stream] = p.buffer]
          \/ client'[c] = [client[c] EXCEPT !.state[p.stream] = "closed"]
          \/ client'[c] = [client[c] EXCEPT !.got[p.stream] = @ \o p.data]
      BY <2>2, <3>1, Zenon
    <3>3. client[c] \in ClientState
      BY <1>0
    <3>4. ASSUME client'[c] = [client[c] EXCEPT !.credit[p.stream] = p.buffer]
          PROVE  client'[c].sent = client[c].sent
      BY <3>3, <3>4 DEF ClientState
    <3>5. ASSUME client'[c] = [client[c] EXCEPT !.state[p.stream] = "closed"]
          PROVE  client'[c].sent = client[c].sent
      BY <3>3, <3>5 DEF ClientState
    <3>6. ASSUME client'[c] = [client[c] EXCEPT !.got[p.stream] = @ \o p.data]
          PROVE  client'[c].sent = client[c].sent
      BY <3>3, <3>6 DEF ClientState
    <3> QED BY <3>2, <3>4, <3>5, <3>6, Zenon
  <2>4. \A d \in Conn : d # c => client'[d] = client[d]
    BY <2>1, Zenon DEF TypeOK
  <2>5. \A d \in Conn : client'[d].sent = client[d].sent
    BY <2>3, <2>4
  <2>6. UNCHANGED <<tasks, worker, sock, manager>>
    BY <2>1, Zenon
  <2>7. CountsKept
    BY ONLY TypeOK, <2>5, <2>6, SameCounts
  <2> QED BY ONLY <2>6, <2>7 DEF RxKept, Still
<1>4. ASSUME NEW c \in Conn, NEW s \in StreamId, RecvClose(c, s) PROVE Still
  <2>1. /\ UNCHANGED <<tasks, worker, sock, manager>>
        /\ client' = [client EXCEPT ![c].state[s] = "closed"]
    BY <1>4, Zenon DEF RecvClose
  <2>2. \A d \in Conn : client'[d].sent = client[d].sent
    <3>1. client' = [client EXCEPT ![c] = [client[c] EXCEPT !.state[s] = "closed"]]
      BY <2>1
    <3>2. [client[c] EXCEPT !.state[s] = "closed"].sent = client[c].sent
      BY <1>0 DEF ClientState
    <3> QED BY <3>1, <3>2 DEF TypeOK
  <2>3. CountsKept
    BY <2>1, <2>2, SameCounts
  <2> QED BY <2>1, <2>3 DEF RxKept
<1>5. ASSUME NEW c \in Conn, NEW s \in StreamId, NEW type \in Asked, RecvConnect(c, s, type) PROVE Still
  <2>1. /\ UNCHANGED <<tasks, worker, manager>> /\ handle_connect(c, s, type)
        /\ client' = [client EXCEPT ![c].state[s] = type, ![c].credit[s] = client[c].credit[0]]
    BY <1>5, Zenon DEF RecvConnect
  <2>2. \A d \in Conn : client'[d].sent = client[d].sent
    <3> DEFINE v == [client[c] EXCEPT !.state[s] = type, !.credit[s] = client[c].credit[0]]
    <3>1. client \in [Conn -> ClientState] /\ client[c] \in ClientState
      BY DEF TypeOK
    <3>2. client' = [client EXCEPT ![c] = v]
      BY <2>1, <3>1
    <3>3. v.sent = client[c].sent
      BY <3>1 DEF ClientState
    <3> HIDE DEF v
    <3> QED BY <3>1, <3>2, <3>3
  <2>3. CountsKept
    BY <2>1, <2>2, SameCounts
  <2>4. UNCHANGED sock \/ \E fd \in Fd : sock' = Append(sock, [c |-> c, s |-> s, fd |-> fd, sent |-> 0,
                                inq |-> <<>>, eof |-> FALSE, rx |-> <<>>])
    BY <2>1, Zenon DEF handle_connect
  <2>5. RxKept
    <3>1. ASSUME NEW x, x.rx = <<>>, sock' = Append(sock, x) PROVE RxKept
      <4>1. sock \in Seq(Socket)
        BY DEF TypeOK
      <4>2. DOMAIN sock' = 1 .. Len(sock) + 1 /\ \A l \in 1 .. Len(sock) : sock'[l] = sock[l]
        BY ONLY <3>1, <4>1, SMT
      <4>3. sock'[Len(sock) + 1] = x /\ DOMAIN sock = 1 .. Len(sock)
        BY ONLY <3>1, <4>1, SMT
      <4>4. \A l \in DOMAIN sock' : l \in DOMAIN sock \/ l = Len(sock) + 1
        BY <4>1, <4>2, <4>3
      <4> QED BY <3>1, <4>2, <4>3, <4>4 DEF RxKept
    <3>2. ASSUME NEW fd \in Fd, sock' = Append(sock, [c |-> c, s |-> s, fd |-> fd, sent |-> 0,
                                inq |-> <<>>, eof |-> FALSE, rx |-> <<>>])
          PROVE  RxKept
      <4> PICK x : x = [c |-> c, s |-> s, fd |-> fd, sent |-> 0, inq |-> <<>>, eof |-> FALSE, rx |-> <<>>]
        OBVIOUS
      <4>1. x.rx = <<>> /\ sock' = Append(sock, x)
        BY <3>2
      <4> QED BY <3>1, <4>1
    <3> QED BY <2>4, <3>2 DEF RxKept
  <2> QED BY <2>1, <2>3, <2>5
<1>6. ASSUME NEW k \in DOMAIN sock, TargetSend(k) \/ TargetClose(k) PROVE Still
  <2>1. /\ UNCHANGED <<tasks, worker, manager, client>>
        /\ \/ sock' = [sock EXCEPT ![k].sent = @ + 1, ![k].inq = Append(@, sock[k].sent + 1)]
           \/ sock' = [sock EXCEPT ![k].eof = TRUE]
    BY <1>6, Zenon DEF TargetSend, TargetClose
  <2>2. RxKept
    <3>1. CASE sock' = [sock EXCEPT ![k].eof = TRUE]
      BY <1>0, <3>1 DEF RxKept, Socket
    <3>2. CASE sock' = [sock EXCEPT ![k].sent = @ + 1, ![k].inq = Append(@, sock[k].sent + 1)]
      BY <1>0, <3>2 DEF RxKept, Socket
    <3> QED BY <2>1, <3>1, <3>2
  <2>3. CountsKept
    BY <2>1, SameCounts
  <2> QED BY <2>1, <2>2, <2>3
<1>7. ASSUME Still PROVE UploadLine'
  <2>1. HandsKept
    BY <1>7 DEF HandsKept, Holds
  <2> QED BY <1>7, <2>1, UploadQuiet
<1> HIDE DEF Still
<1> QED BY <1>1, <1>2, <1>3, <1>4, <1>5, <1>6, <1>7, UploadData, Zenon DEF Outside

LEMMA UploadWorker ==
  ASSUME \A v, w \in Worker : v = w, TypeOK, TypeOK', Ownership, UploadLine,
         NEW w \in Worker, WorkerStep(w)
  PROVE  UploadLine'
<1> USE DEF mgrVars, deferVars, kernelVars, poolVars, netVars
<1>1. ASSUME WorkerLock(w) \/ WorkerNoStream(w) \/ WorkerNoManager(w) \/ WorkerSigpipe(w)
      PROVE  UploadLine'
  <2>1. UNCHANGED <<tasks, sock, client, manager>>
    BY <1>1, Zenon DEF WorkerLock, WorkerNoStream, WorkerNoManager, WorkerSigpipe
  <2>2. \/ UNCHANGED worker
        \/ worker[w].at = "start" /\ worker' = [worker EXCEPT ![w].at = "poll"]
        \/ worker' = [worker EXCEPT ![w] = [at |-> "hung"]]
    BY <1>1, Zenon DEF WorkerLock, WorkerNoStream, WorkerNoManager, WorkerSigpipe
  <2>3. HandsKept
    <3>1. CASE UNCHANGED worker
      BY <3>1 DEF HandsKept, Holds
    <3>2. CASE worker[w].at = "start" /\ worker' = [worker EXCEPT ![w].at = "poll"]
      BY <3>2 DEF HandsKept, Holds, TypeOK, WorkerState
    <3>3. CASE worker' = [worker EXCEPT ![w] = [at |-> "hung"]]
      BY <3>3 DEF HandsKept, Holds, TypeOK
    <3> QED BY <2>2, <3>1, <3>2, <3>3
  <2>4. CountsKept /\ RxKept
    BY <2>1, SameCounts DEF RxKept
  <2> QED BY <2>1, <2>3, <2>4, UploadQuiet
<1> QED BY <1>1, UploadPop, UploadWrite, Zenon DEF WorkerStep

(* With one pool thread a target receives the payloads of its stream in    *)
(* the order in which the client sent them, across descriptor reuse and    *)
(* for clients of any kind: the pool's queue is the only order there is    *)
(* (handle_data).  With two threads it is not so (run two_pool_threads).   *)
THEOREM UploadInOrder ==
  ASSUME \A v, w \in Worker : v = w
  PROVE  Spec => []UploadOrder
<1>1. Init => UploadLine
  <2> SUFFICES ASSUME Init PROVE UploadLine
    OBVIOUS
  <2>1. DOMAIN sock = {} /\ DOMAIN tasks = {} /\ \A w \in Worker : worker[w].at = "idle"
    BY DEF Init, Idle
  <2> QED BY <2>1 DEF UploadLine, HeldLine, QueueLine, Holds
<1>2. TypeOK /\ TypeOK' /\ Ownership /\ UploadLine /\ [Next]_vars => UploadLine'
  <2> SUFFICES ASSUME TypeOK, TypeOK', Ownership, UploadLine, [Next]_vars PROVE UploadLine'
    OBVIOUS
  <2>1. ASSUME UNCHANGED vars \/ Resting PROVE UploadLine'
    <3>1. UNCHANGED <<tasks, worker, sock, client, manager>>
      BY <2>1, Zenon DEF Resting, vars, mgrVars, kernelVars, poolVars, netVars
    <3>2. CountsKept /\ RxKept /\ HandsKept
      BY <3>1, SameCounts DEF RxKept, HandsKept, Holds
    <3> QED BY <3>1, <3>2, UploadQuiet
  <2> QED BY <2>1, UploadLoop, UploadWatcher, UploadWorker, UploadOutside, Zenon DEF Next
<1>3. UploadLine => UploadOrder
  BY DEF UploadLine, WrittenLine, UploadOrder
<1> QED BY <1>1, <1>2, <1>3, TypeCorrect, OwnershipInvariant, PTL DEF Spec

=============================================================================
