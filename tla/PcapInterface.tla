---------------------------- MODULE PcapInterface ----------------------------
(***************************************************************************)
(* The capture of one stream in the PCAP build: PcapInterface, and the     *)
(* threads that write to it.  Pool threads capture what the user sends,    *)
(* from the write tasks; the loop thread captures what the target sends,   *)
(* in send_data; writer_gaurd keeps them apart.  close_stream deletes the  *)
(* capture.                                                                *)
(***************************************************************************)
EXTENDS Integers, Sequences

CONSTANTS
  Worker,     \* threads of the pool
  Loop,       \* the loop thread
  Length,     \* lengths of payloads and chunks
  U32,        \* sequence numbers count modulo this
  MaxFrames,  \* bound: frames in the file
  MaxData     \* bound: payloads from the user

Nobody == "nobody"

ASSUME PcapAssumption == /\ Loop \notin Worker /\ Nobody \notin Worker \cup {Loop}
                         /\ Length \subseteq Nat /\ U32 \in Nat /\ U32 > 3

VARIABLES
  open,         \* the capture is there: between open_pcap and delete
  file,         \* the frames written so far
  user_sequence_number, target_sequence_number,
  writer_gaurd, \* who holds the mutex
  thread,       \* where each thread is, with its payload and its frame;
                \* raced: another one has written since it called poll()
  payloads,     \* lengths of the payloads the user has sent, in order
  written       \* the payloads write() has taken, in that order

vars == <<open, file, user_sequence_number, target_sequence_number,
          writer_gaurd, thread, payloads, written>>
numbers == <<user_sequence_number, target_sequence_number>>

(* What a frame says; ports, addresses and the window do not change. *)
Frame(from, flags, seq, ack, len, payload) ==
  [from |-> from, flags |-> flags, seq |-> seq, ack |-> ack, len |-> len, payload |-> payload]

Idle == [at |-> "idle", payload |-> 0, raced |-> FALSE,
         frame |-> Frame("user", {}, 0, 0, 0, 0)]

(* PcapInterface::PcapInterface: the three frames of a TCP handshake. *)
Handshake ==
  << Frame("user", {"SYN"}, 2, 0, 0, 0),
     Frame("target", {"SYN", "ACK"}, 2, 3, 0, 0),
     Frame("user", {"ACK"}, 3, 3, 0, 0) >>

Init ==
  /\ open = TRUE /\ file = Handshake
  /\ user_sequence_number = 3 /\ target_sequence_number = 3
  /\ writer_gaurd = Nobody /\ thread = [t \in Worker \cup {Loop} |-> Idle]
  /\ payloads = <<>> /\ written = <<>>

----------------------------------------------------------------------------
(* write_dummy_user and write_dummy_target: the frame is made, written,    *)
(* and counted under the mutex.                                            *)

\* Slip: no lock_guard
LockUnguarded(t) == UNCHANGED writer_gaurd

Lock(t) == writer_gaurd = Nobody /\ writer_gaurd' = t

FromUser(p) == Frame("user", {"ACK"}, user_sequence_number, target_sequence_number, payloads[p], p)

FromTarget(len) == Frame("target", {"ACK"}, target_sequence_number, user_sequence_number, len, 0)

WriteFrame(t) ==
  LET f == thread[t].frame IN
  /\ thread[t].at = "frame" /\ Len(file) < MaxFrames
  /\ file' = Append(file, f)
  /\ IF f.from = "user"
     THEN /\ user_sequence_number' = (user_sequence_number + f.len) % U32
          /\ UNCHANGED target_sequence_number
     ELSE /\ target_sequence_number' = (target_sequence_number + f.len) % U32
          /\ UNCHANGED user_sequence_number
  /\ writer_gaurd' = IF writer_gaurd = t THEN Nobody ELSE writer_gaurd
  /\ thread' = [thread EXCEPT ![t].at = IF t = Loop THEN "sent" ELSE "poll",
                              ![t].raced = FALSE]
  /\ UNCHANGED <<open, payloads, written>>

----------------------------------------------------------------------------
(* handle_data on the loop thread, and its task: capture, poll, write.     *)

Started(p) == \E i \in DOMAIN file : file[i].payload = p
Taken(p) == \E w \in Worker : thread[w].payload = p

Submit(len) ==
  /\ open /\ thread[Loop] = Idle /\ Len(payloads) < MaxData
  /\ payloads' = Append(payloads, len)
  /\ UNCHANGED <<open, file, numbers, writer_gaurd, thread, written>>

(* The next task in the queue: those before it have been taken. *)
NextTask(p) == ~Started(p) /\ ~Taken(p) /\ \A q \in 1..(p - 1) : Started(q) \/ Taken(q)

(* Where a task gets that has asked for stream_lock and looks its stream   *)
(* up: to the capture.  A late one, whose stream is closed, dies with      *)
(* find() at the end of the map, or, when the manager is gone as well, in  *)
(* its freed memory, if it is not hung in the freed lock.                  *)
LookedUp == IF open THEN {"capture"} ELSE {"died", "hung"}

(* A pool thread takes the next task, in order. *)
TaskStart(w) ==
  /\ thread[w] = Idle
  /\ \E p \in DOMAIN payloads, at \in LookedUp :
       /\ NextTask(p)
       /\ thread' = [thread EXCEPT ![w] = [Idle EXCEPT !.at = at, !.payload = p]]
  /\ UNCHANGED <<open, file, numbers, writer_gaurd, payloads, written>>

\* Slip: the capture comes after the write
CaptureSkipped(w) ==
  /\ thread[w].at = "capture"
  /\ thread' = [thread EXCEPT ![w].at = "poll"]
  /\ UNCHANGED <<open, file, numbers, writer_gaurd, payloads, written>>

write_dummy_user(w) ==
  /\ thread[w].at = "capture" /\ Lock(w)
  /\ thread' = [thread EXCEPT ![w].at = "frame", ![w].frame = FromUser(thread[w].payload)]
  /\ UNCHANGED <<open, file, numbers, payloads, written>>

(* write() takes the payload, or poll() or write() fails for good. *)
TaskEnd(w) ==
  /\ thread[w].at = "poll"
  /\ \/ /\ written' = Append(written, thread[w].payload)
        /\ thread' = [t \in DOMAIN thread |->
                        IF t = w THEN Idle ELSE [thread[t] EXCEPT !.raced = (thread[t].at = "poll")]]
     \/ UNCHANGED written /\ thread' = [thread EXCEPT ![w] = Idle]
  /\ UNCHANGED <<open, file, numbers, writer_gaurd, payloads>>

(* EAGAIN: after poll() another task has filled the socket.  The loop      *)
(* turns, and its body begins with the capture.                            *)
TaskAgain(w) ==
  /\ thread[w].at = "poll" /\ thread[w].raced
  /\ thread' = [thread EXCEPT ![w].at = "capture"]
  /\ UNCHANGED <<open, file, numbers, writer_gaurd, payloads, written>>

----------------------------------------------------------------------------
(* send_data on the loop thread. *)

write_dummy_target(len) ==
  /\ open /\ thread[Loop] = Idle /\ Lock(Loop)
  /\ thread' = [thread EXCEPT ![Loop] = [Idle EXCEPT !.at = "frame", !.frame = FromTarget(len)]]
  /\ UNCHANGED <<open, file, numbers, payloads, written>>

Sent ==
  /\ thread[Loop].at = "sent" /\ thread' = [thread EXCEPT ![Loop] = Idle]
  /\ UNCHANGED <<open, file, numbers, writer_gaurd, payloads, written>>

\* Slip: the capture deleted before stream_lock is taken
DeleteUnlocked ==
  /\ open /\ thread[Loop] = Idle /\ open' = FALSE
  /\ UNCHANGED <<file, numbers, writer_gaurd, thread, payloads, written>>

(* close_stream takes stream_lock unique, then deletes the capture. *)
Delete ==
  /\ open /\ thread[Loop] = Idle /\ \A w \in Worker : thread[w] = Idle
  /\ open' = FALSE
  /\ UNCHANGED <<file, numbers, writer_gaurd, thread, payloads, written>>

(* The process runs: no thread has died. *)
Running == \A t \in Worker : thread[t].at # "died"

Next ==
  /\ Running
  /\ \/ \E len \in Length : Submit(len) \/ write_dummy_target(len)
     \/ \E w \in Worker : TaskStart(w) \/ write_dummy_user(w) \/ TaskEnd(w) \/ TaskAgain(w)
     \/ \E t \in Worker \cup {Loop} : WriteFrame(t)
     \/ Sent \/ Delete

Spec == Init /\ [][Next]_vars

----------------------------------------------------------------------------
(* The sequence number after a frame; a SYN counts for one. *)
After(f) == (f.seq + f.len + (IF "SYN" \in f.flags THEN 1 ELSE 0)) % U32

Other(side) == IF side = "user" THEN "target" ELSE "user"

(* Frame j is the last one of a side before place i. *)
LastOf(frames, side, j, i) ==
  j < i /\ frames[j].from = side /\ \A h \in (j + 1)..(i - 1) : frames[h].from # side

(* The file is one TCP conversation: every frame begins where the last one *)
(* of its side ended and acknowledges all the other side has sent, also    *)
(* when the threads alternate and the numbers wrap.                        *)
Conversation ==
  \A i \in DOMAIN file : LET f == file[i] IN
    /\ \/ "SYN" \in f.flags
       \/ \E j \in DOMAIN file : LastOf(file, f.from, j, i) /\ f.seq = After(file[j])
    /\ "ACK" \in f.flags =>
         \E j \in DOMAIN file : LastOf(file, Other(f.from), j, i) /\ f.ack = After(file[j])

(* The capture misses nothing: what a target has got is in the file.       *)
WrittenIsCaptured == \A i \in DOMAIN written : Started(written[i])

(* The capture outlives whoever writes to it: close_stream waits for the   *)
(* tasks that have found it, and a task that starts after the close never  *)
(* gets as far as the capture (see LookedUp; that it starts at all is what *)
(* TaskFindsStream of the server denies).                                  *)
WritersHaveCapture ==
  \A t \in Worker \cup {Loop} : thread[t].at \in {"capture", "frame", "poll"} => open
=============================================================================
