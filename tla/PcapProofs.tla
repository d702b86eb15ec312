----------------------------- MODULE PcapProofs -----------------------------
(***************************************************************************)
(* The capture of a stream is one complete TCP conversation, for any       *)
(* number of pool threads, any payloads and any modulus of the sequence    *)
(* numbers, and it is there as long as somebody writes to it.              *)
(***************************************************************************)
EXTENDS PcapInterface, SequenceTheorems, TLAPS

Threads == Worker \cup {Loop}
Side == {"user", "target"}
Frames == [from : Side, flags : SUBSET {"SYN", "ACK"}, seq : Int, ack : Int,
           len : Int, payload : Nat]

(* Where a thread can be. *)
Places == {"idle", "capture", "frame", "poll", "sent", "died", "hung"}

(* What the variables hold. *)
Shape ==
  /\ open \in BOOLEAN /\ file \in Seq(Frames)
  /\ user_sequence_number \in Int /\ target_sequence_number \in Int
  /\ thread \in [Threads -> [at : Places, payload : Nat, raced : BOOLEAN, frame : Frames]]
  /\ payloads \in Seq(Nat) /\ written \in Seq(Nat)

(* The sequence number a side has come to. *)
Number(side) == IF side = "user" THEN user_sequence_number ELSE target_sequence_number

(* Whoever has made a frame and not written it yet holds the mutex, ... *)
Guarded == \A t \in Threads : thread[t].at = "frame" => writer_gaurd = t

(* ... so that the frame still says what the numbers are.                  *)
Current == \A t \in Threads : thread[t].at = "frame" =>
  LET f == thread[t].frame
  IN /\ f.flags = {"ACK"} /\ f.seq = Number(f.from) /\ f.ack = Number(Other(f.from))
     /\ f.from = IF t = Loop THEN "target" ELSE "user"

(* The numbers are those after the last frame of each side. *)
UpToDate == \A side \in Side : \E j \in DOMAIN file :
  LastOf(file, side, j, Len(file) + 1) /\ Number(side) = After(file[j])

(* A task has the payload it was given, in the file once it polls. *)
Captured == \A w \in Worker :
  /\ thread[w].at \in {"capture", "frame", "poll"} => thread[w].payload \in DOMAIN payloads
  /\ thread[w].at = "frame" => thread[w].frame.payload = thread[w].payload
  /\ thread[w].at = "poll" => Started(thread[w].payload)

(* Nobody is at work once the capture is deleted; late tasks die or hang.  *)
ClosedIsIdle == ~open => \A t \in Threads : thread[t].at \in {"idle", "died", "hung"}

Inv == /\ Shape /\ Guarded /\ Current /\ UpToDate /\ Captured /\ ClosedIsIdle
       /\ Conversation /\ WrittenIsCaptured

----------------------------------------------------------------------------
(* A longer file says the same about the frames it had. *)
LEMMA LongerFile ==
  ASSUME Shape, NEW f \in Frames, file' = Append(file, f)
  PROVE  /\ file' \in Seq(Frames) /\ Len(file') = Len(file) + 1
         /\ DOMAIN file = 1..Len(file) /\ DOMAIN file' = 1..(Len(file) + 1)
         /\ Len(file) \in Nat /\ file'[Len(file) + 1] = f
         /\ \A i \in DOMAIN file : i \in DOMAIN file' /\ file'[i] = file[i] /\ file[i] \in Frames
  BY AppendProperties DEF Shape

LEMMA SamePlaces ==
  ASSUME Shape, NEW f \in Frames, file' = Append(file, f), NEW side \in Side,
         NEW i \in 1..(Len(file) + 1), NEW j \in DOMAIN file
  PROVE  LastOf(file', side, j, i) <=> LastOf(file, side, j, i)
<1> USE LongerFile
<1>1. i \in Int /\ j \in Int /\ j \in DOMAIN file'
  OBVIOUS
<1>2. \A h \in (j + 1)..(i - 1) : h \in DOMAIN file
  OBVIOUS
<1> QED BY <1>1, <1>2 DEF LastOf

LEMMA NewPlace ==
  ASSUME Shape, NEW f \in Frames, file' = Append(file, f), NEW side \in Side,
         NEW n \in Nat, n = Len(file)
  PROVE  /\ f.from = side => LastOf(file', side, n + 1, n + 2)
         /\ \A j \in DOMAIN file : f.from # side /\ LastOf(file, side, j, n + 1)
                                     => LastOf(file', side, j, n + 2)
<1> USE LongerFile
<1>1. f.from = side => LastOf(file', side, n + 1, n + 2)
  BY DEF LastOf
<1>2. ASSUME NEW j \in DOMAIN file, f.from # side, LastOf(file, side, j, n + 1)
      PROVE  LastOf(file', side, j, n + 2)
  <2>1. j \in 1..n /\ file'[j] = file[j] /\ j < n + 2
    OBVIOUS
  <2>2. ASSUME NEW h \in (j + 1)..(n + 1) PROVE file'[h].from # side
    <3>1. CASE h = n + 1
      BY <3>1, <1>2
    <3>2. CASE h # n + 1
      <4>1. h \in (j + 1)..(n + 1 - 1) /\ h \in DOMAIN file
        BY <3>2, <2>1
      <4> QED BY <4>1, <1>2 DEF LastOf
    <3> QED BY <3>1, <3>2
  <2>3. (n + 2) - 1 = n + 1
    OBVIOUS
  <2> QED BY <2>1, <2>2, <2>3, <1>2 DEF LastOf
<1> QED BY <1>1, <1>2

(* A frame that says what the numbers are, once written and counted, goes  *)
(* on with the conversation.                                               *)
LEMMA FrameAdds ==
  ASSUME Shape, UpToDate, Conversation, NEW f \in Frames, file' = Append(file, f),
         f.flags = {"ACK"}, f.seq = Number(f.from), f.ack = Number(Other(f.from)),
         Number(f.from)' = (f.seq + f.len) % U32,
         Number(Other(f.from))' = Number(Other(f.from))
  PROVE  UpToDate' /\ Conversation'
<1> PICK n \in Nat : n = Len(file)
  BY LongerFile
<1>0. f.from \in Side /\ Other(f.from) \in Side
      /\ f.from # Other(f.from) /\ Side = {f.from, Other(f.from)}
  BY LongerFile DEF Frames, Side, Other
<1>1. /\ Len(file') = n + 1 /\ DOMAIN file = 1..n /\ DOMAIN file' = 1..(n + 1)
      /\ file'[n + 1] = f
      /\ \A i \in DOMAIN file : i \in DOMAIN file' /\ file'[i] = file[i] /\ file[i] \in Frames
  BY <1>0, LongerFile
<1>2. After(f) = (f.seq + f.len) % U32
  BY SMT DEF After, Frames
<1>3. ASSUME NEW side \in Side
      PROVE  \E j \in DOMAIN file' : LastOf(file', side, j, n + 2) /\ Number(side)' = After(file'[j])
  <2>1. CASE side = f.from
    <3>1. LastOf(file', side, n + 1, n + 2) /\ Number(side)' = After(file'[n + 1])
      BY <2>1, <1>0, <1>1, <1>2, NewPlace
    <3> QED BY <3>1, <1>0, <1>1
  <2>2. CASE side = Other(f.from)
    <3>1. PICK j \in DOMAIN file : LastOf(file, side, j, n + 1) /\ Number(side) = After(file[j])
      BY <1>0 DEF UpToDate
    <3>2. LastOf(file', side, j, n + 2)
      BY <2>2, <3>1, <1>0, NewPlace
    <3> QED BY <2>2, <3>1, <3>2, <1>1
  <2> QED BY <2>1, <2>2, <1>0
<1>4. UpToDate'
  <2>1. Len(file)' + 1 = n + 2
    BY <1>0, <1>1
  <2> QED BY <2>1, <1>3 DEF UpToDate, Side
<1>5. ASSUME NEW i \in DOMAIN file'
      PROVE  /\ \/ "SYN" \in file'[i].flags
                \/ \E j \in DOMAIN file' : LastOf(file', file'[i].from, j, i) /\ file'[i].seq = After(file'[j])
             /\ "ACK" \in file'[i].flags =>
                  \E j \in DOMAIN file' : LastOf(file', Other(file'[i].from), j, i)
                                         /\ file'[i].ack = After(file'[j])
  <2>1. ASSUME NEW side \in Side, NEW j \in DOMAIN file, LastOf(file, side, j, i)
        PROVE  LastOf(file', side, j, i) /\ file'[j] = file[j] /\ j \in DOMAIN file'
    BY <2>1, <1>0, <1>1, SamePlaces
  <2>2. CASE i = n + 1
    <3>1. ASSUME NEW side \in Side
          PROVE  \E j \in DOMAIN file' : LastOf(file', side, j, i) /\ Number(side) = After(file'[j])
      <4>1. PICK j \in DOMAIN file : LastOf(file, side, j, i) /\ Number(side) = After(file[j])
        BY <2>2, <1>0 DEF UpToDate
      <4> QED BY <4>1, <2>1
    <3> QED BY <3>1, <2>2, <1>0, <1>1
  <2>3. CASE i \in DOMAIN file
    <3>1. file'[i] = file[i] /\ file[i].from \in Side /\ Other(file[i].from) \in Side
      BY <2>3, <1>1 DEF Frames, Side, Other
    <3>2. \/ "SYN" \in file[i].flags
          \/ \E j \in DOMAIN file : LastOf(file, file[i].from, j, i) /\ file[i].seq = After(file[j])
      BY <2>3 DEF Conversation
    <3>3. "ACK" \in file[i].flags =>
            \E j \in DOMAIN file : LastOf(file, Other(file[i].from), j, i) /\ file[i].ack = After(file[j])
      BY <2>3 DEF Conversation
    <3> QED BY <3>1, <3>2, <3>3, <2>1, Zenon
  <2> QED BY <2>2, <2>3, <1>0, <1>1
<1> QED BY <1>4, <1>5 DEF Conversation

----------------------------------------------------------------------------
LEMMA InitInv == Init => Inv
<1> SUFFICES ASSUME Init PROVE Inv
  OBVIOUS
<1> USE PcapAssumption DEF PcapAssumption
<1> DEFINE h1 == Frame("user", {"SYN"}, 2, 0, 0, 0)
           h2 == Frame("target", {"SYN", "ACK"}, 2, 3, 0, 0)
           h3 == Frame("user", {"ACK"}, 3, 3, 0, 0)
<1>1. /\ h1 \in Frames /\ h1.from = "user" /\ h1.flags = {"SYN"} /\ h1.seq = 2 /\ h1.len = 0
      /\ h2 \in Frames /\ h2.from = "target" /\ h2.flags = {"SYN", "ACK"} /\ h2.seq = 2
      /\ h2.ack = 3 /\ h2.len = 0
      /\ h3 \in Frames /\ h3.from = "user" /\ h3.flags = {"ACK"} /\ h3.seq = 3 /\ h3.ack = 3
      /\ h3.len = 0
  BY DEF Frame, Frames, Side
<1>2. file = <<h1, h2, h3>>
  BY DEF Init, Handshake
<1> HIDE DEF h1, h2, h3
<1>3. /\ Len(file) = 3 /\ DOMAIN file = 1..3 /\ file[1] = h1 /\ file[2] = h2 /\ file[3] = h3
      /\ file \in Seq(Frames)
  BY <1>1, <1>2
<1>4. After(h1) = 3 /\ After(h2) = 3 /\ After(h3) = 3
  BY <1>1, SMT DEF After
<1>5. /\ LastOf(file, "user", 3, 4) /\ LastOf(file, "target", 2, 4)
      /\ LastOf(file, "user", 1, 2) /\ LastOf(file, "user", 1, 3) /\ LastOf(file, "target", 2, 3)
  BY <1>1, <1>3, SMT DEF LastOf
<1>6. Conversation
  BY <1>1, <1>3, <1>4, <1>5, SMT DEF Conversation, Other
<1>7. Idle.at = "idle" /\ Idle.payload = 0 /\ Idle.raced = FALSE /\ Idle.frame \in Frames
  BY DEF Idle, Frame, Frames, Side
<1>8. Shape
  <2>1. Idle \in [at : Places, payload : Nat, raced : BOOLEAN, frame : Frames]
    BY <1>7 DEF Idle, Places
  <2> QED BY <2>1, <1>3 DEF Init, Shape, Threads
<1>9. UpToDate
  <2>1. Number("user") = 3 /\ Number("target") = 3
    BY DEF Number, Init
  <2> QED BY <2>1, <1>3, <1>4, <1>5, SMT DEF UpToDate, Side
<1> QED BY <1>6, <1>7, <1>8, <1>9
        DEF Init, Inv, Guarded, Current, Captured, ClosedIsIdle, WrittenIsCaptured, Threads

(* Steps that leave the file and the numbers alone. *)
LEMMA FileKept ==
  ASSUME Inv, UNCHANGED <<file, numbers>>
  PROVE  /\ UpToDate' /\ Conversation' /\ \A p : Started(p)' <=> Started(p)
         /\ \A side \in Side : Number(side)' = Number(side)
  BY DEF Inv, UpToDate, Conversation, Started, Number, numbers, After, LastOf, Other

(* A thread t moves, not to write a frame, and leaves the others alone. *)
LEMMA ThreadMoves ==
  ASSUME Inv, Shape', UNCHANGED <<open, file, numbers, payloads, written, writer_gaurd>>,
         NEW t \in Threads, NEW r, thread' = [thread EXCEPT ![t] = r],
         r.at # "frame", open \/ r.at \in {"idle", "died", "hung"},
         t \in Worker /\ r.at \in {"capture", "poll"} => r.payload \in DOMAIN payloads,
         t \in Worker /\ r.at = "poll" => Started(r.payload)
  PROVE  Inv'
<1>1. \A x \in Threads : thread'[x] = IF x = t THEN r ELSE thread[x]
  BY DEF Inv, Shape
<1>2. Worker \subseteq Threads
  BY DEF Threads
<1>3. Guarded' /\ Current'
  BY <1>1, FileKept DEF Inv, Guarded, Current, Shape, Frames, Side, Number, Other, numbers, Threads
<1>4. Captured'
  BY <1>1, <1>2, FileKept DEF Inv, Captured
<1>5. ClosedIsIdle'
  BY <1>1 DEF Inv, ClosedIsIdle, Threads
<1>6. WrittenIsCaptured'
  BY FileKept DEF Inv, WrittenIsCaptured
<1> QED BY <1>3, <1>4, <1>5, <1>6, FileKept DEF Inv

(* A thread that does nothing. *)
LEMMA IdleShape ==
  /\ Idle \in [at : Places, payload : Nat, raced : BOOLEAN, frame : Frames]
  /\ Idle.at = "idle"
  BY DEF Idle, Frame, Frames, Side, Places

LEMMA SubmitInv ==
  ASSUME Inv, NEW len \in Length, Submit(len)
  PROVE  Inv'
<1> USE DEF Submit
<1>1. len \in Nat
  BY PcapAssumption DEF PcapAssumption
<1>2. payloads' \in Seq(Nat) /\ \A p \in DOMAIN payloads : p \in DOMAIN payloads'
  BY <1>1, AppendProperties DEF Inv, Shape
<1>3. Shape'
  BY <1>2 DEF Inv, Shape, numbers
<1>4. Guarded' /\ Current'
  BY FileKept DEF Inv, Guarded, Current, Shape, Frames, Side, Number, Other, numbers, Threads
<1>5. Captured' /\ ClosedIsIdle' /\ WrittenIsCaptured'
  BY <1>2, FileKept DEF Inv, Captured, ClosedIsIdle, WrittenIsCaptured
<1> QED BY <1>3, <1>4, <1>5, FileKept DEF Inv

LEMMA TaskStartInv ==
  ASSUME Inv, NEW w \in Worker, TaskStart(w)
  PROVE  Inv'
<1>1. PICK p \in DOMAIN payloads, at \in LookedUp :
        thread' = [thread EXCEPT ![w] = [Idle EXCEPT !.at = at, !.payload = p]]
  BY DEF TaskStart
<1> DEFINE r == [Idle EXCEPT !.at = at, !.payload = p]
<1>2. p \in Nat
  BY DEF Inv, Shape
<1>3. at \in {"capture", "died", "hung"} /\ (open \/ at \in {"died", "hung"})
  BY DEF LookedUp
<1>4. /\ r.at = at /\ r.payload = p
      /\ r \in [at : Places, payload : Nat, raced : BOOLEAN, frame : Frames]
  BY <1>2, <1>3, IdleShape DEF Idle, Places
<1> HIDE DEF r
<1>5. w \in Threads
  BY DEF Threads
<1>6. Shape'
  BY <1>1, <1>4 DEF r, TaskStart, Inv, Shape, numbers
<1>7. UNCHANGED <<open, file, numbers, payloads, written, writer_gaurd>>
  BY DEF TaskStart
<1>8. thread' = [thread EXCEPT ![w] = r]
  BY <1>1 DEF r
<1> QED BY <1>3, <1>4, <1>5, <1>6, <1>7, <1>8, ThreadMoves

LEMMA TaskAgainInv ==
  ASSUME Inv, NEW w \in Worker, TaskAgain(w)
  PROVE  Inv'
<1> DEFINE r == [thread[w] EXCEPT !.at = "capture"]
<1>1. w \in Threads /\ w # Loop
  BY PcapAssumption DEF Threads, PcapAssumption
<1>2. /\ r.at = "capture" /\ r.payload = thread[w].payload
      /\ r \in [at : Places, payload : Nat, raced : BOOLEAN, frame : Frames]
  BY <1>1 DEF Inv, Shape, Places
<1>3. thread' = [thread EXCEPT ![w] = r]
  BY DEF TaskAgain
<1> HIDE DEF r
<1>4. Shape'
  BY <1>2, <1>3 DEF TaskAgain, Inv, Shape, numbers
<1>5. open /\ r.payload \in DOMAIN payloads
  BY <1>1, <1>2 DEF Inv, TaskAgain, ClosedIsIdle, Captured
<1> QED BY <1>1, <1>2, <1>3, <1>4, <1>5, ThreadMoves DEF TaskAgain

LEMMA SentInv ==
  ASSUME Inv, Sent
  PROVE  Inv'
<1>1. Shape'
  BY IdleShape DEF Sent, Inv, Shape, numbers
<1> QED BY <1>1, IdleShape, ThreadMoves DEF Sent, Threads

LEMMA DeleteInv ==
  ASSUME Inv, Delete
  PROVE  Inv'
<1> USE DEF Delete
<1>1. Shape'
  BY DEF Inv, Shape, numbers
<1>2. Guarded' /\ Current'
  BY FileKept DEF Inv, Guarded, Current, Shape, Frames, Side, Number, Other, numbers, Threads
<1>3. ClosedIsIdle'
  BY IdleShape DEF ClosedIsIdle, Threads
<1>4. Captured' /\ WrittenIsCaptured'
  BY FileKept DEF Inv, Captured, WrittenIsCaptured
<1> QED BY <1>1, <1>2, <1>3, <1>4, FileKept DEF Inv

(* write() takes the payload of a task whose frame is in the file; the     *)
(* other threads only learn that they may have to try again.               *)
LEMMA TaskEndInv ==
  ASSUME Inv, NEW w \in Worker, TaskEnd(w)
  PROVE  Inv'
<1>1. w \in Threads
  BY DEF Threads
<1>2. CASE UNCHANGED written /\ thread' = [thread EXCEPT ![w] = Idle]
  <2>1. Shape'
    BY <1>2, IdleShape DEF TaskEnd, Inv, Shape, numbers
  <2> QED BY <1>1, <1>2, <2>1, IdleShape, ThreadMoves DEF TaskEnd
<1>3. CASE /\ written' = Append(written, thread[w].payload)
           /\ thread' = [t \in DOMAIN thread |->
                 IF t = w THEN Idle ELSE [thread[t] EXCEPT !.raced = (thread[t].at = "poll")]]
  <2>1. thread \in [Threads -> [at : Places, payload : Nat, raced : BOOLEAN, frame : Frames]]
        /\ DOMAIN thread = Threads
    BY DEF Inv, Shape
  <2>2. ASSUME NEW t \in Threads
        PROVE  /\ thread'[t].at = (IF t = w THEN "idle" ELSE thread[t].at)
               /\ t # w => thread'[t].payload = thread[t].payload /\ thread'[t].frame = thread[t].frame
               /\ thread'[t] \in [at : Places, payload : Nat, raced : BOOLEAN, frame : Frames]
    <3>1. CASE t = w
      BY <1>3, <2>1, <3>1, IdleShape
    <3>2. CASE t # w
      <4>1. thread'[t] = [thread[t] EXCEPT !.raced = (thread[t].at = "poll")]
        BY <1>3, <2>1, <3>2
      <4>2. (thread[t].at = "poll") \in BOOLEAN
        OBVIOUS
      <4> QED BY <2>1, <3>2, <4>1, <4>2
    <3> QED BY <3>1, <3>2
  <2>3. thread[w].payload \in Nat /\ Started(thread[w].payload)
    BY <1>1, <2>1 DEF TaskEnd, Inv, Captured
  <2>4. thread' \in [Threads -> [at : Places, payload : Nat, raced : BOOLEAN, frame : Frames]]
    <3>1. DOMAIN thread' = Threads /\ thread' = [t \in Threads |-> thread'[t]]
      BY <1>3, <2>1
    <3> QED BY <3>1, <2>2
  <2>5. Shape'
    BY <1>3, <2>3, <2>4, AppendProperties DEF TaskEnd, Inv, Shape, numbers
  <2>6. Guarded' /\ Current' /\ ClosedIsIdle'
    <3>1. Guarded' /\ ClosedIsIdle'
      BY <2>2 DEF TaskEnd, Inv, Guarded, ClosedIsIdle
    <3>2. \A t \in Threads : thread'[t].at = "frame" => thread[t].at = "frame" /\ thread'[t].frame = thread[t].frame
      BY <2>2
    <3>3. Current'
      BY <3>2 DEF TaskEnd, Inv, Current, Number, numbers
    <3> QED BY <3>1, <3>3
  <2>7. Captured'
    BY <2>2, FileKept DEF TaskEnd, Inv, Captured, Threads
  <2>8. WrittenIsCaptured'
    <3>1. \A i \in DOMAIN written' : (written'[i] = thread[w].payload)
                                    \/ (i \in DOMAIN written /\ written'[i] = written[i])
      BY <1>3, <2>3, AppendProperties DEF Inv, Shape
    <3> QED BY <2>3, <3>1, FileKept DEF TaskEnd, Inv, WrittenIsCaptured
  <2> QED BY <2>5, <2>6, <2>7, <2>8, FileKept DEF TaskEnd, Inv
<1> QED BY <1>2, <1>3 DEF TaskEnd

----------------------------------------------------------------------------
(* A thread takes the mutex and makes its frame of the numbers as they are. *)
LEMMA MakesFrame ==
  ASSUME Inv, Shape', UNCHANGED <<open, file, numbers, payloads, written>>, open,
         NEW t \in Threads, NEW r, thread' = [thread EXCEPT ![t] = r], Lock(t),
         r.at = "frame", r.frame.flags = {"ACK"},
         r.frame.from = IF t = Loop THEN "target" ELSE "user",
         r.frame.seq = Number(r.frame.from), r.frame.ack = Number(Other(r.frame.from)),
         t \in Worker => r.payload \in DOMAIN payloads /\ r.frame.payload = r.payload
  PROVE  Inv'
<1>1. \A x \in Threads : thread'[x] = IF x = t THEN r ELSE thread[x]
  BY DEF Inv, Shape
<1>2. writer_gaurd' = t /\ \A x \in Threads : thread[x].at # "frame"
  BY PcapAssumption DEF Lock, Inv, Guarded, PcapAssumption, Threads
<1>3. Guarded'
  BY <1>1, <1>2 DEF Guarded
<1>4. Current'
  <2>1. ASSUME NEW x \in Threads, thread'[x].at = "frame"
        PROVE  x = t /\ thread'[x].frame = r.frame
    BY <1>1, <1>2, <2>1
  <2>2. Number(r.frame.from)' = Number(r.frame.from) /\ Number(Other(r.frame.from))' = Number(Other(r.frame.from))
    BY DEF Number, numbers
  <2> QED BY <2>1, <2>2 DEF Current, Number, numbers
<1>5. Captured'
  BY <1>1, <1>2, FileKept DEF Inv, Captured, Threads
<1>6. ClosedIsIdle' /\ WrittenIsCaptured'
  BY FileKept DEF Inv, ClosedIsIdle, WrittenIsCaptured
<1> QED BY <1>3, <1>4, <1>5, <1>6, FileKept DEF Inv

LEMMA UserFrameInv ==
  ASSUME Inv, NEW w \in Worker, write_dummy_user(w)
  PROVE  Inv'
<1> DEFINE f == FromUser(thread[w].payload)
           r == [thread[w] EXCEPT !.at = "frame", !.frame = f]
<1>1. w \in Threads /\ w # Loop
  BY PcapAssumption DEF Threads, PcapAssumption
<1>2. /\ thread[w].payload \in DOMAIN payloads /\ open
      /\ thread[w].payload \in Nat /\ payloads[thread[w].payload] \in Nat
  <2>1. thread[w].at = "capture"
    BY DEF write_dummy_user
  <2>2. open
    BY <1>1, <2>1, Zenon DEF Inv, ClosedIsIdle
  <2> QED BY <1>1, <2>1, <2>2 DEF Inv, Shape, Captured
<1>3. /\ f \in Frames /\ f.from = "user" /\ f.flags = {"ACK"} /\ f.payload = thread[w].payload
      /\ f.seq = user_sequence_number /\ f.ack = target_sequence_number
  BY <1>2 DEF FromUser, Frame, Frames, Side, Inv, Shape
<1>4. thread' = [thread EXCEPT ![w] = r]
  BY DEF write_dummy_user
<1> HIDE DEF f
<1>5. /\ r.at = "frame" /\ r.payload = thread[w].payload /\ r.frame = f
      /\ r \in [at : Places, payload : Nat, raced : BOOLEAN, frame : Frames]
  BY <1>1, <1>3 DEF Inv, Shape, Places
<1> HIDE DEF r
<1>6. Shape'
  BY <1>4, <1>5 DEF write_dummy_user, Inv, Shape, numbers
<1>7. f.seq = Number(f.from) /\ f.ack = Number(Other(f.from))
  BY <1>3 DEF Number, Other
<1> QED BY <1>1, <1>2, <1>3, <1>4, <1>5, <1>6, <1>7, MakesFrame DEF write_dummy_user

LEMMA TargetFrameInv ==
  ASSUME Inv, NEW len \in Length, write_dummy_target(len)
  PROVE  Inv'
<1> DEFINE f == FromTarget(len)
           r == [Idle EXCEPT !.at = "frame", !.frame = f]
<1>1. Loop \in Threads /\ Loop \notin Worker /\ len \in Nat
  BY PcapAssumption DEF Threads, PcapAssumption
<1>3. /\ f \in Frames /\ f.from = "target" /\ f.flags = {"ACK"}
      /\ f.seq = target_sequence_number /\ f.ack = user_sequence_number
  BY <1>1 DEF FromTarget, Frame, Frames, Side, Inv, Shape
<1>4. thread' = [thread EXCEPT ![Loop] = r]
  BY DEF write_dummy_target
<1> HIDE DEF f
<1>5. /\ r.at = "frame" /\ r.frame = f
      /\ r \in [at : Places, payload : Nat, raced : BOOLEAN, frame : Frames]
  BY <1>3, IdleShape DEF Places
<1> HIDE DEF r
<1>6. Shape'
  BY <1>4, <1>5 DEF write_dummy_target, Inv, Shape, numbers
<1>7. f.seq = Number(f.from) /\ f.ack = Number(Other(f.from))
  BY <1>3 DEF Number, Other
<1> QED BY <1>1, <1>3, <1>4, <1>5, <1>6, <1>7, MakesFrame DEF write_dummy_target

(* The holder of the mutex writes its frame and counts it. *)
LEMMA WriteFrameInv ==
  ASSUME Inv, NEW t \in Threads, WriteFrame(t)
  PROVE  Inv'
<1> PICK f \in Frames : f = thread[t].frame
  BY DEF Inv, Shape
<1> DEFINE r == [thread[t] EXCEPT !.at = IF t = Loop THEN "sent" ELSE "poll", !.raced = FALSE]
<1>1. /\ thread[t].at = "frame" /\ f \in Frames /\ f.from \in Side /\ f.len \in Int
      /\ f.flags = {"ACK"} /\ f.seq = Number(f.from) /\ f.ack = Number(Other(f.from))
      /\ writer_gaurd = t
  BY DEF WriteFrame, Inv, Shape, Current, Guarded, Frames
<1>2. \A x \in Threads : x # t => thread[x].at # "frame"
  BY <1>1 DEF Inv, Guarded
<1>a. /\ f.from = "user" => /\ user_sequence_number' = (user_sequence_number + f.len) % U32
                           /\ target_sequence_number' = target_sequence_number
      /\ f.from # "user" => /\ target_sequence_number' = (target_sequence_number + f.len) % U32
                           /\ user_sequence_number' = user_sequence_number
      /\ file' = Append(file, f)
  BY DEF WriteFrame
<1>3. /\ Number(f.from)' = (f.seq + f.len) % U32
      /\ Number(Other(f.from))' = Number(Other(f.from))
      /\ user_sequence_number' \in Int /\ target_sequence_number' \in Int
  <2>0. U32 \in Nat /\ U32 > 0 /\ user_sequence_number \in Int /\ target_sequence_number \in Int
    BY PcapAssumption DEF Inv, Shape, PcapAssumption
  <2>1. \A n \in Int : (n % U32) \in Int
    BY <2>0
  <2>2. CASE f.from = "user"
    <3>1. Number(f.from)' = user_sequence_number' /\ Number(f.from) = user_sequence_number
          /\ Number(Other(f.from))' = target_sequence_number' /\ Number(Other(f.from)) = target_sequence_number
      BY <2>2, <1>1, <1>a DEF Number, Other
    <3> QED BY <1>1, <1>a, <2>0, <2>1, <2>2, <3>1
  <2>3. CASE f.from = "target"
    <3>1. Number(f.from)' = target_sequence_number' /\ Number(f.from) = target_sequence_number
          /\ Number(Other(f.from))' = user_sequence_number' /\ Number(Other(f.from)) = user_sequence_number
      BY <2>3, <1>1, <1>a DEF Number, Other
    <3> QED BY <1>1, <1>a, <2>0, <2>1, <2>3, <3>1
  <2> QED BY <1>1, <2>2, <2>3 DEF Side
<1>4. UpToDate' /\ Conversation'
  BY <1>1, <1>a, <1>3, FrameAdds DEF Inv
<1>5. thread' = [thread EXCEPT ![t] = r]
  BY DEF WriteFrame
<1>6. /\ r.at = (IF t = Loop THEN "sent" ELSE "poll") /\ r.payload = thread[t].payload
      /\ r \in [at : Places, payload : Nat, raced : BOOLEAN, frame : Frames]
  BY DEF Inv, Shape, Places
<1> HIDE DEF r
<1>7. \A x \in Threads : thread'[x] = IF x = t THEN r ELSE thread[x]
  BY <1>5 DEF Inv, Shape
<1>8. Shape'
  <2>1. thread' \in [Threads -> [at : Places, payload : Nat, raced : BOOLEAN, frame : Frames]]
    BY <1>5, <1>6 DEF Inv, Shape
  <2>2. file' \in Seq(Frames)
    BY <1>a, LongerFile DEF Inv
  <2> QED BY <1>3, <2>1, <2>2 DEF WriteFrame, Inv, Shape
<1>9. \A x \in Threads : thread'[x].at # "frame"
  BY <1>2, <1>6, <1>7
<1>10. (\A p : Started(p) => Started(p)') /\ Started(f.payload)'
  <2>1. /\ \A i \in DOMAIN file : i \in DOMAIN file' /\ file'[i] = file[i]
        /\ \E i \in DOMAIN file' : file'[i] = f
    BY <1>1, <1>a, LongerFile DEF Inv
  <2> QED BY <2>1 DEF Started
<1>11. Guarded' /\ Current'
  BY <1>9 DEF Guarded, Current
<1>12. Captured'
  <2>1. t \in Worker => f.payload = thread[t].payload /\ thread[t].payload \in DOMAIN payloads
    BY <1>1 DEF Inv, Captured
  <2>2. ASSUME NEW w \in Worker
        PROVE  /\ thread'[w].at \in {"capture", "frame", "poll"} => thread'[w].payload \in DOMAIN payloads
               /\ thread'[w].at # "frame"
               /\ thread'[w].at = "poll" => \E i \in DOMAIN file' : file'[i].payload = thread'[w].payload
    <3>1. CASE w = t
      <4>1. thread'[w] = r /\ r.payload = f.payload
        BY <1>6, <1>7, <2>1, <3>1 DEF Threads
      <4> QED BY <4>1, <1>6, <1>9, <1>10, <2>1, <3>1 DEF Threads, Started
    <3>2. CASE w # t
      <4>1. thread'[w] = thread[w]
        BY <1>7, <3>2 DEF Threads
      <4> QED BY <4>1, <1>9, <1>10 DEF Inv, Captured, Threads, Started
    <3> QED BY <3>1, <3>2
  <2> QED BY <2>2 DEF WriteFrame, Captured, Started
<1>13. ClosedIsIdle' /\ WrittenIsCaptured'
  BY <1>1, <1>10 DEF WriteFrame, Inv, ClosedIsIdle, WrittenIsCaptured
<1> QED BY <1>4, <1>8, <1>11, <1>12, <1>13 DEF Inv

----------------------------------------------------------------------------
LEMMA NextInv == Inv /\ [Next]_vars => Inv'
<1> SUFFICES ASSUME Inv, [Next]_vars PROVE Inv'
  OBVIOUS
<1>1. CASE UNCHANGED vars
  <2>1. Shape' /\ Captured' /\ ClosedIsIdle' /\ Guarded' /\ WrittenIsCaptured'
    BY <1>1 DEF vars, Inv, Shape, Captured, ClosedIsIdle, Guarded, WrittenIsCaptured, Started
  <2>2. Current'
    BY <1>1 DEF vars, Inv, Current, Number
  <2> QED BY <1>1, <2>1, <2>2, FileKept DEF Inv, vars, numbers
<1>2. ASSUME NEW len \in Length, Submit(len) \/ write_dummy_target(len) PROVE Inv'
  BY <1>2, SubmitInv, TargetFrameInv
<1>3. ASSUME NEW w \in Worker, TaskStart(w) \/ write_dummy_user(w) \/ TaskEnd(w) \/ TaskAgain(w)
      PROVE  Inv'
  BY <1>3, TaskStartInv, UserFrameInv, TaskEndInv, TaskAgainInv
<1>4. ASSUME NEW t \in Threads, WriteFrame(t) PROVE Inv'
  BY <1>4, WriteFrameInv
<1>5. CASE Sent \/ Delete
  BY <1>5, SentInv, DeleteInv
<1> QED BY <1>1, <1>2, <1>3, <1>4, <1>5 DEF Next, Threads

(* The capture and its threads keep the invariant. *)
LEMMA Inductive == Spec => []Inv
  BY InitInv, NextInv, PTL DEF Spec

(* The file is one TCP conversation whichever threads write it and however *)
(* often the sequence numbers wrap: writer_gaurd covers the making of a    *)
(* frame, its writing and its counting (pcap.h write_dummy_user and        *)
(* write_dummy_target), so a frame is written before the numbers move on.  *)
THEOREM AlwaysConversation == Spec => []Conversation
<1>1. Inv => Conversation
  BY DEF Inv
<1> QED BY <1>1, Inductive, PTL

(* What write() has given to the target is in the file: the task captures  *)
(* its payload before it polls, in every turn of its loop.                 *)
THEOREM AlwaysCaptured == Spec => []WrittenIsCaptured
<1>1. Inv => WrittenIsCaptured
  BY DEF Inv
<1> QED BY <1>1, Inductive, PTL

(* close_stream deletes the capture when no task and no send_data uses it: *)
(* it waits for stream_lock, and send_data is on its own thread.  Tasks    *)
(* that are still queued then start late; they die in the look-up or hang  *)
(* in the lock before they come to the capture.                            *)
THEOREM AlwaysHaveCapture == Spec => []WritersHaveCapture
<1>1. Inv => WritersHaveCapture
  BY DEF Inv, WritersHaveCapture, ClosedIsIdle, Threads
<1> QED BY <1>1, Inductive, PTL
=============================================================================
