----------------------------- MODULE WispCredit -----------------------------
(***************************************************************************)
(* The flow control of Wisp as a client relies on it.  Each TCP stream has *)
(* room for Room packets; the client spends credit as it sends; a CONTINUE *)
(* is given only when the room is used up, one at a time, and brings the   *)
(* whole credit back.  No credit is made up on the way and none is lost.   *)
(***************************************************************************)
EXTENDS Naturals

CONSTANTS Stream, Room
VARIABLES
  open,     \* TCP streams that are open at both ends
  credit,   \* packets the client may still send
  buffer,   \* packets the server has room for
  granted   \* a CONTINUE is on its way

vars == <<open, credit, buffer, granted>>

Init ==
  /\ open = {}
  /\ credit = [i \in Stream |-> 0] /\ buffer = [i \in Stream |-> 0]
  /\ granted = [i \in Stream |-> FALSE]

Open(i) ==
  /\ i \notin open /\ open' = open \cup {i}
  /\ credit' = [credit EXCEPT ![i] = Room] /\ buffer' = [buffer EXCEPT ![i] = Room]
  /\ UNCHANGED granted

(* A packet; the one that uses up the room may bring the CONTINUE at once. *)
Send(i) ==
  /\ i \in open /\ credit[i] > 0 /\ credit' = [credit EXCEPT ![i] = @ - 1]
  /\ \/ buffer' = [buffer EXCEPT ![i] = @ - 1] /\ UNCHANGED granted
     \/ /\ buffer[i] = 1 /\ buffer' = [buffer EXCEPT ![i] = Room]
        /\ granted' = [granted EXCEPT ![i] = TRUE]
  /\ UNCHANGED open

Grant(I) ==
  /\ \A i \in I : i \in open /\ buffer[i] = 0 /\ ~granted[i]
  /\ buffer' = [i \in Stream |-> IF i \in I THEN Room ELSE buffer[i]]
  /\ granted' = [i \in Stream |-> i \in I \/ granted[i]]
  /\ UNCHANGED <<open, credit>>

Receive(i) ==
  /\ granted[i] /\ granted' = [granted EXCEPT ![i] = FALSE]
  /\ credit[i] = 0 /\ credit' = [credit EXCEPT ![i] = Room]
  /\ UNCHANGED <<open, buffer>>

(* One end closes the stream, or the connection ends with all its streams. *)
Close(I) ==
  /\ I \subseteq open /\ open' = open \ I
  /\ credit' = [i \in Stream |-> IF i \in I THEN 0 ELSE credit[i]]
  /\ buffer' = [i \in Stream |-> IF i \in I THEN 0 ELSE buffer[i]]
  /\ granted' = [i \in Stream |-> i \notin I /\ granted[i]]

Next == \/ \E i \in Stream : Open(i) \/ Send(i) \/ Receive(i)
        \/ \E I \in SUBSET Stream : I # {} /\ (Grant(I) \/ Close(I))

Spec == Init /\ [][Next]_vars
=============================================================================
