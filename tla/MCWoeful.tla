------------------------------ MODULE MCWoeful ------------------------------
(***************************************************************************)
(* Instances of the server for TLC.                                        *)
(***************************************************************************)
EXTENDS WoefulProperties, TLC

(* Connections, stream ids, descriptor numbers and pool threads are         *)
(* interchangeable: nothing in the code orders them.                       *)
Symmetry == Permutations(Conn) \cup Permutations(StreamId)
              \cup Permutations(Fd) \cup Permutations(Worker)
=============================================================================
