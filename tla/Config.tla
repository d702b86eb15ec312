------------------------------- MODULE Config -------------------------------
(***************************************************************************)
(* From the configuration file to the streams that are opened:             *)
(* read_config(), set_conf(), and open_stream() with its block list, which *)
(* gets what WispPackets makes of the bytes of a CONNECT.  The text of an  *)
(* attribute and its conversion by tinyxml2 are one step: an attribute is  *)
(* missing, cannot be converted, or has a value.                           *)
(***************************************************************************)
EXTENDS WispPackets, FiniteSetsExt

CONSTANTS
  Unsigned,     \* unsigned ints an attribute may hold
  CliPort,      \* --port, or its default
  MaxElements   \* bound: elements of the file

ASSUME ConfigAssumption ==
  Unsigned \subseteq Nat /\ CliPort \in Nat /\ MaxElements \in Nat

VARIABLES
  doc,     \* the file as tinyxml2 sees it
  child,   \* the element the loop of read_config is at
  ret,     \* the WoefulConfig it builds
  result,  \* what it returned: "none" yet, "ok", or the error;
           \* "serving" when start_wisp_server() has found a port
  conf,    \* global_conf
  asked    \* the last CONNECT, and whether open_stream() went on to connect

configVars == <<doc, child, ret, result, conf, asked>>

(* Host names are strings of bytes other than zero. *)
Hostname == UNION {[1..n -> Octet \ {0}] : n \in 0..(MaxBody - 3)}

(* An element: what it is, what became of its attribute, and its value. *)
Element ==
  [name : {"port", "list_port"}, attribute : {"ok"}, value : Unsigned]
  \cup [name : {"pcap"}, attribute : {"ok"}, value : BOOLEAN]
  \cup [name : {"list_hostname"}, attribute : {"ok"}, value : Hostname]
  \cup [name : {"port", "list_port", "pcap"}, attribute : {"missing", "bad"}, value : {FALSE}]
  \cup [name : {"list_hostname", "unknown"}, attribute : {"missing"}, value : {FALSE}]

Document ==
  [load : {"loaded"}, block_type : {"absent", "none", "white", "black", "grey"},
   elements : UNION {[1..n -> Element] : n \in 0..MaxElements}]
  \cup [load : {"no --config", "no file", "no root"}, block_type : {"absent"},
        elements : {<<>>}]

(* WoefulConfig: std::optional port_number, and the members of the list. *)
NoPort == {}
Default == [pcap_capture |-> FALSE, port_number |-> NoPort,
            block_type |-> "none", block_members |-> <<>>]
MemberPort(port) == [type |-> "port", port |-> port]
MemberHostname(hostname) == [type |-> "hostname", hostname |-> hostname]

NotAsked == [packet |-> <<>>, connects |-> FALSE]

ConfigInit ==
  /\ Init /\ doc \in Document
  /\ child = 0 /\ ret = Default /\ result = "none"
  /\ conf = Default /\ asked = NotAsked

----------------------------------------------------------------------------
(* read_config() *)

Return(r) == result' = r /\ UNCHANGED <<child, ret>>

(* The file, its root and the attribute of the root. *)
ReadRoot ==
  /\ result = "none" /\ child = 0 /\ doc.load # "no --config"
  /\ CASE doc.load = "no file" -> Return("Failed to get file.")
       [] doc.load = "no root" -> Return("Failed to find root.")
       [] doc.load = "loaded" /\ doc.block_type = "grey" ->
            Return("Attribute block_type has invalid value")
       [] OTHER ->
            /\ child' = 1 /\ UNCHANGED result
            /\ ret' = IF doc.block_type = "absent" THEN ret
                      ELSE [ret EXCEPT !.block_type = doc.block_type]
  /\ UNCHANGED <<vars, doc, conf, asked>>

FailedToFind == [port |-> "Failed to find port_number.", pcap |-> "Failed to find pcap_capture.",
                 list_port |-> "Failed to find port.", list_hostname |-> "Failed to find hostname."]
FailedToParse == [port |-> "Failed to parse port_number.", pcap |-> "Failed to parse pcap_capture.",
                  list_port |-> "Failed to parse port_number."]

\* Slip: an unknown element is skipped
ErrorLenient(e) ==
  CASE e.name = "unknown" -> "none"
    [] e.name # "unknown" /\ e.attribute = "missing" -> FailedToFind[e.name]
    [] e.name # "unknown" /\ e.attribute = "bad" -> FailedToParse[e.name]
    [] OTHER -> "none"

(* Why an element ends the loop, if it does. *)
Error(e) ==
  CASE e.name = "unknown" -> "Unknown element."
    [] e.name # "unknown" /\ e.attribute = "missing" -> FailedToFind[e.name]
    [] e.name # "unknown" /\ e.attribute = "bad" -> FailedToParse[e.name]
    [] OTHER -> "none"

\* Slip: the port of a member kept as a uint16_t
ApplyNarrow(c, e) ==
  CASE e.name = "port" -> [c EXCEPT !.port_number = {e.value}]
    [] e.name = "pcap" -> [c EXCEPT !.pcap_capture = e.value]
    [] e.name = "list_port" -> [c EXCEPT !.block_members = Append(@, MemberPort(e.value % 65536))]
    [] e.name = "list_hostname" -> [c EXCEPT !.block_members = Append(@, MemberHostname(e.value))]
    [] OTHER -> c

(* What it adds to the configuration: a later port or pcap overwrites an   *)
(* earlier one, members add up.                                            *)
Apply(c, e) ==
  CASE e.name = "port" -> [c EXCEPT !.port_number = {e.value}]
    [] e.name = "pcap" -> [c EXCEPT !.pcap_capture = e.value]
    [] e.name = "list_port" -> [c EXCEPT !.block_members = Append(@, MemberPort(e.value))]
    [] e.name = "list_hostname" -> [c EXCEPT !.block_members = Append(@, MemberHostname(e.value))]
    [] OTHER -> c

(* One turn of the loop over the children of the root. *)
ReadChild ==
  /\ result = "none" /\ child \in DOMAIN doc.elements
  /\ LET e == doc.elements[child]
     IN IF Error(e) # "none" THEN Return(Error(e))
        ELSE ret' = Apply(ret, e) /\ child' = child + 1 /\ UNCHANGED result
  /\ UNCHANGED <<vars, doc, conf, asked>>

ReadEnd == /\ result = "none" /\ child = Len(doc.elements) + 1 /\ Return("ok")
           /\ UNCHANGED <<vars, doc, conf, asked>>

(* main() gives set_conf() what the file says, or else the port of the    *)
(* command line; with an error it exits.                                   *)
set_conf ==
  /\ conf = Default
  /\ \/ result = "ok" /\ conf' = ret
     \/ /\ result = "none" /\ doc.load = "no --config"
        /\ conf' = [Default EXCEPT !.port_number = {CliPort}]
  /\ result' = IF conf'.port_number = NoPort THEN "no port" ELSE "serving"
  /\ UNCHANGED <<vars, doc, child, ret, asked>>

----------------------------------------------------------------------------
(* open_stream(): an unknown stream type is refused; the loop over the     *)
(* members sets two flags.                                                 *)

is_matched_hostname(host) ==
  \E i \in DOMAIN conf.block_members : LET m == conf.block_members[i]
    IN m.type = "hostname" /\ m.hostname = host
is_matched_port(port) ==
  \E i \in DOMAIN conf.block_members : LET m == conf.block_members[i]
    IN m.type = "port" /\ m.port = port

Refused(type, host, port) ==
  \/ type \notin {1, 2}
  \/ conf.block_type = "black" /\ (is_matched_hostname(host) \/ is_matched_port(port))
  \/ conf.block_type = "white" /\ ~(is_matched_hostname(host) /\ is_matched_port(port))

(* handle_connect() passes the host name on as a C string; without a zero  *)
(* byte it ends wherever one happens to be in memory.                      *)
open_stream ==
  /\ at = "connect"
  /\ \E host \in IF Terminated(inner.destination_hostname)
                  THEN {CString(inner.destination_hostname)} ELSE Hostname :
       asked' = [packet |-> view,
                 connects |-> ~Refused(inner.stream_type, host, inner.destination_port)]
  /\ Ignore /\ UNCHANGED <<doc, child, ret, result, conf>>

(* With the default configuration every message is tried, otherwise the   *)
(* CONNECTs of one stream.                                                 *)
Connects == {<<PACKET_CONNECT, 0, 0, 0, 0>> \o b : b \in {b \in Body : Len(b) >= 3}}

Receive == /\ asked = NotAsked
           /\ \E m \in IF doc.load = "loaded" THEN Connects ELSE Message : receive(m)

(* receive() returns, after a CLOSE for a stream that was refused. *)
Answered == /\ asked # NotAsked /\ asked' = NotAsked
            /\ UNCHANGED <<vars, doc, child, ret, result, conf>>

Serve == /\ result = "serving"
         /\ \/ open_stream \/ Answered
            \/ (Receive \/ handle_connect \/ IgnoreOther) /\ UNCHANGED configVars
            \/ /\ doc.load # "loaded" /\ asked = NotAsked
               /\ (Senders \/ Sent) /\ UNCHANGED configVars

ConfigNext == ReadRoot \/ ReadChild \/ ReadEnd \/ set_conf \/ Serve

ConfigSpec == ConfigInit /\ [][ConfigNext]_<<vars, configVars>>

----------------------------------------------------------------------------
(* The elements that a file must not have, and the first of them. *)
Bad == {i \in DOMAIN doc.elements : doc.elements[i].attribute # "ok"}

(* A file is accepted as a whole or not at all: read_config() succeeds     *)
(* exactly when there is nothing wrong with any part of it, and otherwise  *)
(* reports the first thing that is, no matter what it had read before.     *)
AllOrNothing ==
  /\ result \in {"ok", "serving", "no port"} /\ doc.load # "no --config" =>
       doc.load = "loaded" /\ doc.block_type # "grey" /\ Bad = {}
  /\ result \notin {"none", "ok", "serving", "no port"} =>
       /\ \/ doc.load # "loaded" \/ doc.block_type = "grey"
          \/ Bad # {} /\ result = Error(doc.elements[Min(Bad)])
       /\ conf = Default

(* The value of the last element with a name, as an optional. *)
LastOf(name) ==
  LET named == {i \in DOMAIN doc.elements : doc.elements[i].name = name}
  IN IF named = {} THEN {} ELSE {doc.elements[Max(named)].value}

Listed(name, v) == \E i \in DOMAIN doc.elements :
                     doc.elements[i].name = name /\ doc.elements[i].value = v

(* The server does what the file says: it binds to its last port, and of  *)
(* the CONNECTs for TCP or UDP it follows exactly those whose host name and *)
(* port, as the client sent them, the list leaves; the port is compared in *)
(* full with the unsigned int of the file.  (Of an empty host name that is *)
(* left without a terminator, see NameEnds, nothing is said.)              *)
ServesTheFile ==
  result \in {"serving", "no port"} /\ doc.load = "loaded" =>
    /\ conf.port_number = LastOf("port")
    /\ conf.pcap_capture = (TRUE \in LastOf("pcap"))
    /\ NameEnds(asked.packet) /\ asked.packet[6] \in {1, 2} =>
         LET host == CString(From(asked.packet, 8) \o <<0>>)
             port == asked.packet[7] + 256 * asked.packet[8]
         IN asked.connects =
              CASE doc.block_type = "black" -> ~(\/ Listed("list_hostname", host)
                                                 \/ Listed("list_port", port))
                [] doc.block_type = "white" -> /\ Listed("list_hostname", host)
                                               /\ Listed("list_port", port)
                [] OTHER -> TRUE
=============================================================================
