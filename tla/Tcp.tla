-------------------------------- MODULE Tcp --------------------------------
(***************************************************************************)
(* The TCP connections between the host's sessions and the firmware, as    *)
(* link.rs and channel/tcp.rs use them.  The firmware has ONE socket, so   *)
(* at most one connection is established at its end; a host session holds  *)
(* an Option<TcpStream>.  Both stacks are external: a stream delivers the  *)
(* bytes written to it in order, in pieces of any size, and loses the rest *)
(* when it is reset.                                                       *)
(***************************************************************************)
EXTENDS Frame

CONSTANTS
  Sessions,     \* USB/IP sessions of the host, each with its own DapLink
  Nobody,       \* the firmware's socket has no connection
  MidFrameLoss  \* the network may cut a connection in the middle of a frame

ASSUME TcpAssumption == Nobody \notin Sessions /\ MidFrameLoss \in BOOLEAN

VARIABLES
  listening,  \* the firmware's socket is in the Listen state
  peer,       \* the session at the other end of the firmware's connection
  up,         \* bytes that peer wrote and the firmware has not read
  stream,     \* DapLink.stream: none, live, or dead (the firmware's end is gone)
  inbox       \* bytes the session can read from its stream

tcpVars == <<listening, peer, up, stream, inbox>>

TcpTypeOK ==
  /\ listening \in BOOLEAN
  /\ peer \in Sessions \cup {Nobody}
  /\ up \in Seq(Byte)
  /\ stream \in [Sessions -> {"none", "live", "dead"}]
  /\ inbox \in [Sessions -> Seq(Byte)]

TcpInit ==
  /\ listening = FALSE
  /\ peer = Nobody
  /\ up = <<>>
  /\ stream = [h \in Sessions |-> "none"]
  /\ inbox = [h \in Sessions |-> <<>>]

Live(h) == stream[h] = "live"

\* The firmware listens: the socket was closed by abort() before.
Listen ==
  /\ ~listening
  /\ peer = Nobody
  /\ listening' = TRUE
  /\ UNCHANGED <<peer, up, stream, inbox>>

\* A connection is established at the firmware's end.  The host's end is
\* live, or already dropped when connect() timed out as the handshake ended.
Establish(h, hostEnd) ==
  /\ listening
  /\ listening' = FALSE
  /\ peer' = h
  /\ up' = <<>>
  /\ stream' = [stream EXCEPT ![h] = hostEnd]
  /\ inbox' = [inbox EXCEPT ![h] = <<>>]

\* The host drops its stream.  What it wrote still travels, then a FIN.
DropStream(h) ==
  /\ stream' = [stream EXCEPT ![h] = "none"]
  /\ inbox' = [inbox EXCEPT ![h] = <<>>]

\* Bytes the host writes reach the firmware only on a live connection.
PutUp(h, bytes) == up' = IF Live(h) THEN up \o bytes ELSE up

\* Bytes the firmware writes reach the host only while it holds its stream.
PutDown(bytes) ==
  inbox' = IF Live(peer) THEN [inbox EXCEPT ![peer] = @ \o bytes] ELSE inbox

\* abort(): the firmware's end is gone, unread bytes with it.
Abort ==
  /\ listening' = FALSE
  /\ peer' = Nobody
  /\ up' = <<>>
  /\ stream' = [h \in Sessions |-> IF h = peer /\ Live(h) THEN "dead" ELSE stream[h]]
  /\ UNCHANGED inbox
=============================================================================
