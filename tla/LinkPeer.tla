------------------------------ MODULE LinkPeer ------------------------------
(***************************************************************************)
(* DapLink alone, against a peer that may send any bytes at any time and   *)
(* close whenever it likes: what request() does with a stream it cannot    *)
(* trust.  The peer is external.                                           *)
(***************************************************************************)
EXTENDS DapLink

CONSTANTS
  PeerBytes,   \* bytes the peer may send
  MaxBytes,    \* bound: bytes of the peer not yet read
  MaxReq       \* bound: requests

ASSUME PeerAssumption == PeerBytes \subseteq Byte /\ MaxBytes \in Nat /\ MaxReq \in Nat

VARIABLE taken   \* history: bytes the current attempt has consumed

vars == <<tcpVars, linkVars, taken>>

Init ==
  /\ TcpInit
  /\ LinkInit
  /\ taken = [h \in Sessions |-> <<>>]

Busy(h) == lpc[h] # "idle"

Ask(h, p) ==
  /\ \/ RequestTooLarge(h, p)
     \/ LINK_REQUESTS < MaxReq /\ Request(h, p)
  /\ UNCHANGED taken

Send(h) ==
  /\ Write(h) \/ \E n \in 0 .. MAX_FRAME + 2 : WriteFails(h, n)
  /\ taken' = [taken EXCEPT ![h] = <<>>]

Reconnect(h) ==
  /\ \/ Connect(h)
     \/ \E late \in BOOLEAN : ConnectFails(h, late) \/ ReconnectFails(h, late)
  /\ UNCHANGED taken

\* Reading: what has left the inbox was consumed, unless the stream went too.
Receive(h) ==
  /\ \/ ReadFails(h)
     \/ ReadMagic(h)
     \/ SkipByte(h)
     \/ ReadLen(h)
     \/ ReadPayload(h)
  /\ taken' = IF stream'[h] = "none" THEN taken
              ELSE [taken EXCEPT ![h] = @ \o SubSeq(inbox[h], 1, Wanted(h))]

HostStep(h) == Send(h) \/ Reconnect(h) \/ Receive(h)

PeerListens == Listen

PeerTakes == up # <<>> /\ up' = <<>> /\ UNCHANGED <<listening, peer, stream, inbox>>

PeerSends(byte) ==
  /\ peer # Nobody
  /\ Live(peer)
  /\ Len(inbox[peer]) < MaxBytes
  /\ PutDown(<<byte>>)
  /\ UNCHANGED <<listening, peer, up, stream>>

PeerAborts == peer # Nobody /\ Abort

PeerStep ==
  /\ PeerListens \/ PeerTakes \/ PeerAborts \/ \E byte \in PeerBytes : PeerSends(byte)
  /\ UNCHANGED <<linkVars, taken>>

Next ==
  \/ \E h \in Sessions, p \in Requests : Ask(h, p)
  \/ \E h \in Sessions : HostStep(h)
  \/ \E h \in Sessions : Detach(h) /\ UNCHANGED taken
  \/ PeerStep

\* Only the host is fair: the peer may send for ever or fall silent.
Spec == Init /\ [][Next]_vars /\ \A h \in Sessions : WF_vars(HostStep(h))
-----------------------------------------------------------------------------
(***************************************************************************)
(* A response comes from the stream exactly as it stands there: at most    *)
(* MAX_FRAME bytes none of which is the magic, then one frame, of which it *)
(* is the payload; nothing is lost in front of the next one (read_frame).  *)
(***************************************************************************)
ReturnsFirstFrame ==
  [][\A h \in Sessions : lpc[h] = "payload" /\ lpc'[h] = "idle" /\ answer'[h].ok =>
       /\ Len(answer'[h].resp) <= MAX_FRAME
       /\ \E k \in 0 .. MAX_FRAME :
            /\ taken'[h] = SubSeq(taken'[h], 1, k) \o Wire(answer'[h].resp)
            /\ \A i \in 1 .. k : taken'[h][i] # FRAME_MAGIC]_vars

(***************************************************************************)
(* Every request returns whatever the peer does: sending bytes for ever    *)
(* does not keep it busy (read_frame's limit, the timeouts).               *)
(***************************************************************************)
RequestReturns == \A h \in Sessions : Busy(h) ~> ~Busy(h)
=============================================================================
