----------------------------- MODULE TcpChannel -----------------------------
(***************************************************************************)
(* The firmware's command channel: channel/mod.rs run() accepts one        *)
(* connection at a time, cmd/dap.rs serve() answers its commands one by    *)
(* one, channel/tcp.rs reads chunks into the decoder and writes the        *)
(* response frames.  The decoder belongs to the channel, not to the        *)
(* connection: nothing resets it when a connection ends.                   *)
(***************************************************************************)
EXTENDS Tcp

CONSTANTS
  CHUNK,         \* size of recv_frame's read buffer (128)
  BUF,           \* size of serve's command buffer (1024)
  HostLoss,      \* a host may vanish without a FIN or RST reaching the firmware
  Responses(_)   \* what Dap::handle may answer to a command

ASSUME ChannelAssumption ==
  CHUNK \in Nat \ {0} /\ BUF \in Nat /\ HostLoss \in BOOLEAN

VARIABLES
  tpc,        \* where the firmware's task is suspended
  deframer,   \* TcpChannel.deframer
  chunk,      \* bytes read from the socket and not yet fed
  frame,      \* the command received, until handle() has run it
  resp,       \* the response, until send_frame() is done with it
  silent      \* the host is gone and the firmware's socket will not hear of it

channelVars == <<tpc, deframer, chunk, frame, resp, silent>>

TPCs == {"accept", "recv", "feed", "exec", "sendHead", "sendBody", "finish"}

ChannelTypeOK ==
  /\ tpc \in TPCs
  /\ deframer \in Deframers
  /\ chunk \in Seq(Byte)
  /\ frame \in Seq(Byte)
  /\ resp \in Seq(Byte)
  /\ silent \in BOOLEAN

ChannelInit ==
  /\ tpc = "accept"
  /\ deframer = NewDeframer
  /\ chunk = <<>>
  /\ frame = <<>>
  /\ resp = <<>>
  /\ silent = FALSE

\* External: nothing the host's end sent to say goodbye arrives, or it lost
\* power before it could.
HostVanishes ==
  /\ HostLoss
  /\ peer # Nobody /\ ~Live(peer) /\ ~silent
  /\ silent' = TRUE
  /\ UNCHANGED <<tpc, deframer, chunk, frame, resp, tcpVars>>

\* accept() puts the socket in the Listen state ...
StartAccept ==
  /\ tpc = "accept"
  /\ Listen
  /\ UNCHANGED channelVars

\* ... or fails: run() prints the error and calls finish().
AcceptFails ==
  /\ tpc = "accept"
  /\ ~listening
  /\ peer = Nobody
  /\ tpc' = "finish"
  /\ UNCHANGED <<silent, deframer, chunk, frame, resp, tcpVars>>

\* accept() returns and serve() starts.  The decoder is as the previous
\* connection left it.
Accepted ==
  /\ tpc = "accept"
  /\ peer # Nobody
  /\ tpc' = "recv"
  /\ UNCHANGED <<silent, deframer, chunk, frame, resp, tcpVars>>

\* socket.read() returns the first n bytes that have arrived.
Read(n) ==
  /\ tpc = "recv"
  /\ n \in 1 .. CHUNK
  /\ n <= Len(up)
  /\ chunk' = SubSeq(up, 1, n)
  /\ up' = SubSeq(up, n + 1, Len(up))
  /\ tpc' = "feed"
  /\ UNCHANGED <<silent, deframer, frame, resp, listening, peer, stream, inbox>>

\* One byte of the chunk goes through the decoder.  A completed frame ends
\* recv_frame at once and the rest of the chunk is lost; the garbage test
\* comes only after a chunk that completed nothing.
FeedByte ==
  /\ tpc = "feed"
  /\ deframer' = Feed(deframer, Head(chunk))
  /\ LET f == FrameOf(deframer, Head(chunk))
     IN  IF f # <<>>
           THEN /\ frame' = f
                /\ chunk' = <<>>
                /\ tpc' = IF Len(f) > BUF THEN "finish" ELSE "exec"
           ELSE /\ frame' = frame
                /\ chunk' = Tail(chunk)
                /\ tpc' = IF Tail(chunk) # <<>> THEN "feed"
                          ELSE IF IsGarbage(deframer') THEN "finish" ELSE "recv"
  /\ UNCHANGED <<silent, resp, tcpVars>>

\* Mutant of RecvEof: the end of the stream is taken for an empty read.
RecvEofIgnored == tpc = "recv" /\ up = <<>> /\ UNCHANGED <<channelVars, tcpVars>>

\* read() returns 0: the host has closed and everything it sent is read.  The
\* socket has no timeout, so of a host that vanished it never hears.
RecvEof ==
  /\ tpc = "recv"
  /\ up = <<>>
  /\ ~Live(peer) /\ ~silent
  /\ tpc' = "finish"
  /\ UNCHANGED <<silent, deframer, chunk, frame, resp, tcpVars>>

\* read() fails: the connection was reset.
RecvFails ==
  /\ tpc = "recv"
  /\ MidFrameLoss \/ deframer.state = "Magic"
  /\ tpc' = "finish"
  /\ UNCHANGED <<silent, deframer, chunk, frame, resp, tcpVars>>

\* Dap::handle runs the command to its end; it never yields.
Exec ==
  /\ tpc = "exec"
  /\ resp' \in Responses(frame)
  /\ frame' = <<>>
  /\ tpc' = "sendHead"
  /\ UNCHANGED <<silent, deframer, chunk, tcpVars>>

\* send_frame() writes the header, then the response.
SendHead ==
  /\ tpc = "sendHead"
  /\ PutDown(FrameHead(Len(resp)))
  /\ tpc' = "sendBody"
  /\ UNCHANGED <<silent, deframer, chunk, frame, resp, listening, peer, up, stream>>

\* The flush waits until the host's end has acknowledged all of it.
SendBody ==
  /\ tpc = "sendBody"
  /\ ~silent
  /\ PutDown(resp)
  /\ resp' = <<>>
  /\ tpc' = "recv"
  /\ UNCHANGED <<silent, deframer, chunk, frame, listening, peer, up, stream>>

\* A write or the flush fails after n bytes of it went out; serve() returns.
SendFails(n) ==
  /\ \/ tpc = "sendHead" /\ n <= 3 /\ PutDown(SubSeq(FrameHead(Len(resp)), 1, n))
     \/ tpc = "sendBody" /\ n <= Len(resp) /\ PutDown(SubSeq(resp, 1, n))
  /\ resp' = <<>>
  /\ tpc' = "finish"
  /\ UNCHANGED <<silent, deframer, chunk, frame, listening, peer, up, stream>>

\* finish(): abort(), and run() accepts again.
Finish ==
  /\ tpc = "finish"
  /\ Abort
  /\ tpc' = "accept"
  /\ silent' = FALSE
  /\ UNCHANGED <<deframer, chunk, frame, resp>>
=============================================================================
