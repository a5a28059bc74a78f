----------------------------- MODULE LinkSystem -----------------------------
(***************************************************************************)
(* The host's sessions and the firmware over TCP: DapLink and TcpChannel   *)
(* run concurrently, connections are refused, cut, reset and abandoned.    *)
(* The variables asked, owed, ran, clean and failed are history: the code  *)
(* does not have them and no guard reads them (MaxReq bounds the run).     *)
(***************************************************************************)
EXTENDS DapLink, TcpChannel, FiniteSets

CONSTANT MaxReq   \* bound: requests of all sessions

ASSUME SystemAssumption == MaxReq \in Nat

VARIABLES
  asked,   \* payloads of the session's requests, in order
  owed,    \* number of the request last written on the firmware's connection
  ran,     \* the session's last command run: request, times, command, response
  clean,   \* the decoder was at rest when that connection was accepted
  failed   \* requests that returned an error

history == <<asked, owed, ran, clean, failed>>

vars == <<tcpVars, linkVars, channelVars, history>>

NoRun == [no |-> 0, times |-> 0, cmd |-> <<>>, resp |-> <<>>]

AtRest(d) == d.state = "Magic" /\ ~IsGarbage(d)

Init ==
  /\ TcpInit
  /\ LinkInit
  /\ ChannelInit
  /\ asked = [h \in Sessions |-> <<>>]
  /\ owed = 0
  /\ ran = [h \in Sessions |-> NoRun]
  /\ clean = TRUE
  /\ failed = 0

Busy(h) == lpc[h] # "idle"

\* The bridge of session h asks for a request.
Ask(h, p) ==
  \/ /\ RequestTooLarge(h, p)
     /\ UNCHANGED asked
  \/ /\ LINK_REQUESTS < MaxReq
     /\ Request(h, p)
     /\ asked' = [asked EXCEPT ![h] = Append(@, p)]

\* The steps of request() that put bytes on the wire.
Send(h) ==
  /\ Write(h) \/ \E n \in 0 .. MAX_FRAME + 2 : WriteFails(h, n)
  /\ owed' = IF Live(h) THEN Len(asked[h]) ELSE owed

\* All other steps of request().
Receive(h) ==
  \/ Connect(h)
  \/ \E late \in BOOLEAN : ConnectFails(h, late) \/ ReconnectFails(h, late)
  \/ ReadFails(h)
  \/ ReadMagic(h)
  \/ SkipByte(h)
  \/ ReadLen(h)
  \/ ReadPayload(h)

\* A step of session h; failed counts the requests it ends with an error.
HostStep(h) ==
  /\ \/ Send(h) /\ UNCHANGED asked
     \/ Receive(h) /\ UNCHANGED <<asked, owed>>
  /\ failed' = IF Busy(h) /\ lpc'[h] = "idle" /\ ~answer'[h].ok
                 THEN failed + 1 ELSE failed
  /\ UNCHANGED <<channelVars, ran, clean>>

\* The firmware runs a command for the session it is connected to.
RunCommand ==
  /\ Exec
  /\ ran' = [ran EXCEPT ![peer] =
               [no |-> owed, cmd |-> frame, resp |-> resp',
                times |-> IF @.no = owed THEN @.times + 1 ELSE 1]]
  /\ UNCHANGED clean

\* What the firmware's task does when it is polled ...
Serve ==
  /\ \/ Accepted /\ clean' = AtRest(deframer) /\ UNCHANGED ran
     \/ RunCommand
     \/ /\ \/ \E n \in 1 .. CHUNK : Read(n)
           \/ FeedByte
           \/ RecvEof
           \/ SendHead
           \/ SendBody
           \/ Finish
        /\ UNCHANGED <<ran, clean>>
  /\ UNCHANGED <<linkVars, asked, owed, failed>>

\* ... and the failures its calls into the TCP stack may report.
ServeFails ==
  /\ RecvFails \/ AcceptFails \/ \E n \in 0 .. N + 3 : SendFails(n)
  /\ UNCHANGED <<linkVars, history>>

\* A host vanishes.
Vanish == HostVanishes /\ UNCHANGED <<linkVars, history>>

ListenStep == StartAccept /\ UNCHANGED <<linkVars, history>>

Next ==
  \/ \E h \in Sessions, p \in Requests :
       Ask(h, p) /\ UNCHANGED <<channelVars, owed, ran, clean, failed>>
  \/ \E h \in Sessions : HostStep(h)
  \/ \E h \in Sessions : Detach(h) /\ UNCHANGED <<channelVars, history>>
  \/ Serve
  \/ ServeFails
  \/ Vanish
  \/ ListenStep

(***************************************************************************)
(* Every await of request() has a timeout, so a busy session always takes  *)
(* a step; the firmware's executor polls its task; and accept() does not   *)
(* fail for ever.                                                          *)
(***************************************************************************)
Fairness ==
  /\ \A h \in Sessions : WF_vars(HostStep(h))
  /\ WF_vars(Serve)
  /\ SF_vars(ListenStep)

Spec == Init /\ [][Next]_vars

FairSpec == Spec /\ Fairness
-----------------------------------------------------------------------------
\* Type invariant.
TypeOK ==
  /\ TcpTypeOK
  /\ LinkTypeOK
  /\ ChannelTypeOK
  /\ asked \in [Sessions -> Seq(Requests)]
  /\ owed \in Nat
  /\ ran \in [Sessions -> [no : Nat, times : Nat, cmd : Seq(Byte), resp : Seq(Byte)]]
  /\ clean \in BOOLEAN
  /\ failed \in Nat

(***************************************************************************)
(* Whatever the network does, a command run on a connection that was       *)
(* accepted with the decoder at rest is, cut to the buffer, the payload of *)
(* the request its session last wrote there: frames of an earlier          *)
(* connection, of another session or of a request given up never mix with  *)
(* it (recv_frame, try_request).                                           *)
(***************************************************************************)
CleanRuns ==
  tpc = "exec" /\ clean =>
    /\ owed \in 1 .. Len(asked[peer])
    /\ frame = Kept(asked[peer][owed])

(***************************************************************************)
(* The host's half of the stream never loses its place: read_frame always  *)
(* starts at a magic byte and never meets an illegal length, because a     *)
(* stream on which anything failed is dropped and never read again; and a  *)
(* session about to send has no byte of an older response in front of the  *)
(* one it will wait for, if the decoder was at rest when its connection    *)
(* was accepted.  A late answer dies with its connection; Garbage and      *)
(* FrameTooLarge errors need a broken peer.                                *)
(***************************************************************************)
HostInStep ==
  \A h \in Sessions :
    /\ lpc[h] = "magic" /\ inbox[h] # <<>> => Head(inbox[h]) = FRAME_MAGIC
    /\ lpc[h] = "len" /\ CanRead(h) => AnnouncedLen(inbox[h][1], inbox[h][2]) <= MAX_FRAME
    /\ clean /\ Live(h) /\ lpc[h] \in {"idle", "write"} => inbox[h] = <<>>

(***************************************************************************)
(* What is counted tells a consistent story across sessions: no request    *)
(* fails without having been retried, none is retried twice, and only      *)
(* failed requests are counted as errors (metrics.rs, request()).  This is *)
(* about how often each counter was bumped, not about what the page may    *)
(* read while that goes on: its loads are Relaxed.                         *)
(***************************************************************************)
CountersAddUp ==
  /\ LINK_ERRORS <= failed
  /\ failed + Cardinality({h \in Sessions : Busy(h) /\ attempt[h] = 2}) <= LINK_RETRIES
  /\ LINK_RETRIES <= LINK_REQUESTS

(***************************************************************************)
(* While no connection is cut inside a frame, the link implements DapRpc:  *)
(* at most two runs per request, in request order, none after the response *)
(* was returned, and a response is that of the request's last run.         *)
(***************************************************************************)
Rpc == INSTANCE DapRpc WITH
         Clients <- Sessions,
         Commands <- {p \in Requests : Len(p) <= MAX_FRAME},
         MaxCalls <- MaxReq,
         Run <- Kept,
         NoCall <- NoRun,
         busy <- [h \in Sessions |-> Busy(h)]

ImplementsRpc == Rpc!Spec

(***************************************************************************)
(* A connection the host has given up does not occupy the firmware's only  *)
(* socket for ever: it is aborted and the firmware listens again, unless   *)
(* the host vanished without a word, which the socket, having no timeout,  *)
(* may wait out for ever (TcpChannel::new, recv_frame, serve, run).        *)
(***************************************************************************)
SocketReleased == (peer # Nobody /\ ~Live(peer)) ~> (listening \/ silent)

(***************************************************************************)
(* metrics.rs:45 says note_link_error records each request that finally    *)
(* failed, the retry included.                                             *)
(***************************************************************************)
ErrorsCounted == LINK_ERRORS = failed

(***************************************************************************)
(* link.rs:131 announces that the request is retried after a reconnect:    *)
(* what the firmware runs for it is that request and nothing else.         *)
(***************************************************************************)
RetryRunsTheRequest ==
  tpc = "exec" => owed \in 1 .. Len(asked[peer]) /\ frame = Kept(asked[peer][owed])
=============================================================================
