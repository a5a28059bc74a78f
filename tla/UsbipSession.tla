---------------------------- MODULE UsbipSession ----------------------------
(***************************************************************************)
(* One USB/IP session of the host: usbip.rs handle_connection and          *)
(* urb_loop, and bridge.rs.  The client (the kernel's vhci driver and USB  *)
(* core, external) enumerates the device and then submits URBs without     *)
(* waiting for earlier ones; the session reads and answers them one at a   *)
(* time, and a bulk OUT holds it up until the link has answered.  The link *)
(* is abstracted to its outcome, a response or an error (LinkSystem shows  *)
(* that there always is one).                                              *)
(*                                                                         *)
(* A byte of a response is the pair of the number of the OUT that obtained *)
(* it and its position.                                                    *)
(***************************************************************************)
EXTENDS Ep0, FiniteSets

CONSTANTS
  MaxUrbs,      \* bound: URBs the client submits once it has enumerated
  Setups,       \* setup packets programs send to the control endpoint
  OutLens,      \* lengths of the commands of bulk OUT URBs
  InLens,       \* transfer lengths of bulk IN URBs
  ResponseLens  \* lengths of the link's responses

ASSUME UsbipAssumption ==
  /\ MaxUrbs \in Nat
  /\ \A setup \in Setups : setup.length \in Nat
  /\ OutLens \subseteq Nat
  /\ InLens \subseteq Nat
  /\ ResponseLens \subseteq Nat

VARIABLES
  upc,        \* where the session is suspended
  hangup,     \* the client has closed its end
  wire,       \* messages the client sent and the session has not read
  submitted,  \* URBs the client has sent
  urb,        \* the message being handled
  pending,    \* DapBridge.pending, <<>> for None
  out,        \* the reply being sent
  read,       \* history: URBs the session has read
  replies,    \* URB replies the client was sent
  obtained,   \* history: the responses the link gave, one per OUT (<<>>: error)
  USB_SESSIONS, EP0_REQUESTS, EP1_OUT_FRAMES, EP1_OUT_BYTES,
  EP1_IN_FRAMES, EP1_IN_BYTES   \* metrics.rs counters

counters == <<USB_SESSIONS, EP0_REQUESTS, EP1_OUT_FRAMES, EP1_OUT_BYTES,
              EP1_IN_FRAMES, EP1_IN_BYTES>>

vars == <<upc, hangup, wire, submitted, urb, pending, out, read, replies,
          obtained, counters>>

EIO == 5

OpKinds == {"devlist", "import", "badBusid", "badVersion", "badOp"}
UrbKinds == {"ep0", "out", "in", "badDirection", "unlink", "badCommand"}

NoSetup == Setup(0, 0, 0, 0, 0)

\* The meaning of len depends on kind: the length of an OUT's command, the
\* transfer length of an IN, the sequence number an UNLINK names.
Op(kind) == [kind |-> kind, seq |-> 0, len |-> 0, setup |-> NoSetup]
Urb(kind, seq, len) == [kind |-> kind, seq |-> seq, len |-> len, setup |-> NoSetup]
Control(seq, setup) == [kind |-> "ep0", seq |-> seq, len |-> setup.length, setup |-> setup]

Reply(ret, seq, status, data) ==
  [ret |-> ret, seq |-> seq, status |-> status, data |-> data]

Lesser(m, n) == IF m <= n THEN m ELSE n

Response(k, n) == [i \in 1 .. n |-> <<k, i>>]

Init ==
  /\ upc = "op"
  /\ hangup = FALSE
  /\ wire = <<>>
  /\ submitted = 0
  /\ urb = Op("devlist")
  /\ pending = <<>>
  /\ out = Reply("none", 0, 0, <<>>)
  /\ read = <<>>
  /\ replies = <<>>
  /\ obtained = <<>>
  /\ USB_SESSIONS = 0 /\ EP0_REQUESTS = 0
  /\ EP1_OUT_FRAMES = 0 /\ EP1_OUT_BYTES = 0
  /\ EP1_IN_FRAMES = 0 /\ EP1_IN_BYTES = 0

-----------------------------------------------------------------------------
\* The client, external.  It asks for the device list or the import one
\* request at a time ...
ClientOp(kind) ==
  /\ upc = "op" /\ wire = <<>> /\ ~hangup
  /\ wire' = <<Op(kind)>>
  /\ UNCHANGED <<upc, hangup, submitted, urb, pending, out, read, replies, obtained, counters>>

\* ... and once the device is imported the USB core enumerates it: its request
\* number i, given the replies to the ones before.
EnumUrbs == 10

Enumeration(i) ==
  CASE i = 1 -> GetDescriptor(1, 0, 8)
    [] i = 2 -> GetDescriptor(1, 0, 18)
    [] i = 3 -> GetDescriptor(2, 0, 9)
    [] i = 4 -> GetDescriptor(2, 0, Total(replies[3].data))
    [] i = 5 -> GetDescriptor(3, 0, 255)
    [] i = 6 -> GetDescriptor(3, replies[2].data[16], 255)
    [] i = 7 -> GetDescriptor(3, replies[2].data[15], 255)
    [] i = 8 -> GetDescriptor(3, replies[2].data[17], 255)
    [] i = 9 -> Setup(0, 9, 0, replies[4].data[6], 0)
    [] i = 10 -> GetDescriptor(3, replies[4].data[18], 255)

\* Whether the core goes on after reply i.
Accepted(i) ==
  LET d == replies[i].data
  IN  /\ replies[i].status = 0
      /\ CASE i = 1 -> Len(d) = 8 /\ d[1] = 18
           [] i = 2 -> Len(d) = 18 /\ d[18] = 1
           [] i = 3 -> Len(d) = 9 /\ Total(d) > 9
           [] i = 4 -> GoodConfig(d)
           [] i = 5 -> Len(d) = 4
           [] i = 9 -> TRUE
           [] OTHER -> Len(d) = d[1] /\ d[2] = 3

Submit(message) ==
  /\ upc \notin {"op", "closed"} /\ ~hangup
  /\ submitted' = submitted + 1
  /\ wire' = Append(wire, message)
  /\ UNCHANGED <<upc, hangup, urb, pending, out, read, replies, obtained, counters>>

\* The core waits for each answer and gives up at one it cannot use.
ClientEnumerates ==
  /\ submitted < EnumUrbs /\ submitted = Len(replies)
  /\ submitted > 0 => Accepted(submitted)
  /\ Submit(Control(submitted + 1, Enumeration(submitted + 1)))

\* Afterwards programs submit URBs in any number.  An UNLINK names one of
\* those submitted before it.
Ready ==
  /\ submitted \in EnumUrbs .. EnumUrbs + MaxUrbs - 1
  /\ Len(replies) >= EnumUrbs /\ Accepted(EnumUrbs)

ClientUrb(kind, len) ==
  /\ Ready
  /\ kind = "unlink" => len \in EnumUrbs + 1 .. submitted
  /\ Submit(Urb(kind, submitted + 1, len))

ClientControl(setup) == Ready /\ Submit(Control(submitted + 1, setup))

ClientCloses ==
  /\ ~hangup
  /\ hangup' = TRUE
  /\ UNCHANGED <<upc, wire, submitted, urb, pending, out, read, replies, obtained, counters>>

-----------------------------------------------------------------------------
\* handle_connection(): one operation.  Only a good IMPORT leads to the URB
\* loop, whose bridge starts with nothing pending.
HandleOp ==
  /\ upc = "op" /\ wire # <<>>
  /\ wire' = Tail(wire)
  /\ upc' = CASE Head(wire).kind = "devlist" -> "op"
              [] Head(wire).kind = "import" -> "urb"
              [] OTHER -> "closed"
  /\ USB_SESSIONS' = IF Head(wire).kind = "import" THEN USB_SESSIONS + 1 ELSE USB_SESSIONS
  /\ UNCHANGED <<hangup, submitted, urb, pending, out, read, replies, obtained,
                 EP0_REQUESTS, EP1_OUT_FRAMES, EP1_OUT_BYTES, EP1_IN_FRAMES, EP1_IN_BYTES>>

\* read_exact() meets the end of the stream, between two messages or, when
\* the client was cut off, inside one; or a reply cannot be written.
SessionEnds ==
  /\ \/ upc \in {"op", "urb"} /\ hangup
     \/ upc = "reply" /\ hangup
  /\ upc' = "closed"
  /\ UNCHANGED <<hangup, wire, submitted, urb, pending, out, read, replies, obtained, counters>>

\* Mutant of ReadUrb: the response of an earlier command survives.
ReadUrbKeepsPending ==
  /\ upc = "urb" /\ wire # <<>>
  /\ urb' = Head(wire)
  /\ wire' = Tail(wire)
  /\ read' = Append(read, Head(wire))
  /\ upc' = CASE Head(wire).kind = "out" -> "forward"
              [] Head(wire).kind = "badCommand" -> "closed"
              [] OTHER -> "handle"
  /\ UNCHANGED <<hangup, submitted, pending, out, replies, obtained, counters>>

\* urb_loop() reads a header, and with an OUT its data.  The kinds it knows
\* are handled; any other command closes the session.  bulk_out() discards
\* what is pending before it sends the command.
ReadUrb ==
  /\ upc = "urb" /\ wire # <<>>
  /\ urb' = Head(wire)
  /\ wire' = Tail(wire)
  /\ read' = Append(read, Head(wire))
  /\ upc' = CASE Head(wire).kind = "out" -> "forward"
              [] Head(wire).kind = "badCommand" -> "closed"
              [] OTHER -> "handle"
  /\ pending' = IF Head(wire).kind = "out" THEN <<>> ELSE pending
  /\ UNCHANGED <<hangup, submitted, out, replies, obtained, counters>>

Answer(reply) == out' = reply /\ upc' = "reply"

\* The link answers the command of a bulk OUT.
LinkOk(n) ==
  /\ upc = "forward"
  /\ obtained' = Append(obtained, Response(Len(obtained) + 1, n))
  /\ pending' = Response(Len(obtained) + 1, n)
  /\ EP1_OUT_FRAMES' = EP1_OUT_FRAMES + 1
  /\ EP1_OUT_BYTES' = EP1_OUT_BYTES + urb.len
  /\ Answer(Reply("submit", urb.seq, 0, <<>>))
  /\ UNCHANGED <<hangup, wire, submitted, urb, read, replies, USB_SESSIONS,
                 EP0_REQUESTS, EP1_IN_FRAMES, EP1_IN_BYTES>>

\* Mutant of LinkErr: no reply when the link fails, as an early return.
LinkErrSilent ==
  /\ upc = "forward"
  /\ obtained' = Append(obtained, <<>>)
  /\ upc' = "urb"
  /\ UNCHANGED <<hangup, wire, submitted, urb, pending, out, read, replies, counters>>

\* Mutant of LinkErr: the failed transfer is counted.
LinkErrCounts ==
  /\ upc = "forward"
  /\ obtained' = Append(obtained, <<>>)
  /\ EP1_OUT_FRAMES' = EP1_OUT_FRAMES + 1
  /\ EP1_OUT_BYTES' = EP1_OUT_BYTES + urb.len
  /\ Answer(Reply("submit", urb.seq, EIO, <<>>))
  /\ UNCHANGED <<hangup, wire, submitted, urb, pending, read, replies, USB_SESSIONS,
                 EP0_REQUESTS, EP1_IN_FRAMES, EP1_IN_BYTES>>

\* The link gives up: the URB fails, the session goes on.
LinkErr ==
  /\ upc = "forward"
  /\ obtained' = Append(obtained, <<>>)
  /\ Answer(Reply("submit", urb.seq, EIO, <<>>))
  /\ UNCHANGED <<hangup, wire, submitted, urb, pending, read, replies, counters>>

\* bulk_in(): at most the transfer length, the rest stays pending.
BulkIn ==
  /\ upc = "handle" /\ urb.kind = "in"
  /\ LET n == Lesser(Len(pending), urb.len)
     IN  /\ pending' = SubSeq(pending, n + 1, Len(pending))
         /\ EP1_IN_BYTES' = EP1_IN_BYTES + n
         /\ Answer(Reply("submit", urb.seq, 0, SubSeq(pending, 1, n)))
  /\ EP1_IN_FRAMES' = EP1_IN_FRAMES + 1
  /\ UNCHANGED <<hangup, wire, submitted, urb, read, replies, obtained,
                 USB_SESSIONS, EP0_REQUESTS, EP1_OUT_FRAMES, EP1_OUT_BYTES>>

\* The control endpoint never touches the bridge.
ControlUrb ==
  /\ upc = "handle" /\ urb.kind = "ep0"
  /\ LET a == Ep0Control(urb.setup) IN Answer(Reply("submit", urb.seq, a.status, a.data))
  /\ EP0_REQUESTS' = EP0_REQUESTS + 1
  /\ UNCHANGED <<hangup, wire, submitted, urb, pending, read, replies, obtained,
                 USB_SESSIONS, EP1_OUT_FRAMES, EP1_OUT_BYTES, EP1_IN_FRAMES, EP1_IN_BYTES>>

\* A direction that is neither OUT nor IN.
BadDirection ==
  /\ upc = "handle" /\ urb.kind = "badDirection"
  /\ Answer(Reply("submit", urb.seq, EPIPE, <<>>))
  /\ UNCHANGED <<hangup, wire, submitted, urb, pending, read, replies, obtained, counters>>

\* CMD_UNLINK is acknowledged with status 0 whatever URB it names.
Unlink ==
  /\ upc = "handle" /\ urb.kind = "unlink"
  /\ Answer(Reply("unlink", urb.seq, 0, <<>>))
  /\ UNCHANGED <<hangup, wire, submitted, urb, pending, read, replies, obtained, counters>>

\* send_ret_submit(), send_ret_unlink().
SendReply ==
  /\ upc = "reply"
  /\ replies' = Append(replies, out)
  /\ upc' = "urb"
  /\ UNCHANGED <<hangup, wire, submitted, urb, pending, out, read, obtained, counters>>

Client ==
  \/ \E kind \in OpKinds : ClientOp(kind)
  \/ ClientEnumerates
  \/ \E setup \in Setups : ClientControl(setup)
  \/ \E kind \in {"badDirection", "badCommand"} : ClientUrb(kind, 0)
  \/ \E len \in OutLens : ClientUrb("out", len)
  \/ \E len \in InLens : ClientUrb("in", len)
  \/ \E seq \in EnumUrbs + 1 .. EnumUrbs + MaxUrbs : ClientUrb("unlink", seq)
  \/ ClientCloses

Session ==
  \/ HandleOp
  \/ SessionEnds
  \/ ReadUrb
  \/ \E n \in ResponseLens : LinkOk(n)
  \/ LinkErr
  \/ BulkIn
  \/ ControlUrb
  \/ BadDirection
  \/ Unlink
  \/ SendReply

\* Nothing is left to do once the session is closed and the client gone.
Done == upc = "closed" /\ hangup /\ UNCHANGED vars

Next == Client \/ Session \/ Done

\* The session's task is polled, and the link always answers in the end.
Spec == Init /\ [][Next]_vars /\ WF_vars(Session)
-----------------------------------------------------------------------------
(***************************************************************************)
(* Every URB the session has read is answered exactly once, with its own   *)
(* sequence number and the right kind of reply, in the order of            *)
(* submission, whatever happened to the ones before it; so an UNLINK is    *)
(* acknowledged after the URB it names (urb_loop).                         *)
(***************************************************************************)
RepliesInOrder ==
  /\ \A i \in DOMAIN replies :
       /\ replies[i].seq = i
       /\ replies[i].ret = IF read[i].kind = "unlink" THEN "unlink" ELSE "submit"
  /\ Len(read) = Len(replies) + (IF upc \in {"op", "urb"} THEN 0 ELSE 1)
       \/ upc = "closed"

\* The bulk OUTs before URB i and the response the last of them obtained; the
\* INs between that OUT and i, and how many bytes they were given.  Bytes are
\* counted as pairs of a URB and a position.
OutsBefore(i) == {j \in 1 .. i - 1 : read[j].kind = "out"}
Obtained(i) == IF OutsBefore(i) = {} THEN <<>> ELSE obtained[Cardinality(OutsBefore(i))]
InsSince(i) == {j \in 1 .. i - 1 : read[j].kind = "in" /\ OutsBefore(j) = OutsBefore(i)}
Returned(js) == UNION {{j} \X (1 .. Len(replies[j].data)) : j \in js}
Given(i) == Cardinality(Returned(InsSince(i)))

\* The data URB i is owed: an IN takes up where the one before it stopped.
DataFor(i) ==
  CASE read[i].kind = "in" ->
         SubSeq(Obtained(i), Given(i) + 1, Lesser(Given(i) + read[i].len, Len(Obtained(i))))
    [] read[i].kind = "ep0" -> Ep0Control(read[i].setup).data
    [] OTHER -> <<>>

(***************************************************************************)
(* The INs that follow an OUT return its response and no other, from its   *)
(* first byte on, in order and without a gap, each as much as fits; after  *)
(* an OUT that failed they return nothing, however much of an earlier      *)
(* response was never fetched (bulk_out, bulk_in).                         *)
(***************************************************************************)
InReturnsLatestResponse == \A i \in DOMAIN replies : replies[i].data = DataFor(i)

OutsDone == {i \in DOMAIN replies : read[i].kind = "out" /\ replies[i].status = 0}
InsDone == {i \in DOMAIN replies : read[i].kind = "in"}
Forwarded(js) == UNION {{j} \X (1 .. read[j].len) : j \in js}

(***************************************************************************)
(* Between two URBs the endpoint counters are what the replies say: only   *)
(* OUTs that succeeded and bytes that were returned are counted.           *)
(***************************************************************************)
CountersMatchReplies ==
  upc = "urb" =>
    /\ EP1_OUT_FRAMES = Cardinality(OutsDone)
    /\ EP1_OUT_BYTES = Cardinality(Forwarded(OutsDone))
    /\ EP1_IN_FRAMES = Cardinality(InsDone)
    /\ EP1_IN_BYTES = Cardinality(Returned(InsDone))

Fits(message, reply) ==
  /\ Len(reply.data) <= message.len
  /\ reply.data # <<>> =>
       /\ reply.status = 0
       /\ \/ message.kind = "in"
          \/ message.kind = "ep0" /\ message.setup.type >= 128

(***************************************************************************)
(* A reply carries data only for a request that asks for some, and never   *)
(* more than fits the client's buffer, or the rest would be read as the    *)
(* next reply's header (ep0_control, bulk_in, send_ret_submit).            *)
(***************************************************************************)
AnswerFits == \A i \in DOMAIN replies : Fits(read[i], replies[i])

(***************************************************************************)
(* The core finds what it looks for: the descriptors' counted lengths and  *)
(* numbers agree with each other, every string they name is there, and the *)
(* enumeration is never given up (CONFIG_DESCRIPTOR, string_descriptor).   *)
(***************************************************************************)
EnumerationSucceeds == \A i \in 1 .. EnumUrbs : i <= Len(replies) => Accepted(i)

(***************************************************************************)
(* The URBs the client submitted are answered unless the session closes: a *)
(* command the link fails on does not stall the ones queued behind it.     *)
(***************************************************************************)
UrbsAnswered == <>[](Len(replies) = submitted \/ upc = "closed")
=============================================================================
