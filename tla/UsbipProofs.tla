----------------------------- MODULE UsbipProofs -----------------------------
(***************************************************************************)
(* The replies of a USB/IP session, for any number of URBs, any lengths    *)
(* and any setup packets: their order, their data and the counters.        *)
(***************************************************************************)
EXTENDS UsbipSession, FiniteSetTheorems, TLAPS

\* The session is past the import and not at its end; it has a URB in hand.
Busy == {"handle", "forward", "reply"}
Open == {"urb"} \cup Busy

RetOf(m) == IF m.kind = "unlink" THEN "unlink" ELSE "submit"

\* What the messages look like does not matter: they are sequences of something.
Sequential == \E S : wire \in Seq(S) /\ read \in Seq(S) /\ replies \in Seq(S)

\* URBs are numbered as they are submitted, read and answered.
Numbered ==
  /\ upc \in Open =>
       /\ submitted = Len(read) + Len(wire)
       /\ \A i \in 1 .. Len(wire) : wire[i].seq = Len(read) + i
  /\ \A i \in 1 .. Len(read) : read[i].seq = i
  /\ \A i \in 1 .. Len(replies) :
       i <= Len(read) /\ replies[i].seq = i /\ replies[i].ret = RetOf(read[i])

UsbipInv ==
  /\ Sequential
  /\ Numbered
  /\ upc \in {"op", "closed"} \cup Open
  /\ upc = "op" => read = <<>> /\ replies = <<>> /\ submitted = 0 /\ Len(wire) <= 1
  /\ upc = "urb" => Len(read) = Len(replies)
  /\ upc \in Busy => Len(read) = Len(replies) + 1 /\ urb = read[Len(read)]
  /\ upc = "forward" => urb.kind = "out"
  /\ upc = "reply" => out.seq = urb.seq /\ out.ret = RetOf(urb)

-----------------------------------------------------------------------------
\* One element more.
LEMMA Appended ==
  ASSUME NEW S, NEW s \in Seq(S), NEW e
  PROVE  /\ Append(s, e) \in Seq(S \cup {e})
         /\ Len(s) \in Nat /\ Len(Append(s, e)) = Len(s) + 1
         /\ Append(s, e)[Len(s) + 1] = e
         /\ \A i \in 1 .. Len(s) : Append(s, e)[i] = s[i]
  <1>1. s \in Seq(S \cup {e})
    OBVIOUS
  <1> QED
    BY <1>1

\* A sequence over a larger set.
LEMMA Widened ==
  ASSUME NEW S, NEW T, NEW s \in Seq(S)
  PROVE  s \in Seq(S \cup T)
  OBVIOUS

\* One operation at a time.
LEMMA OneAtMost == \A n \in Nat : n <= 1 /\ n # 0 => n = 1
  OBVIOUS

\* The client's half of a step: it only adds to wire.
LEMMA SubmitStep ==
  ASSUME UsbipInv, NEW m, m.seq = submitted + 1, Submit(m)
  PROVE  UsbipInv'
  <1>1. PICK S : wire \in Seq(S) /\ read \in Seq(S) /\ replies \in Seq(S)
    BY DEF UsbipInv, Sequential
  <1>2. upc \in Open
    BY DEF UsbipInv, Submit
  <1>3. Sequential'
    <2>1. wire' \in Seq(S \cup {m}) /\ read' \in Seq(S \cup {m}) /\ replies' \in Seq(S \cup {m})
      BY <1>1, Appended, Widened DEF Submit
    <2> QED
      BY <2>1 DEF Sequential
  <1>4. /\ Len(wire') = Len(wire) + 1 /\ Len(wire) \in Nat /\ Len(read) \in Nat
        /\ wire'[Len(wire) + 1] = m
        /\ \A i \in 1 .. Len(wire) : wire'[i] = wire[i]
    BY <1>1, Appended DEF Submit
  <1>5. Numbered'
    <2>1. submitted = Len(read) + Len(wire) /\ \A i \in 1 .. Len(wire) : wire[i].seq = Len(read) + i
      BY <1>2 DEF UsbipInv, Numbered
    <2>2. ASSUME NEW i \in 1 .. Len(wire') PROVE wire'[i].seq = Len(read) + i
      <3>1. CASE i = Len(wire) + 1
        BY <1>4, <2>1, <3>1
      <3>2. CASE i # Len(wire) + 1
        <4>1. i \in 1 .. Len(wire)
          BY <1>4, <3>2
        <4> QED
          BY <1>4, <2>1, <4>1
      <3> QED
        BY <3>1, <3>2
    <2>3. submitted' = Len(read) + Len(wire')
      BY <1>4, <2>1 DEF Submit
    <2> QED
      BY <2>2, <2>3 DEF UsbipInv, Numbered, Submit
  <1> QED
    BY <1>2, <1>3, <1>5 DEF UsbipInv, Submit, Open, Busy

\* The session takes the next message: its number is that of the URB.
LEMMA ReadStep ==
  ASSUME UsbipInv, ReadUrb
  PROVE  UsbipInv'
  <1>1. PICK S : wire \in Seq(S) /\ read \in Seq(S) /\ replies \in Seq(S)
    BY DEF UsbipInv, Sequential
  <1> DEFINE m == Head(wire)
  <1>2. /\ Len(wire) \in Nat /\ Len(wire) > 0 /\ Len(read) \in Nat /\ Len(replies) \in Nat
        /\ Len(Tail(wire)) = Len(wire) - 1 /\ Tail(wire) \in Seq(S)
        /\ \A i \in 1 .. Len(wire) - 1 : Tail(wire)[i] = wire[i + 1]
        /\ m = wire[1] /\ m \in S
    BY <1>1 DEF ReadUrb
  <1>3. /\ read' \in Seq(S) /\ Len(read') = Len(read) + 1 /\ read'[Len(read) + 1] = m
        /\ \A i \in 1 .. Len(read) : read'[i] = read[i]
    BY <1>1, <1>2 DEF ReadUrb
  <1>4. /\ submitted = Len(read) + Len(wire)
        /\ \A i \in 1 .. Len(wire) : wire[i].seq = Len(read) + i
        /\ Len(read) = Len(replies)
    BY DEF UsbipInv, Numbered, ReadUrb, Open
  <1>5. m.seq = Len(read) + 1
    BY <1>2, <1>4
  <1>6. /\ upc' \in {"forward", "closed", "handle"} /\ (upc' = "forward" => m.kind = "out")
        /\ urb' = m /\ wire' = Tail(wire)
        /\ UNCHANGED <<submitted, out, replies>>
    BY DEF ReadUrb
  <1>7. Sequential'
    BY <1>1, <1>2, <1>3, <1>6 DEF Sequential
  <1> HIDE DEF m
  <1>8. Numbered'
    <2>1. submitted' = Len(read') + Len(wire')
      <3>1. submitted' = submitted /\ Len(wire') = Len(wire) - 1
        BY <1>2, <1>6
      <3>2. Len(read') = Len(read) + 1
        BY <1>3
      <3> QED
        BY <1>2, <1>4, <3>1, <3>2
    <2>2. ASSUME NEW i \in 1 .. Len(wire') PROVE wire'[i].seq = Len(read') + i
      <3>1. i \in 1 .. Len(wire) - 1 /\ i + 1 \in 1 .. Len(wire)
        BY <1>2, <1>6
      <3> QED
        BY <1>2, <1>3, <1>4, <1>6, <3>1
    <2>3. ASSUME NEW i \in 1 .. Len(read') PROVE read'[i].seq = i
      <3>1. CASE i = Len(read) + 1
        BY <1>3, <1>5, <3>1
      <3>2. CASE i # Len(read) + 1
        <4>1. i \in 1 .. Len(read)
          BY <1>2, <1>3, <3>2
        <4> QED
          BY <1>3, <4>1 DEF UsbipInv, Numbered
      <3> QED
        BY <3>1, <3>2
    <2>4. ASSUME NEW i \in 1 .. Len(replies')
          PROVE  i <= Len(read') /\ replies'[i].seq = i /\ replies'[i].ret = RetOf(read'[i])
      <3>1. i \in 1 .. Len(replies) /\ i <= Len(read) /\ i \in 1 .. Len(read)
        BY <1>2, <1>4, <1>6
      <3>2. read'[i] = read[i]
        BY <1>3, <3>1
      <3>3. replies[i].seq = i /\ replies[i].ret = RetOf(read[i])
        BY <3>1 DEF UsbipInv, Numbered
      <3> QED
        BY <1>2, <1>3, <1>6, <3>1, <3>2, <3>3
    <2> QED
      BY <2>1, <2>2, <2>3, <2>4 DEF Numbered
  <1> QED
    BY <1>2, <1>3, <1>4, <1>6, <1>7, <1>8 DEF UsbipInv, Open, Busy

\* A reply goes out: it answers the URB in hand, the only one unanswered.
LEMMA ReplyStep ==
  ASSUME UsbipInv, SendReply
  PROVE  UsbipInv'
  <1>1. PICK S : wire \in Seq(S) /\ read \in Seq(S) /\ replies \in Seq(S)
    BY DEF UsbipInv, Sequential
  <1>2. Sequential'
    <2>1. replies' \in Seq(S \cup {out}) /\ wire' \in Seq(S \cup {out}) /\ read' \in Seq(S \cup {out})
      BY <1>1, Appended, Widened DEF SendReply
    <2> QED
      BY <2>1 DEF Sequential
  <1>3. /\ Len(replies') = Len(replies) + 1 /\ Len(replies) \in Nat /\ Len(read) \in Nat
        /\ replies'[Len(replies) + 1] = out
        /\ \A i \in 1 .. Len(replies) : replies'[i] = replies[i]
    BY <1>1, Appended DEF SendReply
  <1>4. /\ Len(read) = Len(replies) + 1 /\ urb = read[Len(read)]
        /\ out.seq = urb.seq /\ out.ret = RetOf(urb) /\ urb.seq = Len(read)
    BY <1>3 DEF UsbipInv, Numbered, SendReply, Busy
  <1>5. ASSUME NEW i \in 1 .. Len(replies')
        PROVE  i <= Len(read) /\ replies'[i].seq = i /\ replies'[i].ret = RetOf(read[i])
    <2>1. CASE i = Len(replies) + 1
      BY <1>3, <1>4, <2>1
    <2>2. CASE i # Len(replies) + 1
      <3>1. i \in 1 .. Len(replies)
        BY <1>3, <2>2
      <3>2. replies[i].seq = i /\ replies[i].ret = RetOf(read[i]) /\ i <= Len(read)
        BY <3>1 DEF UsbipInv, Numbered
      <3> QED
        BY <1>3, <3>1, <3>2
    <2> QED
      BY <2>1, <2>2
  <1>6. Numbered'
    BY <1>5 DEF UsbipInv, Numbered, SendReply, Open, Busy
  <1> QED
    BY <1>2, <1>3, <1>4, <1>6 DEF UsbipInv, SendReply, Open, Busy

\* The URB in hand gets its reply ready.
LEMMA AnswerStep ==
  ASSUME UsbipInv, NEW ret, NEW status, NEW data, Answer(Reply(ret, urb.seq, status, data)),
         upc \in {"handle", "forward"}, ret = RetOf(urb),
         UNCHANGED <<wire, submitted, urb, read, replies>>
  PROVE  UsbipInv'
  <1>1. out'.seq = urb.seq /\ out'.ret = ret /\ upc' = "reply"
    BY DEF Answer, Reply
  <1>2. Sequential'
    BY DEF UsbipInv, Sequential
  <1>3. Numbered'
    BY <1>1 DEF UsbipInv, Numbered, Open, Busy
  <1> QED
    BY <1>1, <1>2, <1>3 DEF UsbipInv, Open, Busy

\* Every action keeps the numbering.
LEMMA UsbipStep == UsbipInv /\ [Next]_vars => UsbipInv'
  <1> SUFFICES ASSUME UsbipInv, [Next]_vars PROVE UsbipInv'
    OBVIOUS
  <1>1. ASSUME NEW kind \in OpKinds, ClientOp(kind) PROVE UsbipInv'
    <2>1. PICK S : read \in Seq(S) /\ replies \in Seq(S)
      BY DEF UsbipInv, Sequential
    <2>2. wire' \in Seq(S \cup {Op(kind)}) /\ Len(wire') = 1
      BY <1>1 DEF ClientOp
    <2>3. Sequential'
      BY <1>1, <2>1, <2>2, Widened DEF ClientOp, Sequential
    <2> QED
      BY <1>1, <2>2, <2>3 DEF ClientOp, UsbipInv, Numbered, Open, Busy
  <1>2. CASE ClientEnumerates
    <2>1. PICK setup : Submit(Control(submitted + 1, setup))
      BY <1>2 DEF ClientEnumerates
    <2> QED
      BY <2>1, SubmitStep DEF Control
  <1>3. ASSUME NEW setup \in Setups, ClientControl(setup) PROVE UsbipInv'
    BY <1>3, SubmitStep DEF ClientControl, Control
  <1>4. ASSUME NEW kind, NEW len, ClientUrb(kind, len) PROVE UsbipInv'
    BY <1>4, SubmitStep DEF ClientUrb, Urb
  <1>5. CASE HandleOp
    <2>1. PICK S : wire \in Seq(S) /\ read \in Seq(S) /\ replies \in Seq(S)
      BY DEF UsbipInv, Sequential
    <2>2. Len(wire) = 1 /\ Len(read) = 0 /\ Len(replies) = 0
      <3>1. wire # <<>> /\ read = <<>> /\ replies = <<>> /\ Len(wire) <= 1
        BY <1>5 DEF HandleOp, UsbipInv
      <3>2. Len(wire) \in Nat /\ Len(wire) # 0
        BY <2>1, <3>1
      <3>3. Len(read) = 0 /\ Len(replies) = 0
        BY <3>1
      <3>4. Len(wire) = 1
        BY <3>1, <3>2, OneAtMost
      <3> QED
        BY <3>3, <3>4
    <2>3. wire' = <<>> /\ wire' \in Seq(S) /\ Len(wire') = 0
      BY <1>5, <2>1, <2>2 DEF HandleOp
    <2>4. Sequential'
      BY <1>5, <2>1, <2>3 DEF HandleOp, Sequential
    <2>5. upc' \in {"op", "urb", "closed"} /\ UNCHANGED <<submitted, read, replies, out, urb>>
          /\ submitted = 0 /\ read = <<>> /\ replies = <<>>
      BY <1>5 DEF HandleOp, UsbipInv
    <2>6. Numbered'
      BY <2>2, <2>3, <2>5 DEF Numbered
    <2> QED
      BY <2>2, <2>3, <2>4, <2>5, <2>6 DEF UsbipInv, Open, Busy
  <1>6. CASE SessionEnds \/ ClientCloses \/ Done \/ UNCHANGED vars
    BY <1>6 DEF SessionEnds, ClientCloses, Done, vars, UsbipInv, Sequential, Numbered, Open, Busy
  <1>7. CASE ReadUrb
    BY <1>7, ReadStep
  <1>8. CASE SendReply
    BY <1>8, ReplyStep
  <1>9. ASSUME NEW n \in ResponseLens, LinkOk(n) PROVE UsbipInv'
    BY <1>9, AnswerStep DEF LinkOk, UsbipInv, RetOf
  <1>10. CASE LinkErr
    BY <1>10, AnswerStep DEF LinkErr, UsbipInv, RetOf
  <1>11. CASE BulkIn
    BY <1>11, AnswerStep DEF BulkIn, RetOf
  <1>12. CASE ControlUrb
    BY <1>12, AnswerStep DEF ControlUrb, RetOf
  <1>13. CASE BadDirection
    BY <1>13, AnswerStep DEF BadDirection, RetOf
  <1>14. CASE Unlink
    BY <1>14, AnswerStep DEF Unlink, RetOf
  <1> QED
    BY <1>1, <1>2, <1>3, <1>4, <1>5, <1>6, <1>7, <1>8, <1>9, <1>10, <1>11, <1>12, <1>13, <1>14
       DEF Next, Client, Session

\* A new session has numbered nothing.
LEMMA UsbipInit == Init => UsbipInv
  <1> SUFFICES ASSUME Init PROVE UsbipInv
    OBVIOUS
  <1>1. wire \in Seq({}) /\ read \in Seq({}) /\ replies \in Seq({})
        /\ Len(wire) = 0 /\ Len(read) = 0 /\ Len(replies) = 0
    BY DEF Init
  <1> QED
    BY <1>1 DEF Init, UsbipInv, Sequential, Numbered, Open, Busy

\* Each URB is answered once, in the order of submission, by the right kind of
\* reply, for any number of URBs and whatever becomes of each.
THEOREM UsbipRepliesInOrder == Spec => []RepliesInOrder
  <1>1. UsbipInv => RepliesInOrder
    <2> SUFFICES ASSUME UsbipInv PROVE RepliesInOrder
      OBVIOUS
    <2>1. PICK S : wire \in Seq(S) /\ read \in Seq(S) /\ replies \in Seq(S)
      BY DEF UsbipInv, Sequential
    <2>2. DOMAIN replies = 1 .. Len(replies)
      BY <2>1
    <2>3. Len(read) = Len(replies) + (IF upc \in {"op", "urb"} THEN 0 ELSE 1) \/ upc = "closed"
      BY <2>1 DEF UsbipInv, Open, Busy
    <2> QED
      BY <2>2, <2>3 DEF UsbipInv, Numbered, RepliesInOrder, RetOf
  <1> QED
    BY <1>1, UsbipInit, UsbipStep, PTL DEF Spec
-----------------------------------------------------------------------------
(***************************************************************************)
(* The data of the replies and the counters.                               *)
(***************************************************************************)

\* The USB core's own requests are control requests, and a control request
\* asks for as much as its setup packet says.
MessageOK(m) ==
  /\ m.len \in Nat
  /\ m.kind = "ep0" => m.len = m.setup.length
  /\ m.seq <= EnumUrbs => m.kind = "ep0"

\* The URB in hand or, between two, the one to come.
Current == Len(replies) + 1

\* The bytes the reply that is being sent takes from the response.
Leaving == IF upc = "reply" /\ urb.kind = "in" THEN Len(out.data) ELSE 0

\* What of its response a URB finds once m bytes more have left is pending.
Holds(i, m) ==
  /\ Given(i) + m <= Len(Obtained(i))
  /\ pending = SubSeq(Obtained(i), Given(i) + m + 1, Len(Obtained(i)))

DataInv ==
  /\ upc \in Open => \A i \in 1 .. Len(wire) : MessageOK(wire[i])
  /\ \A i \in 1 .. Len(read) : MessageOK(read[i])
  /\ obtained \in Seq(Seq(Nat \X Nat))
  /\ pending \in Seq(Nat \X Nat)
  /\ \A i \in 1 .. Len(replies) :
       /\ replies[i].data = DataFor(i)
       /\ Len(replies[i].data) \in Nat
       /\ Fits(read[i], replies[i])
  /\ upc # "closed" =>
       Cardinality(OutsBefore(Current))
         = Len(obtained) - (IF upc = "reply" /\ urb.kind = "out" THEN 1 ELSE 0)
  /\ upc = "handle" => urb.kind # "out"
  /\ upc = "forward" => pending = <<>>
  /\ upc = "reply" /\ urb.kind = "out" => pending = obtained[Len(obtained)]
  /\ upc \in {"op", "urb", "handle"} \/ (upc = "reply" /\ urb.kind # "out") => Holds(Current, Leaving)
  /\ upc = "reply" =>
       /\ out.data = DataFor(Current)
       /\ Len(out.data) \in Nat
       /\ Fits(urb, out)

\* What is counted before its reply is sent.
Succeeding == upc = "reply" /\ urb.kind = "out" /\ out.status = 0

CountInv ==
  upc # "closed" =>
    /\ EP1_OUT_FRAMES = Cardinality(OutsDone) + (IF Succeeding THEN 1 ELSE 0)
    /\ EP1_OUT_BYTES = Cardinality(Forwarded(OutsDone)) + (IF Succeeding THEN urb.len ELSE 0)
    /\ EP1_IN_FRAMES = Cardinality(InsDone) + (IF upc = "reply" /\ urb.kind = "in" THEN 1 ELSE 0)
    /\ EP1_IN_BYTES = Cardinality(Returned(InsDone)) + Leaving

-----------------------------------------------------------------------------
\* A sequence written out as two parts is one of the same elements.
LEMMA JoinedTable ==
  ASSUME NEW S, NEW s \in Seq(S), NEW t \in Seq(S)
  PROVE  s \o t \in Seq(S)
  OBVIOUS

\* The tables hold numbers.
LEMMA TableBytes ==
  ASSUME NEW s, NEW p \in Payload(s)
  PROVE  p \in Seq(Nat)
  <1>1. DEVICE_DESCRIPTOR \in Seq(Nat)
    BY DEF DEVICE_DESCRIPTOR
  <1>2. CONFIG_DESCRIPTOR \in Seq(Nat)
    <2>1. /\ <<9, 2, 32, 0, 1, 1, 0, 128, 250>> \in Seq(Nat)
          /\ <<9, 4, 0, 0, 2, 255, 0, 0, 4>> \in Seq(Nat)
          /\ <<7, 5, 1, 2, 0, 2, 0>> \in Seq(Nat)
          /\ <<7, 5, 129, 2, 0, 2, 0>> \in Seq(Nat)
      OBVIOUS
    <2>2. <<9, 2, 32, 0, 1, 1, 0, 128, 250>> \o <<9, 4, 0, 0, 2, 255, 0, 0, 4>> \in Seq(Nat)
      BY <2>1, JoinedTable
    <2>3. <<9, 2, 32, 0, 1, 1, 0, 128, 250>> \o <<9, 4, 0, 0, 2, 255, 0, 0, 4>>
            \o <<7, 5, 1, 2, 0, 2, 0>> \in Seq(Nat)
      BY <2>1, <2>2, JoinedTable
    <2>4. (<<9, 2, 32, 0, 1, 1, 0, 128, 250>> \o <<9, 4, 0, 0, 2, 255, 0, 0, 4>>
            \o <<7, 5, 1, 2, 0, 2, 0>>) \o <<7, 5, 129, 2, 0, 2, 0>> \in Seq(Nat)
      BY <2>1, <2>3, JoinedTable
    <2> QED
      BY <2>4 DEF CONFIG_DESCRIPTOR
  <1>3. ASSUME NEW n \in Nat PROVE StringDescriptor(n) \in Seq(Nat)
    <2>1. 2 + 2 * n \in Nat /\ (2 + 2 * n) % 256 \in Nat
      OBVIOUS
    <2>2. \A i \in 1 .. 2 + 2 * n :
            (CASE i = 1 -> (2 + 2 * n) % 256 [] i = 2 -> 3 [] OTHER -> 0) \in Nat
      BY <2>1
    <2> QED
      BY <2>1, <2>2 DEF StringDescriptor
  <1>4. ASSUME NEW i, p \in String(i) PROVE p \in Seq(Nat)
    <2>1. <<4, 3, 9, 4>> \in Seq(Nat)
      OBVIOUS
    <2> QED
      BY <1>3, <1>4, <2>1 DEF String, VENDOR_LEN, PRODUCT_LEN, SERIAL_LEN, INTERFACE_LEN
  <1>5. <<0, 0>> \in Seq(Nat) /\ <<1>> \in Seq(Nat) /\ <<0>> \in Seq(Nat)
    OBVIOUS
  <1> QED
    BY <1>1, <1>2, <1>4, <1>5 DEF Payload

\* Cutting keeps a prefix that fits.
LEMMA CutFits ==
  ASSUME NEW S, NEW d \in Seq(S), NEW n \in Nat
  PROVE  Cut(d, n) \in Seq(S) /\ Len(Cut(d, n)) \in Nat /\ Len(Cut(d, n)) <= n
  <1>1. CASE Len(d) <= n
    BY <1>1 DEF Cut
  <1>2. CASE ~ Len(d) <= n
    <2>1. n \in 0 .. Len(d) /\ Cut(d, n) = SubSeq(d, 1, n)
      BY <1>2 DEF Cut
    <2>2. SubSeq(d, 1, n) \in Seq(S) /\ Len(SubSeq(d, 1, n)) = n
      BY <2>1
    <2> QED
      BY <2>1, <2>2
  <1> QED
    BY <1>1, <1>2

\* What the control endpoint answers fits the request and answers an IN.
LEMMA ControlFits ==
  ASSUME NEW s, s.length \in Nat
  PROVE  /\ Ep0Control(s).data \in Seq(Nat) /\ Len(Ep0Control(s).data) \in Nat
         /\ Len(Ep0Control(s).data) <= s.length
         /\ Ep0Control(s).data # <<>> => Ep0Control(s).status = 0 /\ s.type >= 128
  <1> DEFINE a == Ep0Control(s)
  <1>0. <<>> \in Seq(Nat) /\ Len(<<>>) = 0
    OBVIOUS
  <1>1. CASE s.type >= 128 /\ Payload(s) # {}
    <2> DEFINE p == CHOOSE p \in Payload(s) : TRUE
    <2>1. p \in Payload(s)
      BY <1>1
    <2>2. p \in Seq(Nat)
      BY <2>1, TableBytes
    <2>3. a.data = Cut(p, s.length) /\ a.status = 0
      BY <1>1 DEF Ep0Control, Ok
    <2> QED
      BY <1>1, <2>2, <2>3, CutFits
  <1>2. CASE ~(s.type >= 128 /\ Payload(s) # {})
    <2>1. a.data = <<>>
      BY <1>2 DEF Ep0Control, Ok, Stall
    <2> QED
      BY <2>1, <1>0
  <1> QED
    BY <1>1, <1>2

\* What is counted as pairs of a key and a position is finite.
LEMMA FiniteLayers ==
  ASSUME NEW js, IsFiniteSet(js), NEW f, \A j \in js : f[j] \in Nat,
         NEW U, \A e \in U : \E j \in js : e \in {j} \X (1 .. f[j])
  PROVE  IsFiniteSet(U) /\ Cardinality(U) \in Nat
  <1> DEFINE layers == {{j} \X (1 .. f[j]) : j \in js}
             g == [j \in js |-> {j} \X (1 .. f[j])]
  <1>1. g \in Surjection(js, layers)
    BY DEF Surjection
  <1>2. IsFiniteSet(layers)
    BY <1>1, FS_Surjection
  <1>3. ASSUME NEW T \in layers PROVE IsFiniteSet(T)
    <2>1. PICK j \in js : T = {j} \X (1 .. f[j])
      OBVIOUS
    <2>2. 1 \in Int /\ f[j] \in Int
      OBVIOUS
    <2>3. IsFiniteSet({j}) /\ IsFiniteSet(1 .. f[j])
      BY <2>2, FS_Singleton, FS_Interval
    <2> QED
      BY <2>1, <2>3, FS_Product
  <1>4. U \in SUBSET UNION layers
    OBVIOUS
  <1> HIDE DEF layers
  <1>5. IsFiniteSet(UNION layers)
    BY <1>2, <1>3, FS_UNION
  <1> QED
    BY <1>4, <1>5, FS_Subset, FS_CardinalityType

\* One more key counts for as much as it has positions.
LEMMA OneMoreLayer ==
  ASSUME NEW S, IsFiniteSet(S), NEW j, NEW n \in Nat, \A e \in S : e[1] # j
  PROVE  Cardinality(S \cup ({j} \X (1 .. n))) = Cardinality(S) + n
  <1>1. IsFiniteSet({j}) /\ Cardinality({j}) = 1
    BY FS_Singleton
  <1>2. IsFiniteSet(1 .. n) /\ Cardinality(1 .. n) = n
    BY FS_Interval
  <1>3. IsFiniteSet({j} \X (1 .. n)) /\ Cardinality({j} \X (1 .. n)) = n
    <2>1. /\ IsFiniteSet({j} \X (1 .. n))
          /\ Cardinality({j} \X (1 .. n)) = Cardinality({j}) * Cardinality(1 .. n)
      BY <1>1, <1>2, FS_Product
    <2> QED
      BY <1>1, <1>2, <2>1
  <1>4. S \cap ({j} \X (1 .. n)) = {}
    OBVIOUS
  <1>5. Cardinality(S \cup ({j} \X (1 .. n))) = Cardinality(S) + n - Cardinality({})
    BY <1>3, <1>4, FS_Union
  <1>6. Cardinality({}) = 0 /\ Cardinality(S) \in Nat
    BY FS_EmptySet, FS_CardinalityType
  <1> QED
    BY <1>5, <1>6

-----------------------------------------------------------------------------
\* There are finitely many OUTs before a URB, and more before a later one.
LEMMA OutsFinite ==
  ASSUME NEW k \in Nat
  PROVE  /\ IsFiniteSet(OutsBefore(k)) /\ Cardinality(OutsBefore(k)) \in Nat
         /\ \A i \in 1 .. k : OutsBefore(i) \subseteq OutsBefore(k)
         /\ \A i \in 1 .. k : Cardinality(OutsBefore(i)) <= Cardinality(OutsBefore(k))
  <1>1. IsFiniteSet(1 .. k - 1)
    BY FS_Interval
  <1>2. OutsBefore(k) \in SUBSET (1 .. k - 1)
    BY DEF OutsBefore
  <1>3. IsFiniteSet(OutsBefore(k))
    BY <1>1, <1>2, FS_Subset
  <1>4. \A i \in 1 .. k : OutsBefore(i) \subseteq OutsBefore(k)
    BY DEF OutsBefore
  <1>5. ASSUME NEW i \in 1 .. k PROVE Cardinality(OutsBefore(i)) <= Cardinality(OutsBefore(k))
    BY <1>3, <1>4, FS_Subset
  <1> QED
    BY <1>3, <1>4, <1>5, FS_CardinalityType

\* Histories only grow.
Grown ==
  /\ Len(read) <= Len(read') /\ \A i \in 1 .. Len(read) : read'[i] = read[i]
  /\ Len(replies) <= Len(replies') /\ \A i \in 1 .. Len(replies) : replies'[i] = replies[i]
  /\ Len(obtained) <= Len(obtained') /\ \A i \in 1 .. Len(obtained) : obtained'[i] = obtained[i]

\* What an earlier URB found does not change with them.
LEMMA PastKept ==
  ASSUME Grown, Len(read) \in Nat, Len(replies) \in Nat, Len(obtained) \in Nat,
         NEW n \in Nat \ {0}, n <= Len(read) + 1, n <= Len(replies) + 1,
         Cardinality(OutsBefore(n)) <= Len(obtained)
  PROVE  /\ OutsBefore(n)' = OutsBefore(n)
         /\ InsSince(n)' = InsSince(n)
         /\ Given(n)' = Given(n)
         /\ Obtained(n)' = Obtained(n)
         /\ n <= Len(read) => DataFor(n)' = DataFor(n)
  <1>1. \A i \in 1 .. n - 1 : read'[i] = read[i] /\ replies'[i] = replies[i]
    BY DEF Grown
  <1>2. \A i \in 1 .. n : OutsBefore(i)' = OutsBefore(i)
    <2> TAKE i \in 1 .. n
    <2>1. \A j \in 1 .. i - 1 : read'[j] = read[j]
      BY <1>1
    <2> QED
      BY <2>1 DEF OutsBefore
  <1>3. OutsBefore(n)' = OutsBefore(n)
    BY <1>2
  <1>4. InsSince(n)' = InsSince(n)
    <2>1. \A j \in 1 .. n - 1 : read'[j] = read[j] /\ OutsBefore(j)' = OutsBefore(j)
      BY <1>1, <1>2
    <2> QED
      BY <1>3, <2>1 DEF InsSince
  <1>5. Given(n)' = Given(n)
    <2>1. \A j \in InsSince(n) : replies'[j] = replies[j]
      BY <1>1 DEF InsSince
    <2>2. Returned(InsSince(n))' = Returned(InsSince(n))
      BY <1>4, <2>1 DEF Returned
    <2> QED
      BY <2>2 DEF Given
  <1>6. Obtained(n)' = Obtained(n)
    <2>1. CASE OutsBefore(n) = {}
      BY <1>3, <2>1 DEF Obtained
    <2>2. CASE OutsBefore(n) # {}
      <3>1. Cardinality(OutsBefore(n)) \in 1 .. Len(obtained)
        BY <2>2, OutsFinite, FS_EmptySet
      <3>2. obtained'[Cardinality(OutsBefore(n))] = obtained[Cardinality(OutsBefore(n))]
        BY <3>1 DEF Grown
      <3> QED
        BY <1>3, <2>2, <3>2 DEF Obtained
    <2> QED
      BY <2>1, <2>2
  <1>7. ASSUME n <= Len(read) PROVE DataFor(n)' = DataFor(n)
    <2>1. read'[n] = read[n]
      BY <1>7 DEF Grown
    <2> QED
      BY <1>5, <1>6, <2>1 DEF DataFor
  <1> QED
    BY <1>3, <1>4, <1>5, <1>6, <1>7

\* The lengths and numbers of the histories.
LEMMA Histories ==
  ASSUME UsbipInv, DataInv
  PROVE  /\ Len(read) \in Nat /\ Len(replies) \in Nat /\ Len(obtained) \in Nat /\ Len(wire) \in Nat
         /\ Current \in Nat \ {0} /\ Current <= Len(read) + 1
         /\ Len(replies) <= Len(read)
         /\ DOMAIN replies = 1 .. Len(replies)
         /\ upc # "closed" => Cardinality(OutsBefore(Current)) <= Len(obtained)
         /\ upc \in Busy => Current = Len(read) /\ urb = read[Current] /\ MessageOK(urb)
  <1>1. PICK S : wire \in Seq(S) /\ read \in Seq(S) /\ replies \in Seq(S)
    BY DEF UsbipInv, Sequential
  <1>2. Len(read) \in Nat /\ Len(replies) \in Nat /\ Len(obtained) \in Nat /\ Len(wire) \in Nat
    BY <1>1 DEF DataInv
  <1>3. Len(replies) <= Len(read)
    BY <1>2 DEF UsbipInv, Numbered
  <1>4. Current \in Nat \ {0} /\ Current <= Len(read) + 1
    BY <1>2, <1>3 DEF Current
  <1>5. upc # "closed" => Cardinality(OutsBefore(Current)) <= Len(obtained)
    BY <1>2 DEF DataInv
  <1>6. ASSUME upc \in Busy PROVE Current = Len(read) /\ urb = read[Current] /\ MessageOK(urb)
    <2>1. Current = Len(read) /\ urb = read[Current]
      BY <1>2, <1>6 DEF UsbipInv, Current
    <2>2. Current \in 1 .. Len(read)
      BY <1>2, <1>4, <2>1
    <2> QED
      BY <2>1, <2>2 DEF DataInv
  <1> QED
    BY <1>1, <1>2, <1>3, <1>4, <1>5, <1>6

\* The replies sent so far stay right, and the URB to come finds what it found.
LEMMA RepliesKept ==
  ASSUME UsbipInv, DataInv, upc # "closed", Grown, NEW n, n = Current
  PROVE  /\ \A i \in 1 .. Len(replies) :
              /\ replies'[i].data = DataFor(i)'
              /\ Len(replies'[i].data) \in Nat
              /\ Fits(read'[i], replies'[i])
         /\ OutsBefore(n)' = OutsBefore(n)
         /\ InsSince(n)' = InsSince(n)
         /\ Given(n)' = Given(n)
         /\ Obtained(n)' = Obtained(n)
         /\ n <= Len(read) => DataFor(n)' = DataFor(n)
  <1>0. /\ Len(read) \in Nat /\ Len(replies) \in Nat /\ Len(obtained) \in Nat
        /\ n \in Nat \ {0} /\ n <= Len(read) + 1 /\ n = Len(replies) + 1
        /\ Cardinality(OutsBefore(n)) <= Len(obtained)
        /\ Len(replies) <= Len(read)
    BY Histories DEF Current
  <1>1. ASSUME NEW i \in 1 .. Len(replies)
        PROVE  /\ replies'[i].data = DataFor(i)' /\ Len(replies'[i].data) \in Nat
               /\ Fits(read'[i], replies'[i])
    <2>1. i \in Nat \ {0} /\ i <= Len(read) /\ i \in 1 .. n /\ i \in 1 .. Len(read)
          /\ i <= Len(read) + 1 /\ i <= Len(replies) + 1
      BY <1>0
    <2>2. Cardinality(OutsBefore(i)) <= Len(obtained)
      <3>1. Cardinality(OutsBefore(i)) <= Cardinality(OutsBefore(n))
        BY <1>0, <2>1, OutsFinite
      <3>2. Cardinality(OutsBefore(i)) \in Nat /\ Cardinality(OutsBefore(n)) \in Nat
        BY <1>0, <2>1, OutsFinite
      <3> QED
        BY <1>0, <3>1, <3>2
    <2>3. DataFor(i)' = DataFor(i)
      BY <1>0, <2>1, <2>2, PastKept
    <2>4. replies'[i] = replies[i] /\ read'[i] = read[i]
      BY <2>1 DEF Grown
    <2>5. replies[i].data = DataFor(i) /\ Len(replies[i].data) \in Nat /\ Fits(read[i], replies[i])
      BY DEF DataInv
    <2> QED
      BY <2>3, <2>4, <2>5
  <1> QED
    BY <1>0, <1>1, PastKept

\* Nothing about them changes while no history does.
LEMMA NoHistory ==
  ASSUME UNCHANGED <<read, replies, obtained>>, NEW n
  PROVE  /\ OutsBefore(n)' = OutsBefore(n) /\ Given(n)' = Given(n)
         /\ Obtained(n)' = Obtained(n) /\ DataFor(n)' = DataFor(n)
         /\ Current' = Current
  <1>1. \A i : OutsBefore(i)' = OutsBefore(i)
    BY DEF OutsBefore
  <1>2. InsSince(n)' = InsSince(n)
    BY <1>1 DEF InsSince
  <1>3. Given(n)' = Given(n)
    BY <1>2 DEF Given, Returned
  <1>4. Obtained(n)' = Obtained(n)
    BY <1>1 DEF Obtained
  <1> QED
    BY <1>1, <1>3, <1>4 DEF DataFor, Current

-----------------------------------------------------------------------------
\* The client submits one more message.
LEMMA DataSubmit ==
  ASSUME UsbipInv, DataInv, NEW m, MessageOK(m), Submit(m)
  PROVE  DataInv'
  <1>1. /\ UNCHANGED <<read, replies, obtained, upc, urb, pending, out>>
        /\ wire' = Append(wire, m) /\ upc \in Open
    BY DEF Submit, UsbipInv
  <1>2. PICK S : wire \in Seq(S)
    BY DEF UsbipInv, Sequential
  <1>3. /\ Len(wire') = Len(wire) + 1 /\ Len(wire) \in Nat /\ wire'[Len(wire) + 1] = m
        /\ \A i \in 1 .. Len(wire) : wire'[i] = wire[i]
    BY <1>1, <1>2, Appended
  <1>4. ASSUME NEW i \in 1 .. Len(wire') PROVE MessageOK(wire'[i])
    <2>1. CASE i = Len(wire) + 1
      BY <1>3, <2>1
    <2>2. CASE i # Len(wire) + 1
      <3>1. i \in 1 .. Len(wire)
        BY <1>3, <2>2
      <3> QED
        BY <1>1, <1>3, <3>1 DEF DataInv
    <2> QED
      BY <2>1, <2>2
  <1> QED
    BY <1>1, <1>4, NoHistory DEF DataInv, Holds, Leaving

\* The USB core asks for a number of bytes, also where a descriptor tells it.
LEMMA EnumerationLength ==
  ASSUME UsbipInv, DataInv, ClientEnumerates
  PROVE  Enumeration(submitted + 1).length \in Nat
  <1>1. submitted \in Nat /\ submitted < 10 /\ submitted = Len(replies)
    BY Histories DEF ClientEnumerates, EnumUrbs
  <1>2. ASSUME submitted = 3 PROVE Total(replies[3].data) \in Nat
    <2>1. 3 \in 1 .. Len(replies) /\ 3 \in 1 .. Len(read) /\ Accepted(3)
      BY <1>1, <1>2, Histories DEF ClientEnumerates
    <2>2. read[3].seq = 3 /\ MessageOK(read[3])
      BY <2>1 DEF UsbipInv, Numbered, DataInv
    <2>3. read[3].kind = "ep0" /\ read[3].setup.length \in Nat
      BY <2>2 DEF MessageOK, EnumUrbs
    <2>4. replies[3].data = Ep0Control(read[3].setup).data
      BY <2>1, <2>3 DEF DataInv, DataFor
    <2>5. replies[3].data \in Seq(Nat)
      BY <2>3, <2>4, ControlFits
    <2>6. Len(replies[3].data) = 9
      BY <2>1 DEF Accepted
    <2>7. replies[3].data[3] \in Nat /\ replies[3].data[4] \in Nat
      BY <2>5, <2>6
    <2> QED
      BY <2>7 DEF Total
  <1>3. CASE submitted = 3
    BY <1>2, <1>3 DEF Enumeration, GetDescriptor, Setup
  <1>4. CASE submitted # 3
    BY <1>1, <1>4 DEF Enumeration, GetDescriptor, Setup
  <1> QED
    BY <1>3, <1>4

\* The session takes the next message; an OUT discards what was pending.
LEMMA DataRead ==
  ASSUME UsbipInv, DataInv, ReadUrb
  PROVE  DataInv'
  <1>1. PICK S : wire \in Seq(S) /\ read \in Seq(S) /\ replies \in Seq(S)
    BY DEF UsbipInv, Sequential
  <1>0. PICK n : n = Current
    OBVIOUS
  <1> DEFINE m == Head(wire)
  <1>2. /\ Len(wire) \in Nat /\ Len(wire) > 0 /\ Len(Tail(wire)) = Len(wire) - 1
        /\ \A i \in 1 .. Len(wire) - 1 : Tail(wire)[i] = wire[i + 1]
        /\ m = wire[1] /\ m \in S
    BY <1>1 DEF ReadUrb
  <1>3. /\ Len(read) \in Nat /\ Len(read') = Len(read) + 1 /\ read'[Len(read) + 1] = m
        /\ \A i \in 1 .. Len(read) : read'[i] = read[i]
    BY <1>1, <1>2 DEF ReadUrb
  <1>4. /\ upc = "urb" /\ urb' = m /\ wire' = Tail(wire)
        /\ UNCHANGED <<replies, obtained, out>>
        /\ upc' \in {"forward", "closed", "handle"}
        /\ upc' = "forward" <=> m.kind = "out"
        /\ pending' = IF m.kind = "out" THEN <<>> ELSE pending
    BY DEF ReadUrb
  <1>5. Grown
    BY <1>3, <1>4, Histories DEF Grown
  <1>6. Current' = n
    BY <1>0, <1>4 DEF Current
  <1>7. MessageOK(m)
    BY <1>2, <1>4 DEF DataInv, Open
  <1>8. upc' \in Open => \A i \in 1 .. Len(wire') : MessageOK(wire'[i])
    <2>1. \A i \in 1 .. Len(wire) : MessageOK(wire[i])
      BY <1>4 DEF DataInv, Open
    <2>2. ASSUME NEW i \in 1 .. Len(wire') PROVE MessageOK(wire'[i])
      <3>1. i \in 1 .. Len(wire) - 1 /\ i + 1 \in 1 .. Len(wire)
        BY <1>2, <1>4
      <3> QED
        BY <1>2, <1>4, <2>1, <3>1
    <2> QED
      BY <2>2
  <1>9. ASSUME NEW i \in 1 .. Len(read') PROVE MessageOK(read'[i])
    <2>1. CASE i = Len(read) + 1
      BY <1>3, <1>7, <2>1
    <2>2. CASE i # Len(read) + 1
      <3>1. i \in 1 .. Len(read)
        BY <1>3, <2>2
      <3> QED
        BY <1>3, <3>1 DEF DataInv
    <2> QED
      BY <2>1, <2>2
  <1> HIDE DEF m
  <1>10. /\ \A i \in 1 .. Len(replies) :
              /\ replies'[i].data = DataFor(i)'
              /\ Len(replies'[i].data) \in Nat
              /\ Fits(read'[i], replies'[i])
         /\ OutsBefore(n)' = OutsBefore(n) /\ Given(n)' = Given(n) /\ Obtained(n)' = Obtained(n)
    BY <1>0, <1>4, <1>5, RepliesKept
  <1>11. Cardinality(OutsBefore(n)) = Len(obtained)
    BY <1>0, <1>4, Histories DEF DataInv
  <1>12. Cardinality(OutsBefore(Current)') = Len(obtained')
    <2>1. OutsBefore(Current)' = OutsBefore(n)'
      BY <1>6 DEF OutsBefore
    <2> QED
      BY <1>4, <1>10, <1>11, <2>1
  <1>13. pending' \in Seq(Nat \X Nat)
    <2>1. <<>> \in Seq(Nat \X Nat) /\ pending \in Seq(Nat \X Nat)
      BY DEF DataInv
    <2> QED
      BY <1>4, <2>1
  <1>14. Holds(n, 0)
    BY <1>0, <1>4 DEF DataInv, Leaving
  <1>15. ASSUME upc' = "handle" PROVE Holds(Current, Leaving)'
    <2>1. pending' = pending /\ Leaving' = 0
      BY <1>4, <1>15 DEF Leaving
    <2>2. /\ Given(n)' + 0 <= Len(Obtained(n)')
          /\ pending' = SubSeq(Obtained(n)', Given(n)' + 0 + 1, Len(Obtained(n)'))
      BY <1>10, <1>14, <2>1 DEF Holds
    <2>3. Given(Current)' = Given(n)' /\ Obtained(Current)' = Obtained(n)'
      BY <1>6 DEF Given, InsSince, OutsBefore, Obtained
    <2> QED
      BY <2>1, <2>2, <2>3 DEF Holds
  <1>16. /\ upc' # "reply" /\ upc' # "op" /\ upc' # "urb"
         /\ upc' = "handle" => urb'.kind # "out"
         /\ upc' = "forward" => pending' = <<>>
    BY <1>4
  <1>17. obtained' \in Seq(Seq(Nat \X Nat))
    BY <1>4 DEF DataInv
  <1>18. Len(obtained') \in Nat
    BY <1>4, Histories
  <1>19. \A i \in 1 .. Len(replies') :
              /\ replies'[i].data = DataFor(i)'
              /\ Len(replies'[i].data) \in Nat
              /\ Fits(read'[i], replies'[i])
    BY <1>4, <1>10
  <1>20. Cardinality(OutsBefore(Current)') = Len(obtained') - 0
    BY <1>12, <1>18
  <1> QED
    BY <1>8, <1>9, <1>13, <1>15, <1>16, <1>17, <1>19, <1>20 DEF DataInv

\* Cutting what is left after the first g elements in two.
LEMMA CutRest ==
  ASSUME NEW S, NEW s \in Seq(S), NEW g \in 0 .. Len(s), NEW k \in 0 .. Len(s) - g,
         NEW p, p = SubSeq(s, g + 1, Len(s))
  PROVE  /\ p \in Seq(S) /\ Len(p) = Len(s) - g
         /\ SubSeq(p, 1, k) = SubSeq(s, g + 1, g + k) /\ Len(SubSeq(p, 1, k)) = k
         /\ SubSeq(p, k + 1, Len(p)) = SubSeq(s, g + k + 1, Len(s))
         /\ SubSeq(p, k + 1, Len(p)) \in Seq(S)
  <1>1. p \in Seq(S) /\ Len(p) = Len(s) - g /\ \A i \in 1 .. Len(p) : p[i] = s[g + i]
    OBVIOUS
  <1>2. /\ SubSeq(p, 1, k) = [i \in 1 .. k |-> p[i]]
        /\ SubSeq(s, g + 1, g + k) = [i \in 1 .. k |-> s[g + i]]
    BY <1>1
  <1>3. SubSeq(p, 1, k) = SubSeq(s, g + 1, g + k)
    BY <1>1, <1>2
  <1>4. /\ SubSeq(p, k + 1, Len(p)) = [i \in 1 .. Len(p) - k |-> p[k + i]]
        /\ SubSeq(s, g + k + 1, Len(s)) = [i \in 1 .. Len(p) - k |-> s[g + k + i]]
    BY <1>1
  <1>5. \A i \in 1 .. Len(p) - k : p[k + i] = s[g + k + i]
    BY <1>1
  <1>6. SubSeq(p, k + 1, Len(p)) \in Seq(S) /\ Len(SubSeq(p, 1, k)) = k
    BY <1>1
  <1> QED
    BY <1>1, <1>3, <1>4, <1>5, <1>6

\* The bytes returned by any of the URBs answered so far.
LEMMA ReturnedFinite ==
  ASSUME UsbipInv, DataInv, NEW js \in SUBSET (1 .. Len(replies))
  PROVE  IsFiniteSet(Returned(js)) /\ Cardinality(Returned(js)) \in Nat
  <1> DEFINE f == [j \in js |-> Len(replies[j].data)]
  <1>1. IsFiniteSet(js)
    <2>1. IsFiniteSet(1 .. Len(replies))
      BY Histories, FS_Interval
    <2> QED
      BY <2>1, FS_Subset
  <1>2. \A j \in js : f[j] \in Nat
    BY DEF DataInv
  <1>3. \A e \in Returned(js) : \E j \in js : e \in {j} \X (1 .. f[j])
    BY DEF Returned
  <1> HIDE DEF f
  <1> QED
    BY <1>1, <1>2, <1>3, FiniteLayers

\* What the URB in hand finds is a response, or nothing.
LEMMA ObtainedType ==
  ASSUME UsbipInv, DataInv, upc # "closed"
  PROVE  /\ Obtained(Current) \in Seq(Nat \X Nat)
         /\ IsFiniteSet(Returned(InsSince(Current))) /\ Given(Current) \in Nat
  <1>1. Current \in Nat /\ Cardinality(OutsBefore(Current)) <= Len(obtained) /\ Len(obtained) \in Nat
    BY Histories
  <1>2. Obtained(Current) \in Seq(Nat \X Nat)
    <2>1. CASE OutsBefore(Current) = {}
      BY <2>1 DEF Obtained
    <2>2. CASE OutsBefore(Current) # {}
      <3>1. Cardinality(OutsBefore(Current)) \in 1 .. Len(obtained)
        BY <1>1, <2>2, OutsFinite, FS_EmptySet
      <3> QED
        BY <2>2, <3>1 DEF Obtained, DataInv
    <2> QED
      BY <2>1, <2>2
  <1>3. /\ IsFiniteSet(Returned(InsSince(Current))) /\ Given(Current) \in Nat
    <2>1. InsSince(Current) \in SUBSET (1 .. Len(replies))
      BY Histories DEF InsSince, Current
    <2> QED
      BY <2>1, ReturnedFinite DEF Given
  <1> QED
    BY <1>2, <1>3

\* The link has answered the command of an OUT, or failed it.
LEMMA DataForward ==
  ASSUME UsbipInv, DataInv, upc = "forward", NEW r \in Seq(Nat \X Nat),
         obtained' = Append(obtained, r), pending' = r, out'.data = <<>>, upc' = "reply",
         UNCHANGED <<wire, urb, read, replies>>
  PROVE  DataInv'
  <1>0. PICK n : n = Current
    OBVIOUS
  <1>1. /\ n = Len(read) /\ urb = read[n] /\ MessageOK(urb) /\ urb.kind = "out" /\ n \in Nat \ {0}
        /\ Cardinality(OutsBefore(n)) = Len(obtained) /\ Len(obtained) \in Nat
        /\ n <= Len(read)
    <2>1. /\ n = Len(read) /\ urb = read[n] /\ MessageOK(urb) /\ n \in Nat \ {0}
          /\ Len(obtained) \in Nat /\ n <= Len(read)
      BY <1>0, Histories DEF Busy
    <2>2. urb.kind = "out"
      BY DEF UsbipInv
    <2>3. Cardinality(OutsBefore(n)) = Len(obtained) - 0
      BY <1>0 DEF DataInv
    <2> QED
      BY <2>1, <2>2, <2>3
  <1>2. /\ obtained' \in Seq(Seq(Nat \X Nat)) /\ Len(obtained') = Len(obtained) + 1
        /\ obtained'[Len(obtained) + 1] = r
        /\ \A i \in 1 .. Len(obtained) : obtained'[i] = obtained[i]
    BY DEF DataInv
  <1>3. Grown
    BY <1>1, <1>2, Histories DEF Grown
  <1>4. /\ \A i \in 1 .. Len(replies) :
              /\ replies'[i].data = DataFor(i)'
              /\ Len(replies'[i].data) \in Nat
              /\ Fits(read'[i], replies'[i])
        /\ OutsBefore(n)' = OutsBefore(n)
        /\ DataFor(n)' = DataFor(n)
    BY <1>0, <1>1, <1>3, RepliesKept
  <1>5. Current' = n
    BY <1>0 DEF Current
  <1>6. DataFor(n) = <<>>
    BY <1>1 DEF DataFor
  <1>7. out'.data = DataFor(Current)' /\ Len(out'.data) = 0
    <2>1. DataFor(Current)' = DataFor(n)'
      BY <1>5 DEF DataFor, Given, InsSince, OutsBefore, Obtained
    <2> QED
      BY <1>4, <1>6, <2>1
  <1>8. Cardinality(OutsBefore(Current)') = Len(obtained') - 1
    <2>1. OutsBefore(Current)' = OutsBefore(n)'
      BY <1>5 DEF OutsBefore
    <2>2. Cardinality(OutsBefore(Current)') = Len(obtained)
      BY <1>1, <1>4, <2>1
    <2> QED
      BY <1>1, <1>2, <2>2
  <1>9. Fits(urb', out')
    BY <1>1, <1>7 DEF Fits, MessageOK
  <1>10. pending' = obtained'[Len(obtained')]
    BY <1>2
  <1>11. /\ upc' \in Open => \A i \in 1 .. Len(wire') : MessageOK(wire'[i])
         /\ \A i \in 1 .. Len(read') : MessageOK(read'[i])
         /\ \A i \in 1 .. Len(replies') :
              /\ replies'[i].data = DataFor(i)'
              /\ Len(replies'[i].data) \in Nat
              /\ Fits(read'[i], replies'[i])
         /\ pending' \in Seq(Nat \X Nat)
    BY <1>4 DEF DataInv, Open, Busy
  <1> QED
    BY <1>1, <1>2, <1>7, <1>8, <1>9, <1>10, <1>11 DEF DataInv

\* A URB that is not an OUT gets its reply ready.
LEMMA DataAnswer ==
  ASSUME UsbipInv, DataInv, upc = "handle", upc' = "reply",
         UNCHANGED <<wire, urb, read, replies, obtained>>,
         out'.data = DataFor(Current), Len(out'.data) \in Nat, Fits(urb, out'),
         pending' \in Seq(Nat \X Nat), Holds(Current, Leaving)'
  PROVE  DataInv'
  <1>1. /\ urb'.kind # "out" /\ urb' = urb
        /\ Cardinality(OutsBefore(Current)) = Len(obtained) - 0
    BY DEF DataInv
  <1>2. Current' = Current /\ Cardinality(OutsBefore(Current)') = Len(obtained') - 0
    BY <1>1 DEF OutsBefore, Current
  <1>3. DataFor(Current)' = DataFor(Current)
    BY DEF DataFor, Given, InsSince, OutsBefore, Obtained, Returned, Current
  <1>4. /\ upc' \in Open => \A i \in 1 .. Len(wire') : MessageOK(wire'[i])
        /\ \A i \in 1 .. Len(read') : MessageOK(read'[i])
        /\ \A i \in 1 .. Len(replies') :
             /\ replies'[i].data = DataFor(i)'
             /\ Len(replies'[i].data) \in Nat
             /\ Fits(read'[i], replies'[i])
        /\ obtained' \in Seq(Seq(Nat \X Nat))
    BY NoHistory DEF DataInv, Open, Busy
  <1>5. out'.data = DataFor(Current)' /\ Fits(urb', out')
    BY <1>1, <1>3
  <1> QED
    BY <1>1, <1>2, <1>4, <1>5 DEF DataInv

\* An answer that takes nothing from the response.
LEMMA DataOther ==
  ASSUME UsbipInv, DataInv, upc = "handle", upc' = "reply", urb.kind # "in",
         UNCHANGED <<wire, urb, read, replies, obtained, pending>>,
         out'.data = IF urb.kind = "ep0" THEN Ep0Control(urb.setup).data ELSE <<>>,
         urb.kind = "ep0" => out'.status = Ep0Control(urb.setup).status
  PROVE  DataInv'
  <1>1. urb = read[Current] /\ MessageOK(urb) /\ urb.kind # "out"
    BY Histories DEF DataInv, Busy
  <1>2. out'.data = DataFor(Current)
    BY <1>1 DEF DataFor
  <1>3. Len(out'.data) \in Nat /\ Fits(urb, out')
    <2>1. CASE urb.kind = "ep0"
      <3>1. urb.setup.length \in Nat /\ urb.len = urb.setup.length
        BY <1>1, <2>1 DEF MessageOK
      <3> QED
        BY <2>1, <3>1, ControlFits DEF Fits
    <2>2. CASE urb.kind # "ep0"
      <3>1. out'.data = <<>> /\ Len(out'.data) = 0
        BY <2>2
      <3> QED
        BY <1>1, <3>1 DEF Fits, MessageOK
    <2> QED
      BY <2>1, <2>2
  <1>4. pending' \in Seq(Nat \X Nat)
    BY DEF DataInv
  <1>5. Holds(Current, Leaving)'
    <2>1. Holds(Current, 0)
      BY DEF DataInv, Leaving
    <2>2. Leaving' = 0
      BY DEF Leaving
    <2>3. Given(Current)' = Given(Current) /\ Obtained(Current)' = Obtained(Current)
      BY DEF Given, InsSince, OutsBefore, Obtained, Returned, Current
    <2> QED
      BY <2>1, <2>2, <2>3 DEF Holds
  <1> QED
    BY <1>2, <1>3, <1>4, <1>5, DataAnswer

\* An IN takes what fits of the response, from where the one before it stopped.
LEMMA DataIn ==
  ASSUME UsbipInv, DataInv, BulkIn
  PROVE  DataInv'
  <1>0. PICK o, g, k : /\ o = Obtained(Current) /\ g = Given(Current)
                       /\ k = Lesser(Len(pending), urb.len)
    OBVIOUS
  <1>1. urb = read[Current] /\ MessageOK(urb) /\ urb.kind = "in" /\ upc = "handle"
    BY Histories DEF BulkIn, Busy
  <1>2. o \in Seq(Nat \X Nat) /\ g \in Nat /\ urb.len \in Nat /\ Len(o) \in Nat
    BY <1>0, <1>1, ObtainedType DEF MessageOK
  <1>3. g + 0 <= Len(o) /\ pending = SubSeq(o, g + 0 + 1, Len(o))
    BY <1>0, <1>1 DEF DataInv, Holds, Leaving
  <1>4. g \in 0 .. Len(o) /\ pending = SubSeq(o, g + 1, Len(o))
    BY <1>2, <1>3
  <1>5. Len(pending) = Len(o) - g
    BY <1>2, <1>4
  <1>6. /\ k \in 0 .. Len(o) - g /\ k <= urb.len
        /\ g + k = Lesser(g + urb.len, Len(o))
    <2>1. k = IF Len(o) - g <= urb.len THEN Len(o) - g ELSE urb.len
      BY <1>0, <1>5 DEF Lesser
    <2>2. CASE Len(o) - g <= urb.len
      <3>1. k = Len(o) - g /\ g + urb.len >= Len(o)
        BY <1>2, <2>1, <2>2
      <3>2. Lesser(g + urb.len, Len(o)) = Len(o)
        BY <1>2, <3>1 DEF Lesser
      <3> QED
        BY <1>2, <1>3, <2>2, <3>1, <3>2
    <2>3. CASE ~ Len(o) - g <= urb.len
      <3>1. k = urb.len /\ g + urb.len < Len(o)
        BY <1>2, <2>1, <2>3
      <3>2. Lesser(g + urb.len, Len(o)) = g + urb.len
        BY <1>2, <3>1 DEF Lesser
      <3> QED
        BY <1>2, <1>3, <3>1, <3>2
    <2> QED
      BY <2>2, <2>3
  <1>7. /\ SubSeq(pending, 1, k) = SubSeq(o, g + 1, g + k) /\ Len(SubSeq(pending, 1, k)) = k
        /\ SubSeq(pending, k + 1, Len(pending)) = SubSeq(o, g + k + 1, Len(o))
        /\ SubSeq(pending, k + 1, Len(pending)) \in Seq(Nat \X Nat)
    <2>1. PICK Bytes : Bytes = Nat \X Nat
      OBVIOUS
    <2>2. k \in 0 .. Len(o) - g
      BY <1>6
    <2>3. o \in Seq(Bytes)
      BY <1>2, <2>1
    <2>4. g \in 0 .. Len(o)
      BY <1>4
    <2>5. PICK p : p = pending /\ p = SubSeq(o, g + 1, Len(o))
      BY <1>4
    <2>6. /\ SubSeq(p, 1, k) = SubSeq(o, g + 1, g + k) /\ Len(SubSeq(p, 1, k)) = k
          /\ SubSeq(p, k + 1, Len(p)) = SubSeq(o, g + k + 1, Len(o))
          /\ SubSeq(p, k + 1, Len(p)) \in Seq(Bytes)
      BY <2>2, <2>3, <2>4, <2>5, CutRest
    <2> QED
      BY <2>1, <2>5, <2>6
  <1>8. /\ out'.data = SubSeq(pending, 1, k) /\ out'.status = 0 /\ upc' = "reply"
        /\ pending' = SubSeq(pending, k + 1, Len(pending))
        /\ UNCHANGED <<wire, urb, read, replies, obtained>>
    BY <1>0 DEF BulkIn, Answer, Reply
  <1>9. out'.data = DataFor(Current)
    BY <1>0, <1>1, <1>6, <1>7, <1>8 DEF DataFor
  <1>10. Len(out'.data) \in Nat /\ Len(out'.data) = k
    BY <1>6, <1>7, <1>8
  <1>11. Fits(urb, out')
    BY <1>1, <1>6, <1>8, <1>10 DEF Fits
  <1>12. Holds(Current, Leaving)'
    <2>1. Leaving' = k
      BY <1>1, <1>8, <1>10 DEF Leaving
    <2>2. Given(Current)' = g /\ Obtained(Current)' = o
      BY <1>0, <1>8 DEF Given, InsSince, OutsBefore, Obtained, Returned, Current
    <2>3. g + k <= Len(o)
      BY <1>2, <1>6
    <2>4. pending' = SubSeq(o, g + k + 1, Len(o))
      BY <1>7, <1>8
    <2> QED
      BY <2>1, <2>2, <2>3, <2>4 DEF Holds
  <1>13. pending' \in Seq(Nat \X Nat)
    BY <1>7, <1>8
  <1> QED
    BY <1>1, <1>8, <1>9, <1>10, <1>11, <1>12, <1>13, DataAnswer

\* What the next URB finds differs by the URB before it.
LEMMA NextUrb ==
  ASSUME NEW n \in Nat \ {0}
  PROVE  /\ read[n].kind = "out" =>
              /\ OutsBefore(n + 1) = OutsBefore(n) \cup {n} /\ n \notin OutsBefore(n)
              /\ InsSince(n + 1) = {}
         /\ read[n].kind # "out" => OutsBefore(n + 1) = OutsBefore(n)
         /\ read[n].kind = "in" => InsSince(n + 1) = InsSince(n) \cup {n}
         /\ read[n].kind \notin {"in", "out"} => InsSince(n + 1) = InsSince(n)
  <1>1. 1 .. (n + 1) - 1 = (1 .. n - 1) \cup {n} /\ n \notin 1 .. n - 1
    OBVIOUS
  <1>2. \A j \in 1 .. n : n \notin OutsBefore(j)
    BY DEF OutsBefore
  <1>3. ASSUME read[n].kind = "out"
        PROVE  /\ OutsBefore(n + 1) = OutsBefore(n) \cup {n} /\ n \notin OutsBefore(n)
               /\ InsSince(n + 1) = {}
    <2>1. OutsBefore(n + 1) = OutsBefore(n) \cup {n} /\ n \notin OutsBefore(n)
      BY <1>1, <1>2, <1>3 DEF OutsBefore
    <2>2. \A j \in 1 .. (n + 1) - 1 : OutsBefore(j) # OutsBefore(n + 1)
      BY <1>2, <2>1
    <2> QED
      BY <2>1, <2>2 DEF InsSince
  <1>4. ASSUME read[n].kind # "out"
        PROVE  /\ OutsBefore(n + 1) = OutsBefore(n)
               /\ read[n].kind = "in" => InsSince(n + 1) = InsSince(n) \cup {n}
               /\ read[n].kind # "in" => InsSince(n + 1) = InsSince(n)
    <2>1. OutsBefore(n + 1) = OutsBefore(n)
      BY <1>1, <1>4 DEF OutsBefore
    <2>2. read[n].kind = "in" => InsSince(n + 1) = InsSince(n) \cup {n}
      BY <1>1, <2>1 DEF InsSince
    <2>3. read[n].kind # "in" => InsSince(n + 1) = InsSince(n)
      BY <1>1, <2>1 DEF InsSince
    <2> QED
      BY <2>1, <2>2, <2>3
  <1> QED
    BY <1>3, <1>4

\* A reply is sent, and what is pending is what the next URB finds.
LEMMA DataSend ==
  ASSUME UsbipInv, DataInv, SendReply
  PROVE  DataInv'
  <1>0. PICK n : n = Current
    OBVIOUS
  <1>1. /\ n = Len(read) /\ n = Len(replies) + 1 /\ n \in Nat \ {0} /\ read[n] = urb
        /\ Len(obtained) \in Nat /\ Len(replies) \in Nat /\ Len(read) \in Nat
        /\ upc = "reply" /\ upc' = "urb"
        /\ UNCHANGED <<wire, urb, pending, out, read, obtained>>
    BY <1>0, Histories DEF Busy, SendReply, Current
  <1>2. /\ Len(replies') = n /\ replies'[n] = out
        /\ \A i \in 1 .. Len(replies) : replies'[i] = replies[i]
    <2>1. PICK S : replies \in Seq(S)
      BY DEF UsbipInv, Sequential
    <2> QED
      BY <1>1, <2>1, Appended DEF SendReply
  <1>3. Grown
    <2>1. Len(read) <= Len(read') /\ Len(obtained) <= Len(obtained')
      <3>1. read' = read /\ obtained' = obtained
        BY <1>1
      <3>2. Len(read) <= Len(read) /\ Len(obtained) <= Len(obtained)
        BY <1>1
      <3> QED
        BY <3>1, <3>2, Zenon
    <2>2. Len(replies) <= Len(replies')
      BY <1>1, <1>2
    <2> QED
      BY <1>1, <1>2, <2>1, <2>2, Zenon DEF Grown
  <1>4. /\ \A i \in 1 .. Len(replies) :
             /\ replies'[i].data = DataFor(i)'
             /\ Len(replies'[i].data) \in Nat
             /\ Fits(read'[i], replies'[i])
        /\ OutsBefore(n)' = OutsBefore(n) /\ InsSince(n)' = InsSince(n)
        /\ Given(n)' = Given(n) /\ Obtained(n)' = Obtained(n)
        /\ DataFor(n)' = DataFor(n)
    BY <1>0, <1>1, <1>3, RepliesKept
  <1>5. out.data = DataFor(n) /\ Len(out.data) \in Nat /\ Fits(urb, out)
    BY <1>0, <1>1 DEF DataInv
  <1>6. ASSUME NEW i \in 1 .. Len(replies')
        PROVE  /\ replies'[i].data = DataFor(i)'
               /\ Len(replies'[i].data) \in Nat
               /\ Fits(read'[i], replies'[i])
    <2>1. CASE i = n
      <3>1. replies'[i].data = DataFor(i)'
        BY <1>2, <1>4, <1>5, <2>1
      <3> QED
        BY <1>1, <1>2, <1>5, <2>1, <3>1
    <2>2. CASE i # n
      <3>1. i \in 1 .. Len(replies)
        BY <1>1, <1>2, <2>2
      <3> QED
        BY <1>4, <3>1
    <2> QED
      BY <2>1, <2>2
  <1>7. Current' = n + 1
    BY <1>2 DEF Current
  <1>8. OutsBefore(n + 1)' = OutsBefore(n + 1) /\ InsSince(n + 1)' = InsSince(n + 1)
    BY <1>1 DEF OutsBefore, InsSince
  <1>9. /\ IsFiniteSet(OutsBefore(n)) /\ Cardinality(OutsBefore(n)) \in Nat
        /\ Given(n) \in Nat
    BY <1>0, <1>1, OutsFinite, ObtainedType
  <1> DEFINE g == Given(n + 1)'
             o == Obtained(n + 1)'
  <1>10. /\ Cardinality(OutsBefore(n + 1)') = Len(obtained)
         /\ g \in Nat /\ g <= Len(o) /\ pending = SubSeq(o, g + 1, Len(o))
    <2>1. CASE urb.kind = "out"
      <3>1. /\ OutsBefore(n + 1) = OutsBefore(n) \cup {n} /\ n \notin OutsBefore(n)
            /\ InsSince(n + 1) = {}
        BY <1>1, <2>1, NextUrb
      <3>2. Cardinality(OutsBefore(n)) = Len(obtained) - 1 /\ pending = obtained[Len(obtained)]
        BY <1>0, <1>1, <2>1 DEF DataInv
      <3>3. Cardinality(OutsBefore(n + 1)) = Cardinality(OutsBefore(n)) + 1
        BY <1>9, <3>1, FS_AddElement
      <3>4. Cardinality(OutsBefore(n + 1)') = Len(obtained)
        BY <1>1, <1>8, <1>9, <3>2, <3>3
      <3>5. OutsBefore(n + 1)' # {}
        BY <1>8, <3>1
      <3>6. o = pending
        BY <1>1, <3>2, <3>4, <3>5 DEF Obtained
      <3>7. g = 0
        <4>1. Returned(InsSince(n + 1))' = {}
          BY <1>8, <3>1 DEF Returned
        <4> QED
          BY <4>1, FS_EmptySet DEF Given
      <3>8. pending \in Seq(Nat \X Nat)
        BY DEF DataInv
      <3>9. Len(pending) \in Nat /\ pending = SubSeq(pending, 1, Len(pending))
        BY <3>8
      <3> HIDE DEF g, o
      <3> QED
        BY <3>4, <3>6, <3>7, <3>9
    <2>2. CASE urb.kind # "out"
      <3>1. OutsBefore(n + 1) = OutsBefore(n)
        BY <1>1, <2>2, NextUrb
      <3>2. Cardinality(OutsBefore(n)) = Len(obtained) - 0 /\ Holds(n, Leaving)
        BY <1>0, <1>1, <2>2 DEF DataInv
      <3>3. Cardinality(OutsBefore(n + 1)') = Len(obtained)
        BY <1>1, <1>8, <3>1, <3>2
      <3>4. o = Obtained(n)
        BY <1>1, <1>8, <3>1 DEF Obtained
      <3>5. g = Given(n) + Leaving
        <4>1. /\ \A j \in InsSince(n) : j \in 1 .. n - 1 /\ replies'[j] = replies[j]
              /\ \A e \in Returned(InsSince(n)) : e[1] # n
          <5>1. InsSince(n) \subseteq 1 .. n - 1
            BY DEF InsSince
          <5>2. \A j \in InsSince(n) : j \in 1 .. Len(replies) /\ j # n
            BY <1>1, <5>1
          <5>3. \A e \in Returned(InsSince(n)) : e[1] \in InsSince(n)
            BY DEF Returned
          <5> QED
            BY <1>2, <5>1, <5>2, <5>3
        <4>2. CASE urb.kind = "in"
          <5>1. InsSince(n + 1) = InsSince(n) \cup {n} /\ Leaving = Len(out.data)
            BY <1>1, <4>2, NextUrb DEF Leaving
          <5>2. Returned(InsSince(n + 1))' = Returned(InsSince(n)) \cup ({n} \X (1 .. Len(out.data)))
            BY <1>2, <1>8, <4>1, <5>1 DEF Returned
          <5>3. IsFiniteSet(Returned(InsSince(n)))
            BY <1>0, <1>1, ObtainedType
          <5>4. Cardinality(Returned(InsSince(n)) \cup ({n} \X (1 .. Len(out.data))))
                  = Cardinality(Returned(InsSince(n))) + Len(out.data)
            BY <1>5, <4>1, <5>3, OneMoreLayer
          <5> QED
            BY <5>1, <5>2, <5>4 DEF Given
        <4>3. CASE urb.kind # "in"
          <5>1. InsSince(n + 1) = InsSince(n) /\ Leaving = 0
            BY <1>1, <2>2, <4>3, NextUrb DEF Leaving
          <5>2. Returned(InsSince(n + 1))' = Returned(InsSince(n))
            BY <1>8, <4>1, <5>1 DEF Returned
          <5>3. g = Given(n)
            BY <5>2 DEF Given
          <5> QED
            BY <1>9, <5>1, <5>3
        <4> QED
          BY <4>2, <4>3
      <3>6. Leaving \in Nat
        BY <1>5 DEF Leaving
      <3> HIDE DEF g, o
      <3> QED
        BY <1>9, <3>2, <3>3, <3>4, <3>5, <3>6 DEF Holds
    <2> QED
      BY <2>1, <2>2
  <1>11. /\ OutsBefore(Current)' = OutsBefore(n + 1)'
         /\ Given(Current)' = g /\ Obtained(Current)' = o
    BY <1>7 DEF Given, InsSince, OutsBefore, Obtained
  <1>12. Leaving' = 0 /\ g \in Nat
    <2>1. Leaving' = 0
      BY <1>1 DEF Leaving
    <2> QED
      BY <1>10, <2>1
  <1> HIDE DEF g, o
  <1>13. Holds(Current, Leaving)'
    BY <1>1, <1>10, <1>11, <1>12 DEF Holds
  <1>14. Cardinality(OutsBefore(Current)') = Len(obtained') - 0
    BY <1>1, <1>10, <1>11
  <1>15. upc' \in Open => \A i \in 1 .. Len(wire') : MessageOK(wire'[i])
    BY <1>1 DEF DataInv, Open, Busy
  <1>16. /\ \A i \in 1 .. Len(read') : MessageOK(read'[i])
         /\ obtained' \in Seq(Seq(Nat \X Nat)) /\ pending' \in Seq(Nat \X Nat)
    BY <1>1 DEF DataInv
  <1> QED
    BY <1>1, <1>6, <1>13, <1>14, <1>15, <1>16 DEF DataInv

\* A new session owes nothing.
LEMMA DataInit == Init => DataInv
  <1> SUFFICES ASSUME Init PROVE DataInv
    OBVIOUS
  <1>1. /\ wire = <<>> /\ read = <<>> /\ replies = <<>> /\ obtained = <<>> /\ pending = <<>>
        /\ upc = "op"
    BY DEF Init
  <1>2. /\ Len(read) = 0 /\ Len(replies) = 0 /\ Len(obtained) = 0
        /\ <<>> \in Seq(Seq(Nat \X Nat)) /\ <<>> \in Seq(Nat \X Nat)
    BY <1>1
  <1>3. Current = 1 /\ OutsBefore(1) = {} /\ InsSince(1) = {}
    BY <1>2 DEF Current, OutsBefore, InsSince
  <1>4. Cardinality(OutsBefore(Current)) = 0
    BY <1>3, FS_EmptySet
  <1>5. Holds(Current, Leaving)
    <2>1. Obtained(1) = <<>>
      BY <1>3 DEF Obtained
    <2>2. Given(1) = 0
      <3>1. Returned(InsSince(1)) = {}
        BY <1>3 DEF Returned
      <3> QED
        BY <3>1, FS_EmptySet DEF Given
    <2>3. Leaving = 0
      BY <1>1 DEF Leaving
    <2>4. 0 + 0 <= Len(<<>>) /\ <<>> = SubSeq(<<>>, 0 + 0 + 1, Len(<<>>))
      OBVIOUS
    <2> QED
      BY <1>1, <1>3, <2>1, <2>2, <2>3, <2>4 DEF Holds
  <1> QED
    BY <1>1, <1>2, <1>4, <1>5 DEF DataInv, Open, Busy

\* Every action keeps the data of the replies right.
LEMMA DataStep == UsbipInv /\ DataInv /\ [Next]_vars => DataInv'
  <1> SUFFICES ASSUME UsbipInv, DataInv, [Next]_vars PROVE DataInv'
    OBVIOUS
  <1>1. ASSUME NEW kind \in OpKinds, ClientOp(kind) PROVE DataInv'
    <2>1. upc = "op" /\ UNCHANGED <<upc, urb, pending, out, read, replies, obtained>>
      BY <1>1 DEF ClientOp
    <2> QED
      BY <2>1, NoHistory DEF DataInv, Holds, Leaving, Open, Busy
  <1>2. CASE ClientEnumerates
    <2>1. Submit(Control(submitted + 1, Enumeration(submitted + 1)))
      BY <1>2 DEF ClientEnumerates
    <2>2. MessageOK(Control(submitted + 1, Enumeration(submitted + 1)))
      BY <1>2, EnumerationLength DEF MessageOK, Control
    <2> QED
      BY <2>1, <2>2, DataSubmit
  <1>3. ASSUME NEW setup \in Setups, ClientControl(setup) PROVE DataInv'
    <2>1. MessageOK(Control(submitted + 1, setup))
      BY UsbipAssumption DEF MessageOK, Control
    <2> QED
      BY <1>3, <2>1, DataSubmit DEF ClientControl
  <1>4. ASSUME NEW kind \in {"badDirection", "badCommand", "out", "in", "unlink"},
               NEW len \in Nat, ClientUrb(kind, len)
        PROVE  DataInv'
    <2>1. submitted \in EnumUrbs .. EnumUrbs + MaxUrbs - 1
      BY <1>4 DEF ClientUrb, Ready
    <2>2. submitted \in Int /\ submitted >= EnumUrbs
      BY <2>1, UsbipAssumption DEF EnumUrbs
    <2>3. MessageOK(Urb(kind, submitted + 1, len))
      BY <2>2 DEF MessageOK, Urb, EnumUrbs
    <2> QED
      BY <1>4, <2>3, DataSubmit DEF ClientUrb
  <1>5. ASSUME NEW seq \in EnumUrbs + 1 .. EnumUrbs + MaxUrbs, ClientUrb("unlink", seq)
        PROVE  DataInv'
    <2>1. seq \in Nat
      BY UsbipAssumption DEF EnumUrbs
    <2> QED
      BY <1>4, <1>5, <2>1
  <1>6. CASE HandleOp
    <2>1. /\ upc = "op" /\ upc' \in {"op", "urb", "closed"}
          /\ UNCHANGED <<urb, pending, out, read, replies, obtained>>
          /\ wire # <<>> /\ wire' = Tail(wire)
      BY <1>6 DEF HandleOp
    <2>2. Len(wire') = 0
      <3>1. PICK S : wire \in Seq(S)
        BY DEF UsbipInv, Sequential
      <3>2. Len(wire) <= 1
        BY <2>1 DEF UsbipInv
      <3>3. Len(wire) \in Nat /\ Len(wire) # 0
        BY <2>1, <3>1
      <3>4. Len(wire) = 1
        BY <3>2, <3>3, OneAtMost
      <3> QED
        BY <2>1, <3>1, <3>4
    <2>3. Leaving' = Leaving
      BY <2>1 DEF Leaving
    <2>4. /\ upc' \in {"op", "urb", "handle"} => Holds(Current, Leaving)'
          /\ Cardinality(OutsBefore(Current)') = Len(obtained') - 0
      <3>1. Holds(Current, Leaving) /\ Cardinality(OutsBefore(Current)) = Len(obtained) - 0
        BY <2>1 DEF DataInv
      <3>2. Current' = Current
        BY <2>1 DEF Current
      <3>3. /\ Given(Current)' = Given(Current) /\ Obtained(Current)' = Obtained(Current)
            /\ OutsBefore(Current)' = OutsBefore(Current)
        BY <2>1 DEF Given, InsSince, OutsBefore, Obtained, Returned, Current
      <3> QED
        BY <2>1, <2>3, <3>1, <3>3 DEF Holds
    <2>5. /\ upc' \in Open => \A i \in 1 .. Len(wire') : MessageOK(wire'[i])
          /\ \A i \in 1 .. Len(read') : MessageOK(read'[i])
          /\ obtained' \in Seq(Seq(Nat \X Nat)) /\ pending' \in Seq(Nat \X Nat)
          /\ \A i \in 1 .. Len(replies') :
               /\ replies'[i].data = DataFor(i)'
               /\ Len(replies'[i].data) \in Nat
               /\ Fits(read'[i], replies'[i])
      <3>1. \A i \in 1 .. Len(wire') : MessageOK(wire'[i])
        BY <2>2
      <3>2. \A i \in 1 .. Len(replies') : replies'[i].data = DataFor(i)'
        BY <2>1, NoHistory DEF DataInv
      <3>3. \A i \in 1 .. Len(replies') : Len(replies'[i].data) \in Nat /\ Fits(read'[i], replies'[i])
        BY <2>1 DEF DataInv
      <3>4. /\ \A i \in 1 .. Len(read') : MessageOK(read'[i])
            /\ obtained' \in Seq(Seq(Nat \X Nat)) /\ pending' \in Seq(Nat \X Nat)
        BY <2>1 DEF DataInv
      <3> QED
        BY <3>1, <3>2, <3>3, <3>4
    <2> QED
      BY <2>1, <2>4, <2>5 DEF DataInv
  <1>7. CASE SessionEnds
    <2>1. upc' = "closed" /\ UNCHANGED <<wire, urb, pending, out, read, replies, obtained>>
      BY <1>7 DEF SessionEnds
    <2> QED
      BY <2>1, NoHistory DEF DataInv, Open, Busy
  <1>8. CASE ClientCloses \/ Done \/ UNCHANGED vars
    <2>1. UNCHANGED <<upc, wire, urb, pending, out, read, replies, obtained>>
      BY <1>8 DEF ClientCloses, Done, vars
    <2> QED
      BY <2>1, NoHistory DEF DataInv, Holds, Leaving
  <1>9. CASE ReadUrb
    BY <1>9, DataRead
  <1>10. ASSUME NEW n \in ResponseLens, LinkOk(n) PROVE DataInv'
    <2>1. n \in Nat /\ Len(obtained) \in Nat
      BY UsbipAssumption, Histories
    <2>2. Response(Len(obtained) + 1, n) \in Seq(Nat \X Nat)
      BY <2>1 DEF Response
    <2>3. out'.data = <<>> /\ upc' = "reply"
      BY <1>10 DEF LinkOk, Answer, Reply
    <2> QED
      BY <1>10, <2>2, <2>3, DataForward DEF LinkOk
  <1>11. CASE LinkErr
    <2>1. out'.data = <<>> /\ upc' = "reply" /\ pending' = <<>>
      BY <1>11 DEF LinkErr, Answer, Reply, DataInv
    <2>2. <<>> \in Seq(Nat \X Nat)
      OBVIOUS
    <2> QED
      BY <1>11, <2>1, <2>2, DataForward DEF LinkErr
  <1>12. CASE BulkIn
    BY <1>12, DataIn
  <1>13. CASE ControlUrb
    <2>1. /\ out'.data = Ep0Control(urb.setup).data /\ out'.status = Ep0Control(urb.setup).status
          /\ upc' = "reply" /\ upc = "handle" /\ urb.kind = "ep0"
          /\ UNCHANGED <<wire, urb, read, replies, obtained, pending>>
      BY <1>13 DEF ControlUrb, Answer, Reply
    <2> QED
      BY <2>1, DataOther
  <1>14. CASE BadDirection \/ Unlink
    <2>1. /\ out'.data = <<>> /\ upc' = "reply" /\ upc = "handle" /\ urb.kind \in {"badDirection", "unlink"}
          /\ UNCHANGED <<wire, urb, read, replies, obtained, pending>>
      BY <1>14 DEF BadDirection, Unlink, Answer, Reply
    <2> QED
      BY <2>1, DataOther
  <1>15. CASE SendReply
    BY <1>15, DataSend
  <1>16. ASSUME NEW kind \in {"badDirection", "badCommand"}, ClientUrb(kind, 0) PROVE DataInv'
    BY <1>4, <1>16
  <1>17. ASSUME NEW len \in OutLens, ClientUrb("out", len) PROVE DataInv'
    BY <1>4, <1>17, UsbipAssumption
  <1>18. ASSUME NEW len \in InLens, ClientUrb("in", len) PROVE DataInv'
    BY <1>4, <1>18, UsbipAssumption
  <1> QED
    BY <1>1, <1>2, <1>3, <1>5, <1>6, <1>7, <1>8, <1>9, <1>10, <1>11, <1>12, <1>13, <1>14, <1>15,
       <1>16, <1>17, <1>18 DEF Next, Client, Session

\* Numbering and data together are invariant.
LEMMA DataInvariant == Spec => [](UsbipInv /\ DataInv)
  BY UsbipInit, UsbipStep, DataInit, DataStep, PTL DEF Spec

\* Every IN returns the response of the OUT before it, from where the one
\* before stopped, whatever the lengths and the link's outcomes.
THEOREM UsbipReturnsLatestResponse == Spec => []InReturnsLatestResponse
  <1>1. UsbipInv /\ DataInv => InReturnsLatestResponse
    BY Histories DEF DataInv, InReturnsLatestResponse
  <1> QED
    BY <1>1, DataInvariant, PTL

\* No reply overruns the buffer of its request, and only a request for data
\* gets some.
THEOREM UsbipAnswersFit == Spec => []AnswerFits
  <1>1. UsbipInv /\ DataInv => AnswerFits
    BY Histories DEF DataInv, AnswerFits
  <1> QED
    BY <1>1, DataInvariant, PTL

-----------------------------------------------------------------------------
\* The counters depend on the replies sent and the URBs they answer.
LEMMA CountHistory ==
  ASSUME UsbipInv, DataInv, replies' = replies,
         \A i \in 1 .. Len(replies) : read'[i] = read[i]
  PROVE  /\ OutsDone' = OutsDone /\ Forwarded(OutsDone)' = Forwarded(OutsDone)
         /\ InsDone' = InsDone /\ Returned(InsDone)' = Returned(InsDone)
  <1>1. \A i \in DOMAIN replies : read'[i] = read[i]
    BY Histories
  <1>2. OutsDone' = OutsDone /\ InsDone' = InsDone
    BY <1>1 DEF OutsDone, InsDone
  <1>3. \A i \in OutsDone : read'[i] = read[i]
    BY <1>1 DEF OutsDone
  <1>4. Forwarded(OutsDone)' = Forwarded(OutsDone)
    BY <1>2, <1>3 DEF Forwarded
  <1>5. Returned(InsDone)' = Returned(InsDone)
    BY <1>2 DEF Returned
  <1> QED
    BY <1>2, <1>4, <1>5

\* A step that sends no reply and counts nothing.
LEMMA CountKept ==
  ASSUME UsbipInv, DataInv, CountInv, replies' = replies, UNCHANGED counters,
         \A i \in 1 .. Len(replies) : read'[i] = read[i],
         upc # "closed", ~Succeeding, ~Succeeding', Leaving = 0, Leaving' = 0,
         ~(upc = "reply" /\ urb.kind = "in"), ~(upc' = "reply" /\ urb'.kind = "in")
  PROVE  CountInv'
  <1>1. /\ OutsDone' = OutsDone /\ Forwarded(OutsDone)' = Forwarded(OutsDone)
        /\ InsDone' = InsDone /\ Returned(InsDone)' = Returned(InsDone)
    BY CountHistory
  <1>2. UNCHANGED <<EP1_OUT_FRAMES, EP1_OUT_BYTES, EP1_IN_FRAMES, EP1_IN_BYTES>>
    BY DEF counters
  <1> QED
    BY <1>1, <1>2, Zenon DEF CountInv

\* What is counted is finite.
LEMMA CountFinite ==
  ASSUME UsbipInv, DataInv
  PROVE  /\ IsFiniteSet(OutsDone) /\ Cardinality(OutsDone) \in Nat
         /\ IsFiniteSet(InsDone) /\ Cardinality(InsDone) \in Nat
         /\ IsFiniteSet(Forwarded(OutsDone)) /\ Cardinality(Forwarded(OutsDone)) \in Nat
         /\ IsFiniteSet(Returned(InsDone)) /\ Cardinality(Returned(InsDone)) \in Nat
  <1>1. OutsDone \in SUBSET (1 .. Len(replies)) /\ InsDone \in SUBSET (1 .. Len(replies))
    BY Histories DEF OutsDone, InsDone
  <1>2. IsFiniteSet(1 .. Len(replies))
    BY Histories, FS_Interval
  <1>3. IsFiniteSet(OutsDone) /\ IsFiniteSet(InsDone)
    BY <1>1, <1>2, FS_Subset
  <1>4. IsFiniteSet(Forwarded(OutsDone)) /\ Cardinality(Forwarded(OutsDone)) \in Nat
    <2> DEFINE f == [j \in OutsDone |-> read[j].len]
    <2>1. \A j \in OutsDone : f[j] \in Nat
      <3>1. OutsDone \subseteq 1 .. Len(read)
        BY <1>1, Histories
      <3> QED
        BY <3>1 DEF DataInv, MessageOK
    <2>2. \A e \in Forwarded(OutsDone) : \E j \in OutsDone : e \in {j} \X (1 .. f[j])
      BY DEF Forwarded
    <2> HIDE DEF f
    <2> QED
      BY <1>3, <2>1, <2>2, FiniteLayers
  <1>5. IsFiniteSet(Returned(InsDone)) /\ Cardinality(Returned(InsDone)) \in Nat
    BY <1>1, ReturnedFinite
  <1> QED
    BY <1>3, <1>4, <1>5, FS_CardinalityType

\* The reply that was counted beforehand is sent.
LEMMA CountSend ==
  ASSUME UsbipInv, DataInv, CountInv, SendReply
  PROVE  CountInv'
  <1>0. PICK n : n = Current
    OBVIOUS
  <1>1. /\ n = Len(replies) + 1 /\ n \in Nat /\ read[n] = urb /\ urb.len \in Nat
        /\ Len(replies) \in Nat /\ upc = "reply" /\ upc' = "urb" /\ read' = read
        /\ DOMAIN replies = 1 .. Len(replies) /\ Len(out.data) \in Nat
    BY <1>0, Histories DEF Busy, SendReply, Current, MessageOK, DataInv
  <1>2. /\ replies'[n] = out /\ DOMAIN replies' = (1 .. Len(replies)) \cup {n}
        /\ n \notin 1 .. Len(replies)
        /\ \A i \in 1 .. Len(replies) : replies'[i] = replies[i]
    <2>1. PICK S : replies \in Seq(S)
      BY DEF UsbipInv, Sequential
    <2>2. /\ replies' \in Seq(S \cup {out}) /\ Len(replies') = n /\ replies'[n] = out
          /\ \A i \in 1 .. Len(replies) : replies'[i] = replies[i]
      BY <1>1, <2>1, Appended DEF SendReply
    <2>3. DOMAIN replies' = 1 .. n
      BY <2>2
    <2> QED
      BY <1>1, <2>2, <2>3
  <1>3. /\ UNCHANGED <<EP1_OUT_FRAMES, EP1_OUT_BYTES, EP1_IN_FRAMES, EP1_IN_BYTES>>
        /\ ~Succeeding' /\ Leaving' = 0 /\ ~(upc' = "reply")
    BY <1>1 DEF SendReply, counters, Succeeding, Leaving
  <1>4. Succeeding <=> urb.kind = "out" /\ out.status = 0
    BY <1>1 DEF Succeeding
  <1>5. OutsDone' = IF Succeeding THEN OutsDone \cup {n} ELSE OutsDone
    BY <1>1, <1>2, <1>4 DEF OutsDone
  <1>6. InsDone' = IF urb.kind = "in" THEN InsDone \cup {n} ELSE InsDone
    BY <1>1, <1>2 DEF InsDone
  <1>7. /\ OutsDone \subseteq 1 .. Len(replies) /\ InsDone \subseteq 1 .. Len(replies)
        /\ n \notin OutsDone /\ n \notin InsDone
    BY <1>1, <1>2 DEF OutsDone, InsDone
  <1>8. /\ Cardinality(OutsDone') = Cardinality(OutsDone) + (IF Succeeding THEN 1 ELSE 0)
        /\ Cardinality(InsDone') = Cardinality(InsDone) + (IF urb.kind = "in" THEN 1 ELSE 0)
    <2>1. /\ Cardinality(OutsDone \cup {n}) = Cardinality(OutsDone) + 1
          /\ Cardinality(InsDone \cup {n}) = Cardinality(InsDone) + 1
      BY <1>7, CountFinite, FS_AddElement
    <2>2. /\ Cardinality(OutsDone) = Cardinality(OutsDone) + 0
          /\ Cardinality(InsDone) = Cardinality(InsDone) + 0
      BY CountFinite
    <2> QED
      BY <1>5, <1>6, <2>1, <2>2
  <1>9. Cardinality(Forwarded(OutsDone)')
          = Cardinality(Forwarded(OutsDone)) + (IF Succeeding THEN urb.len ELSE 0)
    <2>1. CASE Succeeding
      <3>1. Forwarded(OutsDone)' = Forwarded(OutsDone) \cup ({n} \X (1 .. urb.len))
        <4>1. OutsDone' = OutsDone \cup {n}
          BY <1>5, <2>1
        <4> QED
          BY <1>1, <4>1 DEF Forwarded
      <3>2. \A e \in Forwarded(OutsDone) : e[1] # n
        BY <1>7 DEF Forwarded
      <3> QED
        <4>1. IsFiniteSet(Forwarded(OutsDone)) /\ urb.len \in Nat
          BY <1>1, CountFinite
        <4>2. Cardinality(Forwarded(OutsDone) \cup ({n} \X (1 .. urb.len)))
                = Cardinality(Forwarded(OutsDone)) + urb.len
          BY <3>2, <4>1, OneMoreLayer
        <4> QED
          BY <2>1, <3>1, <4>2
    <2>2. CASE ~Succeeding
      <3>1. Forwarded(OutsDone)' = Forwarded(OutsDone)
        BY <1>1, <1>5, <2>2 DEF Forwarded
      <3> QED
        BY <2>2, <3>1, CountFinite
    <2> QED
      BY <2>1, <2>2
  <1>10. Cardinality(Returned(InsDone)') = Cardinality(Returned(InsDone)) + Leaving
    <2>1. \A j \in InsDone : replies'[j] = replies[j]
      BY <1>2, <1>7
    <2>2. CASE urb.kind = "in"
      <3>1. Returned(InsDone)' = Returned(InsDone) \cup ({n} \X (1 .. Len(out.data)))
        <4>1. InsDone' = InsDone \cup {n}
          BY <1>6, <2>2
        <4> QED
          BY <1>2, <2>1, <4>1 DEF Returned
      <3>2. \A e \in Returned(InsDone) : e[1] # n
        BY <1>7 DEF Returned
      <3>3. Leaving = Len(out.data)
        BY <1>1, <2>2 DEF Leaving
      <3> QED
        <4>1. IsFiniteSet(Returned(InsDone)) /\ Len(out.data) \in Nat
          BY <1>1, CountFinite
        <4>2. Cardinality(Returned(InsDone) \cup ({n} \X (1 .. Len(out.data))))
                = Cardinality(Returned(InsDone)) + Len(out.data)
          BY <3>2, <4>1, OneMoreLayer
        <4> QED
          BY <3>1, <3>3, <4>2
    <2>3. CASE urb.kind # "in"
      <3>1. Returned(InsDone)' = Returned(InsDone)
        <4>1. InsDone' = InsDone
          BY <1>6, <2>3
        <4> QED
          BY <2>1, <4>1 DEF Returned
      <3>2. Leaving = 0
        BY <2>3 DEF Leaving
      <3> QED
        BY <3>1, <3>2, CountFinite
    <2> QED
      BY <2>2, <2>3
  <1>11. /\ EP1_OUT_FRAMES = Cardinality(OutsDone) + (IF Succeeding THEN 1 ELSE 0)
         /\ EP1_OUT_BYTES = Cardinality(Forwarded(OutsDone)) + (IF Succeeding THEN urb.len ELSE 0)
         /\ EP1_IN_FRAMES = Cardinality(InsDone) + (IF urb.kind = "in" THEN 1 ELSE 0)
         /\ EP1_IN_BYTES = Cardinality(Returned(InsDone)) + Leaving
    BY <1>1 DEF CountInv
  <1>12. /\ EP1_OUT_FRAMES' = Cardinality(OutsDone') + 0
         /\ EP1_OUT_BYTES' = Cardinality(Forwarded(OutsDone)') + 0
         /\ EP1_IN_FRAMES' = Cardinality(InsDone') + 0
         /\ EP1_IN_BYTES' = Cardinality(Returned(InsDone)') + 0
    <2>1. /\ EP1_OUT_FRAMES' = Cardinality(OutsDone')
          /\ EP1_OUT_BYTES' = Cardinality(Forwarded(OutsDone)')
          /\ EP1_IN_FRAMES' = Cardinality(InsDone')
          /\ EP1_IN_BYTES' = Cardinality(Returned(InsDone)')
      BY <1>3, <1>8, <1>9, <1>10, <1>11, Zenon
    <2>2. /\ Cardinality(OutsDone') \in Nat /\ Cardinality(Forwarded(OutsDone)') \in Nat
          /\ Cardinality(InsDone') \in Nat /\ Cardinality(Returned(InsDone)') \in Nat
      <3>1. Leaving \in Nat
        BY <1>1 DEF Leaving
      <3>2. /\ Cardinality(OutsDone) \in Nat /\ Cardinality(Forwarded(OutsDone)) \in Nat
            /\ Cardinality(InsDone) \in Nat /\ Cardinality(Returned(InsDone)) \in Nat
        BY CountFinite
      <3>3. Cardinality(OutsDone') \in Nat /\ Cardinality(InsDone') \in Nat
        BY <1>8, <3>2
      <3>4. Cardinality(Forwarded(OutsDone)') \in Nat
        BY <1>1, <1>9, <3>2
      <3>5. Cardinality(Returned(InsDone)') \in Nat
        BY <1>10, <3>1, <3>2
      <3> QED
        BY <3>3, <3>4, <3>5
    <2> QED
      BY <2>1, <2>2
  <1> QED
    BY <1>3, <1>12 DEF CountInv

\* The URB in hand is answered; an OUT that went well and the bytes an IN takes
\* are counted at once.
LEMMA CountAnswer ==
  ASSUME UsbipInv, DataInv, CountInv, upc \in {"handle", "forward"}, upc' = "reply",
         UNCHANGED <<urb, read, replies>>,
         EP1_OUT_FRAMES' = IF Succeeding' THEN EP1_OUT_FRAMES + 1 ELSE EP1_OUT_FRAMES,
         EP1_OUT_BYTES' = IF Succeeding' THEN EP1_OUT_BYTES + urb.len ELSE EP1_OUT_BYTES,
         EP1_IN_FRAMES' = IF urb.kind = "in" THEN EP1_IN_FRAMES + 1 ELSE EP1_IN_FRAMES,
         EP1_IN_BYTES' = IF urb.kind = "in" THEN EP1_IN_BYTES + Len(out'.data) ELSE EP1_IN_BYTES
  PROVE  CountInv'
  <1>1. /\ OutsDone' = OutsDone /\ Forwarded(OutsDone)' = Forwarded(OutsDone)
        /\ InsDone' = InsDone /\ Returned(InsDone)' = Returned(InsDone)
    BY CountHistory
  <1>2. ~Succeeding /\ Leaving = 0 /\ ~(upc = "reply")
    BY DEF Succeeding, Leaving
  <1>3. Leaving' = IF urb.kind = "in" THEN Len(out'.data) ELSE 0
    BY DEF Leaving
  <1>4. /\ EP1_OUT_FRAMES = Cardinality(OutsDone) + 0
        /\ EP1_OUT_BYTES = Cardinality(Forwarded(OutsDone)) + 0
        /\ EP1_IN_FRAMES = Cardinality(InsDone) + 0
        /\ EP1_IN_BYTES = Cardinality(Returned(InsDone)) + 0
    BY <1>2 DEF CountInv
  <1>5. /\ EP1_OUT_FRAMES = Cardinality(OutsDone) /\ EP1_OUT_BYTES = Cardinality(Forwarded(OutsDone))
        /\ EP1_IN_FRAMES = Cardinality(InsDone) /\ EP1_IN_BYTES = Cardinality(Returned(InsDone))
    BY <1>4, CountFinite
  <1>6. /\ EP1_OUT_FRAMES' = Cardinality(OutsDone') + (IF Succeeding' THEN 1 ELSE 0)
        /\ EP1_OUT_BYTES' = Cardinality(Forwarded(OutsDone)') + (IF Succeeding' THEN urb.len ELSE 0)
    <2>1. CASE Succeeding'
      BY <1>1, <1>5, <2>1
    <2>2. CASE ~Succeeding'
      <3>1. EP1_OUT_FRAMES' = EP1_OUT_FRAMES /\ EP1_OUT_BYTES' = EP1_OUT_BYTES
        BY <2>2
      <3> QED
        BY <1>1, <1>4, <2>2, <3>1
    <2> QED
      BY <2>1, <2>2
  <1>7. /\ EP1_IN_FRAMES' = Cardinality(InsDone') + (IF urb.kind = "in" THEN 1 ELSE 0)
        /\ EP1_IN_BYTES' = Cardinality(Returned(InsDone)') + Leaving'
    <2>1. CASE urb.kind = "in"
      BY <1>1, <1>3, <1>5, <2>1
    <2>2. CASE urb.kind # "in"
      <3>1. EP1_IN_FRAMES' = EP1_IN_FRAMES /\ EP1_IN_BYTES' = EP1_IN_BYTES /\ Leaving' = 0
        BY <1>3, <2>2
      <3> QED
        BY <1>1, <1>4, <2>2, <3>1
    <2> QED
      BY <2>1, <2>2
  <1> QED
    BY <1>6, <1>7 DEF CountInv

\* A new session has counted nothing.
LEMMA CountInit == Init => CountInv
  <1> SUFFICES ASSUME Init PROVE CountInv
    OBVIOUS
  <1>1. DOMAIN replies = {} /\ upc = "op"
    BY DEF Init
  <1>2. OutsDone = {} /\ InsDone = {}
    BY <1>1 DEF OutsDone, InsDone
  <1>3. Forwarded(OutsDone) = {} /\ Returned(InsDone) = {}
    BY <1>2 DEF Forwarded, Returned
  <1>4. Cardinality({}) = 0
    BY FS_EmptySet
  <1>5. ~Succeeding /\ Leaving = 0 /\ ~(upc = "reply")
    BY <1>1 DEF Succeeding, Leaving
  <1>6. EP1_OUT_FRAMES = 0 /\ EP1_OUT_BYTES = 0 /\ EP1_IN_FRAMES = 0 /\ EP1_IN_BYTES = 0
    BY DEF Init
  <1> QED
    BY <1>2, <1>3, <1>4, <1>5, <1>6 DEF CountInv

\* Every action keeps the counters.
LEMMA CountStep == UsbipInv /\ DataInv /\ CountInv /\ [Next]_vars => CountInv'
  <1> SUFFICES ASSUME UsbipInv, DataInv, CountInv, [Next]_vars PROVE CountInv'
    OBVIOUS
  <1>1. CASE UNCHANGED <<upc, urb, out, read, replies, counters>>
    <2>1. /\ OutsDone' = OutsDone /\ Forwarded(OutsDone)' = Forwarded(OutsDone)
          /\ InsDone' = InsDone /\ Returned(InsDone)' = Returned(InsDone)
      BY <1>1, CountHistory
    <2>2. /\ UNCHANGED <<EP1_OUT_FRAMES, EP1_OUT_BYTES, EP1_IN_FRAMES, EP1_IN_BYTES>>
          /\ Succeeding' = Succeeding /\ Leaving' = Leaving /\ upc' = upc /\ urb' = urb
      BY <1>1 DEF counters, Succeeding, Leaving
    <2> QED
      BY <2>1, <2>2, Zenon DEF CountInv
  <1>2. ASSUME NEW m, Submit(m) PROVE CountInv'
    BY <1>1, <1>2 DEF Submit
  <1>3. CASE Client
    <2>1. ASSUME NEW kind \in OpKinds, ClientOp(kind) PROVE CountInv'
      BY <1>1, <2>1 DEF ClientOp
    <2>2. CASE ClientCloses
      BY <1>1, <2>2 DEF ClientCloses
    <2> QED
      BY <1>2, <1>3, <2>1, <2>2 DEF Client, ClientEnumerates, ClientControl, ClientUrb
  <1>4. CASE HandleOp
    <2>1. /\ upc = "op" /\ upc' \in {"op", "urb", "closed"} /\ replies' = replies /\ read' = read
          /\ UNCHANGED <<EP1_OUT_FRAMES, EP1_OUT_BYTES, EP1_IN_FRAMES, EP1_IN_BYTES>>
      BY <1>4 DEF HandleOp
    <2>2. /\ ~Succeeding /\ ~Succeeding' /\ Leaving = 0 /\ Leaving' = 0
          /\ ~(upc = "reply") /\ ~(upc' = "reply") /\ upc # "closed"
      BY <2>1 DEF Succeeding, Leaving
    <2>3. /\ OutsDone' = OutsDone /\ Forwarded(OutsDone)' = Forwarded(OutsDone)
          /\ InsDone' = InsDone /\ Returned(InsDone)' = Returned(InsDone)
      BY <2>1, CountHistory
    <2> QED
      BY <2>1, <2>2, <2>3, Zenon DEF CountInv
  <1>5. CASE SessionEnds
    BY <1>5 DEF SessionEnds, CountInv
  <1>6. CASE ReadUrb
    <2>1. /\ upc = "urb" /\ upc' \in {"forward", "closed", "handle"} /\ replies' = replies
          /\ UNCHANGED counters
      BY <1>6 DEF ReadUrb
    <2>2. \A i \in 1 .. Len(replies) : read'[i] = read[i]
      <3>1. PICK S : wire \in Seq(S) /\ read \in Seq(S)
        BY DEF UsbipInv, Sequential
      <3>2. \A i \in 1 .. Len(read) : read'[i] = read[i]
        BY <1>6, <3>1, Appended DEF ReadUrb
      <3>3. \A i \in 1 .. Len(replies) : i \in 1 .. Len(read)
        BY Histories
      <3> QED
        BY <3>2, <3>3
    <2>3. /\ ~Succeeding /\ ~Succeeding' /\ Leaving = 0 /\ Leaving' = 0 /\ upc # "closed"
          /\ ~(upc = "reply" /\ urb.kind = "in") /\ ~(upc' = "reply" /\ urb'.kind = "in")
      BY <2>1 DEF Succeeding, Leaving
    <2> QED
      BY <2>1, <2>2, <2>3, CountKept
  <1>7. ASSUME NEW n \in ResponseLens, LinkOk(n) PROVE CountInv'
    <2>1. urb.kind = "out" /\ upc = "forward"
      BY <1>7 DEF UsbipInv, LinkOk
    <2>2. Succeeding' /\ upc' = "reply"
      BY <1>7, <2>1 DEF LinkOk, Answer, Reply, Succeeding
    <2> QED
      BY <1>7, <2>1, <2>2, CountAnswer DEF LinkOk
  <1>8. CASE LinkErr
    <2>1. urb.kind = "out" /\ upc = "forward"
      BY <1>8 DEF UsbipInv, LinkErr
    <2>2. ~Succeeding' /\ upc' = "reply"
      BY <1>8, <2>1 DEF LinkErr, Answer, Reply, Succeeding, EIO
    <2> QED
      BY <1>8, <2>1, <2>2, CountAnswer DEF LinkErr, counters
  <1>9. CASE BulkIn
    <2>1. PICK k : /\ k = Lesser(Len(pending), urb.len)
                   /\ EP1_IN_BYTES' = EP1_IN_BYTES + k
                   /\ Answer(Reply("submit", urb.seq, 0, SubSeq(pending, 1, k)))
      BY <1>9 DEF BulkIn
    <2>2. Len(out'.data) = k
      <3>1. out'.data = SubSeq(pending, 1, k)
        BY <2>1 DEF Answer, Reply
      <3>2. upc \in Busy /\ pending \in Seq(Nat \X Nat)
        BY <1>9 DEF BulkIn, Busy, DataInv
      <3>3. urb.len \in Nat
        BY <3>2, Histories DEF MessageOK
      <3>4. k \in 0 .. Len(pending)
        BY <2>1, <3>2, <3>3 DEF Lesser
      <3> QED
        BY <3>1, <3>2, <3>4
    <2>3. urb.kind = "in" /\ upc = "handle" /\ upc' = "reply" /\ urb' = urb
      BY <1>9 DEF BulkIn, Answer
    <2>4. ~Succeeding'
      BY <2>3 DEF Succeeding
    <2> QED
      BY <1>9, <2>1, <2>2, <2>3, <2>4, CountAnswer DEF BulkIn
  <1>10. CASE ControlUrb \/ BadDirection \/ Unlink
    <2>1. /\ upc = "handle" /\ upc' = "reply" /\ urb.kind \in {"ep0", "badDirection", "unlink"}
          /\ UNCHANGED <<urb, read, replies, EP1_OUT_FRAMES, EP1_OUT_BYTES, EP1_IN_FRAMES, EP1_IN_BYTES>>
      BY <1>10 DEF ControlUrb, BadDirection, Unlink, Answer, counters
    <2>2. ~Succeeding'
      BY <2>1 DEF Succeeding
    <2> QED
      BY <2>1, <2>2, CountAnswer
  <1>11. CASE SendReply
    BY <1>11, CountSend
  <1>12. CASE Done \/ UNCHANGED vars
    BY <1>1, <1>12 DEF Done, vars
  <1> QED
    BY <1>3, <1>4, <1>5, <1>6, <1>7, <1>8, <1>9, <1>10, <1>11, <1>12 DEF Next, Session

\* Between two URBs the endpoint counters say what the replies do.
THEOREM UsbipCountersMatch == Spec => []CountersMatchReplies
  <1>1. UsbipInv /\ DataInv /\ CountInv => CountersMatchReplies
    <2> SUFFICES ASSUME UsbipInv, DataInv, CountInv, upc = "urb" PROVE CountersMatchReplies
      BY DEF CountersMatchReplies
    <2>1. ~Succeeding /\ Leaving = 0 /\ ~(upc = "reply")
      BY DEF Succeeding, Leaving
    <2>2. /\ EP1_OUT_FRAMES = Cardinality(OutsDone) + 0
          /\ EP1_OUT_BYTES = Cardinality(Forwarded(OutsDone)) + 0
          /\ EP1_IN_FRAMES = Cardinality(InsDone) + 0
          /\ EP1_IN_BYTES = Cardinality(Returned(InsDone)) + 0
      BY <2>1 DEF CountInv
    <2> QED
      BY <2>2, CountFinite DEF CountersMatchReplies
  <1> QED
    BY <1>1, UsbipInit, UsbipStep, DataInit, DataStep, CountInit, CountStep, PTL DEF Spec
=============================================================================
