----------------------------- MODULE LinkProofs -----------------------------
(***************************************************************************)
(* What the link keeps whatever happens to its connections, for any number *)
(* of sessions, requests, buffer sizes and chunks, with cuts at every byte *)
(* and hosts that vanish.                                                  *)
(***************************************************************************)
EXTENDS LinkSystem, FrameProofs, FiniteSetTheorems

\* What handle() may answer: something, and not more than the host takes.
Answers == {r \in Seq(Byte) : r # <<>> /\ Len(r) <= MAX_FRAME}
AnswersFit == \A f \in Seq(Byte) : Responses(f) \subseteq Answers

-----------------------------------------------------------------------------
\* The connection: at most one host end is live, and it is the firmware's peer.
Connected ==
  /\ listening => peer = Nobody /\ tpc = "accept"
  /\ tpc \notin {"accept", "finish"} => peer # Nobody
  /\ \A h \in Sessions : Live(h) => peer = h
  /\ \A h \in Sessions : stream[h] = "none" => inbox[h] = <<>>
  /\ chunk # <<>> <=> tpc = "feed"
  /\ tpc \in {"sendHead", "sendBody"} => resp \in Answers
  /\ deframer.state = "Payload" => deframer.left > 0

\* A busy session is at its last request.
AtLastRequest ==
  \A h \in Sessions :
    /\ \A i \in 1 .. Len(asked[h]) : Len(asked[h][i]) <= MAX_FRAME
    /\ Busy(h) => asked[h] # <<>> /\ payload[h] = asked[h][Len(asked[h])]
    /\ lpc[h] = "payload" => need[h] <= MAX_FRAME

-----------------------------------------------------------------------------
\* What the host has of the stream, with the header it has already taken.
ViewOf(pc, len, in) ==
  CASE pc = "len" -> <<FRAME_MAGIC>> \o in
    [] pc = "payload" -> FrameHead(len) \o in
    [] OTHER -> in

View(h) == ViewOf(lpc[h], need[h], inbox[h])

\* The length the header at place p of s announces.
LenAt(s, p) == AnnouncedLen(s[p + 1], s[p + 2])

\* s is a sequence of frames that start at the places P, the last one perhaps
\* not all there.
Framed(s, P) ==
  /\ P \subseteq Nat \ {0} /\ 1 \in P
  /\ \A p \in P : p <= Len(s) =>
       /\ s[p] = FRAME_MAGIC
       /\ p + 2 <= Len(s) => LenAt(s, p) <= MAX_FRAME /\ p + 3 + LenAt(s, p) \in P

\* The last frame of s is k bytes short, and a header at least is there.
Open(s, P, k) ==
  /\ Len(s) + 1 + k \in P
  /\ \A p \in P : p + 2 <= Len(s) \/ p = Len(s) + 1 + k

\* What the firmware has still to send of the frame it is sending.
Unsent == IF tpc = "sendBody" THEN Len(resp) ELSE 0

\* The host has frames of the firmware only, whole but for the last one.
FramesOf(h) ==
  \E P : Framed(View(h), P) /\ (Live(h) /\ tpc # "finish" => Open(View(h), P, Unsent))

FramesOnly == \A h \in Sessions : FramesOf(h)

-----------------------------------------------------------------------------
\* At most one frame.
AtMostOne(s) == Len(s) >= 3 => Len(s) <= 3 + LenAt(s, 1)

\* Bytes on their way to the decoder.
Coming == chunk \o up

\* The bytes b stand in t behind the first k.
Within(b, t, k) == \A i \in 1 .. Len(b) : t[k + i] = b[i]

\* The decoder has had off bytes of the request last written, and what is
\* coming follows them: all of the rest while the host's end is live, and
\* after that too unless the network cuts frames.
ArrivingAt(p, off) ==
  LET w == Wire(asked[p][owed])
  IN  /\ off < Len(w)
      /\ off + Len(Coming) <= Len(w)
      /\ Within(Coming, w, off)
      /\ Live(p) \/ ~MidFrameLoss => off + Len(Coming) = Len(w)
      /\ IF tpc = "accept" THEN off = 0
         ELSE FedUpTo(deframer, asked[p][owed], off)

\* A request is on its way and the host has nothing to read.
Arriving(p) ==
  /\ owed \in 1 .. Len(asked[p])
  /\ tpc \in {"accept", "recv", "feed"}
  /\ \E off \in 0 .. MAX_FRAME + 2 : ArrivingAt(p, off)
  /\ Live(p) => Reading(p) /\ View(p) = <<>>

\* Nothing is coming and the decoder is at rest.
Quiet == Coming = <<>> /\ (tpc # "accept" => deframer.state = "Magic")

Waiting == Quiet /\ tpc \in {"accept", "recv"}

Answering(p) ==
  /\ Quiet
  /\ \/ /\ tpc = "exec"
        /\ owed \in 1 .. Len(asked[p])
        /\ frame = Kept(asked[p][owed])
     \/ tpc \in {"sendHead", "sendBody"}
  /\ Live(p) =>
       /\ Reading(p)
       /\ View(p) = IF tpc = "sendBody" THEN FrameHead(Len(resp)) ELSE <<>>

\* A session holds at most the answer it waits for.
HostSide(p) == Live(p) => AtMostOne(View(p)) /\ (Reading(p) \/ View(p) = <<>>)

TurnsOf(p) ==
  /\ HostSide(p)
  /\ Arriving(p) \/ Waiting \/ Answering(p) \/ tpc = "finish"

\* On a connection accepted with the decoder at rest, requests and answers
\* take turns.
Turns ==
  \A p \in Sessions : peer = p /\ (clean \/ tpc = "accept") => TurnsOf(p)

LinkInv == TypeOK /\ Connected /\ AtLastRequest /\ FramesOnly /\ Turns
-----------------------------------------------------------------------------
\* Sequences of bytes: what the code cuts off and puts together.
LEMMA Joined ==
  ASSUME NEW s \in Seq(Byte), NEW t \in Seq(Byte)
  PROVE  /\ s \o t \in Seq(Byte)
         /\ Len(s) \in Nat /\ Len(t) \in Nat
         /\ Len(s \o t) = Len(s) + Len(t)
         /\ \A i \in 1 .. Len(s) : (s \o t)[i] = s[i]
         /\ \A i \in 1 .. Len(t) : (s \o t)[Len(s) + i] = t[i]
  <1>1. /\ s \o t \in Seq(Byte)
        /\ Len(s \o t) = Len(s) + Len(t)
        /\ \A i \in 1 .. Len(s) + Len(t) : (s \o t)[i] = IF i <= Len(s) THEN s[i] ELSE t[i - Len(s)]
    BY ConcatProperties
  <1>2. Len(s) \in Nat /\ Len(t) \in Nat
    BY LenProperties
  <1> QED
    BY <1>1, <1>2

\* The first bytes of a sequence.
LEMMA FirstBytes ==
  ASSUME NEW s \in Seq(Byte), NEW n \in Nat, n <= Len(s)
  PROVE  /\ SubSeq(s, 1, n) \in Seq(Byte)
         /\ Len(SubSeq(s, 1, n)) = n
         /\ \A i \in 1 .. n : SubSeq(s, 1, n)[i] = s[i]
  <1>1. Len(s) \in Nat /\ \A i \in 1 .. n : s[i] \in Byte
    BY LenProperties, ElementOfSeq
  <1> QED
    BY <1>1, SubSeqProperties

\* The bytes behind the first ones.
LEMMA LastBytes ==
  ASSUME NEW s \in Seq(Byte), NEW n \in Nat, n <= Len(s)
  PROVE  /\ SubSeq(s, n + 1, Len(s)) \in Seq(Byte)
         /\ Len(SubSeq(s, n + 1, Len(s))) = Len(s) - n
         /\ \A i \in 1 .. Len(s) - n : SubSeq(s, n + 1, Len(s))[i] = s[n + i]
  <1>1. Len(s) \in Nat /\ \A i \in n + 1 .. Len(s) : s[i] \in Byte
    BY LenProperties, ElementOfSeq
  <1>2. /\ SubSeq(s, n + 1, Len(s)) \in Seq(Byte)
        /\ Len(SubSeq(s, n + 1, Len(s))) = IF n + 1 <= Len(s) THEN Len(s) - (n + 1) + 1 ELSE 0
        /\ \A i \in 1 .. Len(s) - (n + 1) + 1 : SubSeq(s, n + 1, Len(s))[i] = s[n + 1 + i - 1]
    BY <1>1, SubSeqProperties
  <1> QED
    BY <1>1, <1>2

\* Sequences are equal when their bytes are.
LEMMA SameBytes ==
  ASSUME NEW s \in Seq(Byte), NEW t \in Seq(Byte), Len(s) = Len(t),
         \A i \in 1 .. Len(s) : s[i] = t[i]
  PROVE  s = t
  BY SeqEqual

\* The header the encoders write announces the length it was made from.
LEMMA HeadBytes ==
  ASSUME NEW len \in Nat
  PROVE  /\ FrameHead(len) \in Seq(Byte)
         /\ Len(FrameHead(len)) = 3
         /\ FrameHead(len)[1] = FRAME_MAGIC
         /\ len < LenLimit => AnnouncedLen(FrameHead(len)[2], FrameHead(len)[3]) = len
  <1> DEFINE lo == len % 256
             hi == (len \div 256) % 256
  <1>1. lo \in Byte /\ hi \in Byte /\ FRAME_MAGIC \in Byte
    BY DEF Byte, FRAME_MAGIC
  <1>2. FrameHead(len) = <<FRAME_MAGIC, lo, hi>>
    BY DEF FrameHead
  <1>3. len < LenLimit => AnnouncedLen(lo, hi) = len
    BY LengthRoundTrip
  <1> HIDE DEF lo, hi
  <1> QED
    BY <1>1, <1>2, <1>3

\* Two header bytes and the length they announce say the same.
LEMMA HeadOf ==
  ASSUME NEW lo \in Byte, NEW hi \in Byte
  PROVE  /\ AnnouncedLen(lo, hi) \in Nat
         /\ AnnouncedLen(lo, hi) < LenLimit
         /\ FrameHead(AnnouncedLen(lo, hi)) = <<FRAME_MAGIC, lo, hi>>
  <1>1. /\ AnnouncedLen(lo, hi) \in Nat /\ AnnouncedLen(lo, hi) < LenLimit
        /\ AnnouncedLen(lo, hi) % 256 = lo
        /\ (AnnouncedLen(lo, hi) \div 256) % 256 = hi
    BY SMTT(30) DEF Byte, AnnouncedLen, LenLimit
  <1> QED
    BY <1>1 DEF FrameHead

\* A frame is a sequence of bytes.
LEMMA WireType ==
  ASSUME NEW p \in Seq(Byte)
  PROVE  Wire(p) \in Seq(Byte)
  BY HeadBytes, Joined, LenProperties DEF Wire

\* The decoder's fields keep their types whatever it is fed.
LEMMA FeedType ==
  ASSUME NEW d \in Deframers, NEW byte \in Byte, d.state = "Payload" => d.left > 0
  PROVE  /\ Feed(d, byte) \in Deframers
         /\ Feed(d, byte).state = "Payload" => Feed(d, byte).left > 0
         /\ FrameOf(d, byte) \in Seq(Byte)
  <1> DEFINE e == Feed(d, byte)
             Typed == /\ e \in Deframers
                      /\ e.state = "Payload" => e.left > 0
                      /\ FrameOf(d, byte) \in Seq(Byte)
  <1> SUFFICES Typed
    OBVIOUS
  <1>0. <<>> \in Seq(Byte)
    OBVIOUS
  <1>1. CASE d.state = "Magic"
    <2>1. e = FeedMagic(d, byte) /\ FrameOf(d, byte) = <<>>
      BY <1>1 DEF Feed, FrameOf
    <2> HIDE DEF e
    <2>2. CASE byte = FRAME_MAGIC
      BY <1>0, <2>1, <2>2 DEF FeedMagic, Deframers, RxStates
    <2>3. CASE byte # FRAME_MAGIC
      BY <1>0, <1>1, <2>1, <2>3 DEF FeedMagic, Deframers, RxStates
    <2> QED
      BY <2>2, <2>3
  <1>2. CASE d.state = "LenLo"
    <2>1. e = [d EXCEPT !.state = "LenHi", !.lo = byte] /\ FrameOf(d, byte) = <<>>
      BY <1>2 DEF Feed, FrameOf, FeedLenLo
    <2> HIDE DEF e
    <2> QED
      BY <1>0, <2>1 DEF Deframers, RxStates
  <1>3. CASE d.state = "LenHi"
    <2> DEFINE len == AnnouncedLen(d.lo, byte)
               st == IF len = 0 THEN "Magic" ELSE "Payload"
               empty == <<>>
    <2>1. /\ e = [d EXCEPT !.state = st, !.lo = 0, !.left = len, !.fill = 0, !.buf = empty]
          /\ FrameOf(d, byte) = <<>>
      BY <1>3 DEF Feed, FrameOf, FeedLenHi
    <2>2. len \in Nat
      BY HeadOf DEF Deframers
    <2>3. st \in RxStates /\ empty \in Seq(Byte) /\ 0 \in Byte /\ (st = "Payload" => len > 0)
      BY <2>2 DEF RxStates, Byte
    <2> HIDE DEF e, len, st, empty
    <2> QED
      BY <1>0, <2>1, <2>2, <2>3 DEF Deframers
  <1>4. CASE d.state = "Payload"
    <2> DEFINE st == IF d.left = 1 THEN "Magic" ELSE "Payload"
               left == d.left - 1
               fill == d.fill + 1
               buf == IF d.fill < N THEN Append(d.buf, byte) ELSE d.buf
               rejects == IF d.left = 1 THEN 0 ELSE d.rejects
    <2>1. e = [d EXCEPT !.state = st, !.left = left, !.fill = fill, !.buf = buf, !.rejects = rejects]
      BY <1>4 DEF Feed, FeedPayload
    <2>2. FrameOf(d, byte) \in {<<>>, e.buf}
      BY <1>4 DEF FrameOf, Feed
    <2>3. /\ st \in RxStates /\ left \in Nat /\ fill \in Nat /\ rejects \in Nat
          /\ st = "Payload" => left > 0
      BY <1>4 DEF Deframers, RxStates
    <2>4. buf \in Seq(Byte)
      <3>1. d.buf \in Seq(Byte)
        BY DEF Deframers
      <3> QED
        BY <3>1, AppendProperties
    <2> HIDE DEF e, st, left, fill, buf, rejects
    <2>5. e \in Deframers /\ e.buf = buf /\ e.state = st /\ e.left = left
      BY <2>1, <2>3, <2>4 DEF Deframers
    <2> QED
      BY <1>0, <2>2, <2>3, <2>4, <2>5
  <1> QED
    BY <1>1, <1>2, <1>3, <1>4 DEF Deframers, RxStates

-----------------------------------------------------------------------------
\* A function changed at one point.
LEMMA Updated ==
  ASSUME NEW S, NEW T, NEW f \in [S -> T], NEW x \in S, NEW v \in T
  PROVE  /\ [f EXCEPT ![x] = v] \in [S -> T]
         /\ [f EXCEPT ![x] = v][x] = v
         /\ \A y \in S \ {x} : [f EXCEPT ![x] = v][y] = f[y]
  OBVIOUS

\* What a session was asked to send is bytes.
LEMMA RequestBytes ==
  ASSUME TypeOK, NEW h \in Sessions, NEW i \in 1 .. Len(asked[h])
  PROVE  asked[h][i] \in Seq(Byte)
  <1>1. asked[h] \in Seq(Requests)
    BY DEF TypeOK
  <1>2. asked[h][i] \in Requests
    BY <1>1, ElementOfSeq
  <1> QED
    BY <1>2, LinkAssumption

\* A session's place changes only by its own steps.
Moved(h) == \A g \in Sessions \ {h} : lpc'[g] = lpc[g] /\ need'[g] = need[g] /\ payload'[g] = payload[g]

\* Both outcomes of a failed attempt, as the other variables see them.
LEMMA Failed ==
  ASSUME TypeOK, NEW h \in Sessions, FailTry(h)
  PROVE  /\ LinkTypeOK'
         /\ DropStream(h)
         /\ Moved(h) /\ lpc'[h] \in {"reconnect", "idle"}
         /\ UNCHANGED <<payload, skipped, need, LINK_REQUESTS>>
  <1>1. LinkTypeOK /\ DropStream(h) /\ UNCHANGED <<payload, skipped, need, LINK_REQUESTS>>
    BY DEF FailTry, TypeOK
  <1>2. CASE attempt[h] = 1 /\ Goto(h, "reconnect") /\ attempt' = [attempt EXCEPT ![h] = 2]
             /\ LINK_RETRIES' = LINK_RETRIES + 1 /\ UNCHANGED <<answer, LINK_ERRORS>>
    <2>1. lpc' \in [Sessions -> PCs] /\ lpc'[h] = "reconnect" /\ \A g \in Sessions \ {h} : lpc'[g] = lpc[g]
      BY <1>1, <1>2 DEF Goto, LinkTypeOK, PCs
    <2>2. attempt' \in [Sessions -> 1 .. 2] /\ LINK_RETRIES' \in Nat
      BY <1>1, <1>2 DEF LinkTypeOK
    <2> QED
      BY <1>1, <1>2, <2>1, <2>2 DEF LinkTypeOK, Moved
  <1>3. CASE attempt[h] = 2 /\ Return(h, Err) /\ LINK_ERRORS' = LINK_ERRORS + 1
             /\ UNCHANGED <<attempt, LINK_RETRIES>>
    <2>1. lpc' \in [Sessions -> PCs] /\ lpc'[h] = "idle" /\ \A g \in Sessions \ {h} : lpc'[g] = lpc[g]
      BY <1>1, <1>3 DEF Return, Goto, LinkTypeOK, PCs
    <2>2. Err \in [ok : BOOLEAN, resp : Seq(Byte)]
      BY DEF Err
    <2>3. answer' \in [Sessions -> [ok : BOOLEAN, resp : Seq(Byte)]] /\ LINK_ERRORS' \in Nat
      BY <1>1, <1>3, <2>2, Updated DEF Return, LinkTypeOK
    <2> QED
      BY <1>1, <1>3, <2>1, <2>3 DEF LinkTypeOK, Moved
  <1> QED
    BY <1>2, <1>3 DEF FailTry

\* disconnect() empties the host's end.
LEMMA Dropped ==
  ASSUME TypeOK, NEW h \in Sessions, DropStream(h)
  PROVE  /\ stream' \in [Sessions -> {"none", "live", "dead"}]
         /\ inbox' \in [Sessions -> Seq(Byte)]
         /\ stream'[h] = "none" /\ inbox'[h] = <<>>
         /\ \A g \in Sessions \ {h} : stream'[g] = stream[g] /\ inbox'[g] = inbox[g]
  <1>1. <<>> \in Seq(Byte)
    OBVIOUS
  <1> QED
    BY <1>1 DEF DropStream, TypeOK, TcpTypeOK

\* A connection is made, or accepted for a host that has given up.
LEMMA Established ==
  ASSUME TypeOK, NEW h \in Sessions, NEW end \in {"live", "none"}, Establish(h, end)
  PROVE  /\ TcpTypeOK'
         /\ stream'[h] = end /\ inbox'[h] = <<>>
         /\ \A g \in Sessions \ {h} : stream'[g] = stream[g] /\ inbox'[g] = inbox[g]
         /\ listening /\ ~listening' /\ peer' = h /\ up' = <<>>
  <1>1. <<>> \in Seq(Byte)
    OBVIOUS
  <1> QED
    BY <1>1 DEF Establish, TypeOK, TcpTypeOK

\* What the firmware writes reaches a live peer only.
LEMMA PutDownBytes ==
  ASSUME TypeOK, NEW bytes \in Seq(Byte), PutDown(bytes), peer \in Sessions
  PROVE  /\ inbox' \in [Sessions -> Seq(Byte)]
         /\ inbox'[peer] = IF Live(peer) THEN inbox[peer] \o bytes ELSE inbox[peer]
         /\ \A g \in Sessions \ {peer} : inbox'[g] = inbox[g]
  <1>1. inbox \in [Sessions -> Seq(Byte)] /\ inbox[peer] \o bytes \in Seq(Byte)
    BY Joined DEF TypeOK, TcpTypeOK
  <1>2. CASE Live(peer)
    BY <1>1, <1>2, Updated DEF PutDown
  <1>3. CASE ~Live(peer)
    BY <1>1, <1>3 DEF PutDown
  <1> QED
    BY <1>2, <1>3

\* What the host writes.
LEMMA PutUpBytes ==
  ASSUME TypeOK, NEW h \in Sessions, NEW bytes \in Seq(Byte), PutUp(h, bytes)
  PROVE  up' \in Seq(Byte)
  BY Joined DEF PutUp, TypeOK, TcpTypeOK

\* A complete read leaves the rest of the inbox.
LEMMA Taken ==
  ASSUME TypeOK, NEW h \in Sessions, CanRead(h), TakeInbox(h)
  PROVE  /\ Wanted(h) \in Nat /\ Wanted(h) <= Len(inbox[h])
         /\ inbox' \in [Sessions -> Seq(Byte)]
         /\ Len(inbox'[h]) = Len(inbox[h]) - Wanted(h)
         /\ \A i \in 1 .. Len(inbox'[h]) : inbox'[h][i] = inbox[h][Wanted(h) + i]
         /\ \A g \in Sessions \ {h} : inbox'[g] = inbox[g]
  <1>1. inbox \in [Sessions -> Seq(Byte)] /\ need[h] \in Nat
    BY DEF TypeOK, TcpTypeOK, LinkTypeOK
  <1>2. Wanted(h) \in Nat /\ Wanted(h) <= Len(inbox[h])
    BY <1>1 DEF CanRead, Reading, Wanted
  <1>3. inbox' = [inbox EXCEPT ![h] = SubSeq(inbox[h], Wanted(h) + 1, Len(inbox[h]))]
    BY DEF TakeInbox
  <1> DEFINE rest == SubSeq(inbox[h], Wanted(h) + 1, Len(inbox[h]))
  <1>4. /\ rest \in Seq(Byte) /\ Len(rest) = Len(inbox[h]) - Wanted(h)
        /\ \A i \in 1 .. Len(rest) : rest[i] = inbox[h][Wanted(h) + i]
    BY <1>1, <1>2, LastBytes
  <1> HIDE DEF rest
  <1>5. inbox' = [inbox EXCEPT ![h] = rest]
    BY <1>3 DEF rest
  <1> QED
    BY <1>1, <1>2, <1>4, <1>5, Updated

-----------------------------------------------------------------------------
\* Type correctness.
LEMMA ConnectTypes ==
  ASSUME TypeOK, NEW h \in Sessions, NEW late \in BOOLEAN,
         Connect(h) \/ ConnectFails(h, late) \/ ReconnectFails(h, late)
  PROVE  TcpTypeOK' /\ LinkTypeOK' /\ Moved(h)
  <1>1. CASE Connect(h)
    <2>1. TcpTypeOK'
      BY <1>1, Established DEF Connect
    <2> QED
      BY <1>1, <2>1 DEF Connect, Goto, TypeOK, LinkTypeOK, PCs, Moved
  <1>2. CASE ConnectFails(h, late)
    <2>1. FailTry(h)
      BY <1>2 DEF ConnectFails
    <2>2. LinkTypeOK' /\ DropStream(h) /\ Moved(h)
      BY <2>1, Failed
    <2>3. <<>> \in Seq(Byte)
      OBVIOUS
    <2> QED
      BY <1>2, <2>2, <2>3, Dropped DEF ConnectFails, TypeOK, TcpTypeOK
  <1>3. CASE ReconnectFails(h, late)
    <2>1. TcpTypeOK'
      BY <1>3, Established DEF ReconnectFails, TypeOK, TcpTypeOK, tcpVars
    <2>2. Err \in [ok : BOOLEAN, resp : Seq(Byte)]
      BY DEF Err
    <2>3. answer' \in [Sessions -> [ok : BOOLEAN, resp : Seq(Byte)]]
      BY <1>3, <2>2, Updated DEF ReconnectFails, Return, TypeOK, LinkTypeOK
    <2> QED
      BY <1>3, <2>1, <2>3 DEF ReconnectFails, Return, Goto, TypeOK, LinkTypeOK, PCs, Moved
  <1> QED
    BY <1>1, <1>2, <1>3

\* write_all() of the request.
LEMMA SendTypes ==
  ASSUME TypeOK, NEW h \in Sessions, Send(h)
  PROVE  TcpTypeOK' /\ LinkTypeOK' /\ owed' \in Nat /\ Moved(h)
  <1>0. owed' \in Nat
    <2>1. asked[h] \in Seq(Requests) /\ owed \in Nat
      BY DEF TypeOK
    <2> QED
      BY <2>1 DEF Send
  <1>1. payload[h] \in Seq(Byte)
    BY DEF TypeOK, LinkTypeOK
  <1>2. Wire(payload[h]) \in Seq(Byte) /\ Len(Wire(payload[h])) \in Nat
    BY <1>1, WireType, LenProperties
  <1>3. CASE Write(h)
    <2>1. up' \in Seq(Byte)
      BY <1>2, <1>3, PutUpBytes DEF Write
    <2> QED
      BY <1>0, <1>3, <2>1 DEF Write, Goto, TypeOK, TcpTypeOK, LinkTypeOK, PCs, Moved
  <1>4. ASSUME NEW n \in 0 .. MAX_FRAME + 2, WriteFails(h, n)
        PROVE  TcpTypeOK' /\ LinkTypeOK' /\ Moved(h)
    <2>1. n \in Nat /\ n <= Len(Wire(payload[h]))
      BY <1>2, <1>4, LinkAssumption DEF WriteFails
    <2>2. SubSeq(Wire(payload[h]), 1, n) \in Seq(Byte)
      BY <1>2, <2>1, FirstBytes
    <2>3. up' \in Seq(Byte)
      BY <1>4, <2>2, PutUpBytes DEF WriteFails
    <2>4. LinkTypeOK' /\ DropStream(h) /\ Moved(h)
      BY <1>4, Failed DEF WriteFails
    <2> QED
      BY <1>4, <2>3, <2>4, Dropped DEF WriteFails, TypeOK, TcpTypeOK
  <1> QED
    BY <1>0, <1>3, <1>4 DEF Send

\* read_frame().
LEMMA ReadTypes ==
  ASSUME TypeOK, NEW h \in Sessions,
         ReadFails(h) \/ ReadMagic(h) \/ SkipByte(h) \/ ReadLen(h) \/ ReadPayload(h)
  PROVE  TcpTypeOK' /\ LinkTypeOK' /\ Moved(h)
  <1>1. ASSUME FailTry(h), UNCHANGED <<listening, peer, up>>
        PROVE  TcpTypeOK' /\ LinkTypeOK' /\ Moved(h)
    <2>1. LinkTypeOK' /\ DropStream(h) /\ Moved(h)
      BY <1>1, Failed
    <2> QED
      BY <1>1, <2>1, Dropped DEF TypeOK, TcpTypeOK
  <1>2. CASE ReadFails(h)
    BY <1>1, <1>2 DEF ReadFails
  <1>3. CASE ReadMagic(h)
    <2>1. inbox' \in [Sessions -> Seq(Byte)]
      BY <1>3, Taken DEF ReadMagic
    <2> QED
      BY <1>3, <2>1 DEF ReadMagic, Goto, TypeOK, TcpTypeOK, LinkTypeOK, PCs, Moved
  <1>4. CASE SkipByte(h)
    <2>1. CASE skipped[h] + 1 > MAX_FRAME
      BY <1>1, <1>4, <2>1 DEF SkipByte
    <2>2. CASE ~(skipped[h] + 1 > MAX_FRAME)
      <3>1. inbox' \in [Sessions -> Seq(Byte)]
        BY <1>4, <2>2, Taken DEF SkipByte
      <3>2. /\ skipped' = [skipped EXCEPT ![h] = @ + 1]
            /\ UNCHANGED <<lpc, attempt, payload, need, answer, LINK_REQUESTS, LINK_RETRIES,
                           LINK_ERRORS, stream, listening, peer, up>>
        BY <1>4, <2>2 DEF SkipByte
      <3>3. skipped' \in [Sessions -> Nat]
        BY <3>2 DEF TypeOK, LinkTypeOK
      <3> QED
        BY <3>1, <3>2, <3>3 DEF TypeOK, TcpTypeOK, LinkTypeOK, Moved
    <2> QED
      BY <2>1, <2>2
  <1>5. CASE ReadLen(h)
    <2> DEFINE n == AnnouncedLen(inbox[h][1], inbox[h][2])
    <2>1. CASE n > MAX_FRAME
      BY <1>1, <1>5, <2>1 DEF ReadLen
    <2>2. CASE ~(n > MAX_FRAME)
      <3>1. inbox' \in [Sessions -> Seq(Byte)]
        BY <1>5, <2>2, Taken DEF ReadLen
      <3>2. n \in Nat
        <4>1. inbox[h] \in Seq(Byte) /\ 2 <= Len(inbox[h])
          BY <1>5 DEF TypeOK, TcpTypeOK, ReadLen, CanRead, Wanted
        <4>2. inbox[h][1] \in Byte /\ inbox[h][2] \in Byte
          BY <4>1
        <4> QED
          BY <4>2, HeadOf
      <3>3. /\ need' = [need EXCEPT ![h] = n] /\ Goto(h, "payload")
            /\ UNCHANGED <<attempt, payload, skipped, answer, LINK_REQUESTS, LINK_RETRIES,
                           LINK_ERRORS, stream, listening, peer, up>>
        BY <1>5, <2>2 DEF ReadLen
      <3> HIDE DEF n
      <3>4. need' \in [Sessions -> Nat] /\ \A g \in Sessions \ {h} : need'[g] = need[g]
        BY <3>2, <3>3, Updated DEF TypeOK, LinkTypeOK
      <3>5. lpc' \in [Sessions -> PCs] /\ \A g \in Sessions \ {h} : lpc'[g] = lpc[g]
        BY <3>3 DEF Goto, TypeOK, LinkTypeOK, PCs
      <3> QED
        BY <3>1, <3>3, <3>4, <3>5 DEF TypeOK, TcpTypeOK, LinkTypeOK, Moved
    <2> QED
      BY <2>1, <2>2
  <1>6. CASE ReadPayload(h)
    <2>1. inbox' \in [Sessions -> Seq(Byte)] /\ need[h] \in Nat /\ need[h] <= Len(inbox[h])
      BY <1>6, Taken DEF ReadPayload, Wanted
    <2>2. SubSeq(inbox[h], 1, need[h]) \in Seq(Byte)
      BY <2>1, FirstBytes DEF TypeOK, TcpTypeOK
    <2> DEFINE result == Ok(SubSeq(inbox[h], 1, need[h]))
    <2>3. result \in [ok : BOOLEAN, resp : Seq(Byte)]
      BY <2>2 DEF Ok
    <2>4. answer' = [answer EXCEPT ![h] = result]
      BY <1>6 DEF ReadPayload, Return
    <2> HIDE DEF result
    <2>5. answer' \in [Sessions -> [ok : BOOLEAN, resp : Seq(Byte)]]
      BY <2>3, <2>4, Updated DEF TypeOK, LinkTypeOK
    <2> QED
      BY <1>6, <2>1, <2>5 DEF ReadPayload, Return, Goto, TypeOK, TcpTypeOK, LinkTypeOK, PCs, Moved
  <1> QED
    BY <1>2, <1>3, <1>4, <1>5, <1>6

\* All the steps of a request under way.
LEMMA HostTypes ==
  ASSUME TypeOK, NEW h \in Sessions, HostStep(h)
  PROVE  TypeOK' /\ Moved(h)
  <1>1. failed' \in Nat
    BY DEF HostStep, TypeOK
  <1>2. CASE Send(h) /\ UNCHANGED asked
    BY <1>1, <1>2, SendTypes DEF HostStep, TypeOK, ChannelTypeOK, channelVars
  <1>3. CASE Receive(h) /\ UNCHANGED <<asked, owed>>
    <2>1. TcpTypeOK' /\ LinkTypeOK' /\ Moved(h)
      BY <1>3, ConnectTypes, ReadTypes DEF Receive
    <2> QED
      BY <1>1, <1>3, <2>1 DEF HostStep, TypeOK, ChannelTypeOK, channelVars
  <1> QED
    BY <1>2, <1>3 DEF HostStep

\* The call of request().
LEMMA AskTypes ==
  ASSUME TypeOK, NEW h \in Sessions, NEW p \in Requests,
         Ask(h, p), UNCHANGED <<channelVars, owed, ran, clean, failed>>
  PROVE  TypeOK'
  <1>1. CASE RequestTooLarge(h, p) /\ UNCHANGED asked
    BY <1>1 DEF RequestTooLarge, TypeOK, TcpTypeOK, LinkTypeOK, ChannelTypeOK, linkVars, tcpVars, channelVars
  <1>2. CASE Request(h, p) /\ asked' = [asked EXCEPT ![h] = Append(@, p)]
    <2>1. p \in Seq(Byte) /\ asked[h] \in Seq(Requests)
      BY LinkAssumption DEF TypeOK
    <2>2. asked' \in [Sessions -> Seq(Requests)]
      BY <1>2, <2>1, AppendProperties DEF TypeOK
    <2>3. LinkTypeOK'
      BY <1>2, <2>1 DEF Request, Goto, TypeOK, LinkTypeOK, PCs
    <2>4. TcpTypeOK' /\ ChannelTypeOK'
      BY <1>2 DEF Request, TypeOK, TcpTypeOK, ChannelTypeOK, tcpVars, channelVars
    <2> QED
      BY <2>2, <2>3, <2>4 DEF TypeOK
  <1> QED
    BY <1>1, <1>2 DEF Ask

\* The firmware's steps, which leave linkVars alone.
LEMMA FeedTypes ==
  ASSUME TypeOK, Connected, FeedByte
  PROVE  TcpTypeOK' /\ ChannelTypeOK' /\ (deframer'.state = "Payload" => deframer'.left > 0)
  <1> DEFINE b == Head(chunk)
  <1>1. chunk \in Seq(Byte) /\ chunk # <<>> /\ deframer \in Deframers
    BY DEF FeedByte, Connected, TypeOK, ChannelTypeOK
  <1>2. b \in Byte /\ Tail(chunk) \in Seq(Byte) /\ <<>> \in Seq(Byte)
    BY <1>1, HeadTailProperties
  <1>3. /\ deframer' \in Deframers /\ FrameOf(deframer, b) \in Seq(Byte)
        /\ deframer'.state = "Payload" => deframer'.left > 0
    BY <1>1, <1>2, FeedType DEF FeedByte, Connected
  <1>4. /\ frame' \in {frame, FrameOf(deframer, b)}
        /\ chunk' \in {<<>>, Tail(chunk)}
        /\ tpc' \in {"exec", "feed", "recv", "finish"}
        /\ UNCHANGED <<silent, resp, tcpVars>>
    BY DEF FeedByte
  <1> QED
    BY <1>2, <1>3, <1>4 DEF TypeOK, TcpTypeOK, ChannelTypeOK, TPCs, tcpVars

\* send_frame().
LEMMA SendFrameTypes ==
  ASSUME TypeOK, Connected,
         SendHead \/ SendBody \/ \E n \in 0 .. N + 3 : SendFails(n)
  PROVE  /\ TcpTypeOK' /\ ChannelTypeOK' /\ peer \in Sessions
         /\ UNCHANGED <<listening, peer, up, stream, deframer, chunk>>
  <1>1. /\ resp \in Seq(Byte) /\ Len(resp) \in Nat /\ peer \in Sessions /\ <<>> \in Seq(Byte)
        /\ FrameHead(Len(resp)) \in Seq(Byte) /\ Len(FrameHead(Len(resp))) = 3
    <2>1. resp \in Seq(Byte) /\ Len(resp) \in Nat
      BY LenProperties DEF TypeOK, ChannelTypeOK
    <2>2. peer \in Sessions
      BY DEF SendHead, SendBody, SendFails, Connected, TypeOK, TcpTypeOK
    <2> QED
      BY <2>1, <2>2, HeadBytes
  <1>2. ASSUME NEW n \in Nat, NEW s \in Seq(Byte), n <= Len(s), PutDown(SubSeq(s, 1, n))
        PROVE  inbox' \in [Sessions -> Seq(Byte)]
    <2>1. SubSeq(s, 1, n) \in Seq(Byte)
      BY <1>2, FirstBytes
    <2> QED
      BY <1>1, <1>2, <2>1, PutDownBytes
  <1>3. inbox' \in [Sessions -> Seq(Byte)]
    <2>1. CASE SendHead
      BY <1>1, <2>1, PutDownBytes DEF SendHead
    <2>2. CASE SendBody
      BY <1>1, <2>2, PutDownBytes DEF SendBody
    <2>3. ASSUME NEW n \in 0 .. N + 3, SendFails(n) PROVE inbox' \in [Sessions -> Seq(Byte)]
      <3>1. n \in Nat
        BY FrameAssumption
      <3> QED
        BY <1>1, <1>2, <2>3, <3>1 DEF SendFails
    <2> QED
      BY <2>1, <2>2, <2>3
  <1> QED
    BY <1>1, <1>3 DEF SendHead, SendBody, SendFails, TypeOK, TcpTypeOK, ChannelTypeOK, TPCs

\* A chunk is read.
LEMMA ReceiveTypes ==
  ASSUME TypeOK, NEW n \in 1 .. CHUNK, Read(n)
  PROVE  TcpTypeOK' /\ ChannelTypeOK'
  <1>1. up \in Seq(Byte) /\ n \in Nat /\ n <= Len(up)
    BY ChannelAssumption DEF Read, TypeOK, TcpTypeOK
  <1>2. chunk' \in Seq(Byte) /\ up' \in Seq(Byte)
    BY <1>1, FirstBytes, LastBytes DEF Read
  <1> QED
    BY <1>2 DEF Read, TypeOK, TcpTypeOK, ChannelTypeOK, TPCs

\* The connection is given up.
LEMMA AbortTypes ==
  ASSUME TypeOK, Finish
  PROVE  TcpTypeOK' /\ ChannelTypeOK'
  <1>1. stream' \in [Sessions -> {"none", "live", "dead"}] /\ <<>> \in Seq(Byte)
    BY DEF Finish, Abort, TypeOK, TcpTypeOK
  <1> QED
    BY <1>1 DEF Finish, Abort, TypeOK, TcpTypeOK, ChannelTypeOK, TPCs

\* The command is run.
LEMMA RunTypes ==
  ASSUME TypeOK, Connected, AnswersFit, RunCommand
  PROVE  /\ TcpTypeOK' /\ ChannelTypeOK' /\ resp' \in Answers
         /\ ran' \in [Sessions -> [no : Nat, times : Nat, cmd : Seq(Byte), resp : Seq(Byte)]]
  <1>1. frame \in Seq(Byte) /\ owed \in Nat /\ peer \in Sessions /\ <<>> \in Seq(Byte)
    BY DEF TypeOK, TcpTypeOK, ChannelTypeOK, RunCommand, Exec, Connected
  <1>2. resp' \in Answers /\ resp' \in Seq(Byte)
    BY <1>1 DEF RunCommand, Exec, AnswersFit, Answers
  <1> DEFINE times == IF ran[peer].no = owed THEN ran[peer].times + 1 ELSE 1
             run == [no |-> owed, cmd |-> frame, resp |-> resp', times |-> times]
  <1>3. ran' = [ran EXCEPT ![peer] = run]
    BY DEF RunCommand
  <1>4. run \in [no : Nat, times : Nat, cmd : Seq(Byte), resp : Seq(Byte)]
    <2>1. times \in Nat
      BY <1>1 DEF TypeOK
    <2> HIDE DEF times
    <2> QED
      BY <1>1, <1>2, <2>1
  <1> HIDE DEF run
  <1>5. ran' \in [Sessions -> [no : Nat, times : Nat, cmd : Seq(Byte), resp : Seq(Byte)]]
    BY <1>1, <1>3, <1>4, Updated DEF TypeOK
  <1> QED
    BY <1>1, <1>2, <1>5 DEF RunCommand, Exec, TypeOK, TcpTypeOK, ChannelTypeOK, TPCs, tcpVars

\* All the steps of the firmware.
LEMMA ServeTypes ==
  ASSUME TypeOK, Connected, AnswersFit, Serve
  PROVE  TypeOK'
  <1>1. LinkTypeOK' /\ UNCHANGED <<asked, owed, failed>>
    BY DEF Serve, TypeOK, LinkTypeOK, linkVars
  <1>2. CASE Accepted /\ clean' = AtRest(deframer) /\ UNCHANGED ran
    BY <1>1, <1>2 DEF Accepted, AtRest, TypeOK, TcpTypeOK, ChannelTypeOK, TPCs, tcpVars
  <1>3. CASE RunCommand
    <2>1. TcpTypeOK' /\ ChannelTypeOK'
          /\ ran' \in [Sessions -> [no : Nat, times : Nat, cmd : Seq(Byte), resp : Seq(Byte)]]
      BY <1>3, RunTypes
    <2>2. clean' = clean
      BY <1>3 DEF RunCommand
    <2> QED
      BY <1>1, <2>1, <2>2 DEF TypeOK
  <1>4. CASE /\ \/ \E n \in 1 .. CHUNK : Read(n)
                \/ FeedByte \/ RecvEof \/ SendHead \/ SendBody \/ Finish
             /\ UNCHANGED <<ran, clean>>
    <2>1. TcpTypeOK' /\ ChannelTypeOK'
      <3>1. CASE RecvEof
        BY <3>1 DEF RecvEof, TypeOK, TcpTypeOK, ChannelTypeOK, TPCs, tcpVars
      <3> QED
        BY <1>4, <3>1, ReceiveTypes, FeedTypes, SendFrameTypes, AbortTypes
    <2> QED
      BY <1>1, <1>4, <2>1 DEF TypeOK
  <1> QED
    BY <1>2, <1>3, <1>4 DEF Serve

\* Cuts, vanishing hosts and what else the network does.
LEMMA OtherTypes ==
  ASSUME TypeOK, Connected,
         ServeFails \/ Vanish \/ ListenStep \/ UNCHANGED vars
           \/ \E h \in Sessions : Detach(h) /\ UNCHANGED <<channelVars, history>>
  PROVE  TypeOK'
  <1>1. CASE ServeFails
    <2>1. TcpTypeOK' /\ ChannelTypeOK'
      <3>1. CASE RecvFails \/ AcceptFails
        BY <3>1 DEF RecvFails, AcceptFails, TypeOK, TcpTypeOK, ChannelTypeOK, TPCs, tcpVars
      <3> QED
        BY <1>1, <3>1, SendFrameTypes DEF ServeFails
    <2> QED
      BY <1>1, <2>1 DEF ServeFails, TypeOK, LinkTypeOK, linkVars, history
  <1>2. CASE Vanish
    BY <1>2 DEF Vanish, HostVanishes, TypeOK, TcpTypeOK, LinkTypeOK, ChannelTypeOK, tcpVars, linkVars, history
  <1>3. CASE ListenStep
    BY <1>3 DEF ListenStep, StartAccept, Listen, TypeOK, TcpTypeOK, LinkTypeOK, ChannelTypeOK, linkVars, channelVars, history
  <1>4. CASE UNCHANGED vars
    BY <1>4 DEF TypeOK, TcpTypeOK, LinkTypeOK, ChannelTypeOK, vars, tcpVars, linkVars, channelVars, history
  <1>5. ASSUME NEW h \in Sessions, Detach(h), UNCHANGED <<channelVars, history>>
        PROVE  TypeOK'
    <2>1. TcpTypeOK'
      BY <1>5, Dropped DEF Detach, TypeOK, TcpTypeOK
    <2> QED
      BY <1>5, <2>1 DEF Detach, TypeOK, LinkTypeOK, ChannelTypeOK, linkVars, channelVars, history
  <1> QED
    BY <1>1, <1>2, <1>3, <1>4, <1>5

\* Every step keeps the types.
LEMMA TypeStep ==
  ASSUME TypeOK, Connected, AnswersFit, [Next]_vars
  PROVE  TypeOK'
  BY AskTypes, HostTypes, ServeTypes, OtherTypes DEF Next

-----------------------------------------------------------------------------
\* One live connection, and the firmware's place in it.
LEMMA HostConnected ==
  ASSUME TypeOK, Connected, NEW h \in Sessions, HostStep(h)
  PROVE  Connected'
  <1>0. UNCHANGED channelVars
    BY DEF HostStep
  <1>1. ASSUME DropStream(h), UNCHANGED <<listening, peer>>
        PROVE  Connected'
    BY <1>0, <1>1, Dropped DEF Connected, channelVars, Live
  <1>2. ASSUME NEW end \in {"live", "none"}, Establish(h, end)
        PROVE  Connected'
    <2>1. \A g \in Sessions : ~Live(g)
      BY <1>2, Established, TcpAssumption DEF Connected
    <2>2. peer' \in Sessions /\ peer' = h /\ tpc = "accept"
      BY <1>2, Established DEF Connected
    <2> QED
      BY <1>0, <1>2, <2>1, <2>2, Established DEF Connected, channelVars, Live
  <1>3. CASE Send(h)
    <2>1. CASE Write(h)
      BY <1>0, <2>1 DEF Write, Connected, channelVars, Live
    <2> QED
      BY <1>1, <1>3, <2>1, Failed DEF Send, WriteFails
  <1>4. CASE Receive(h)
    <2>1. CASE Connect(h)
      BY <1>2, <2>1 DEF Connect
    <2>2. ASSUME NEW late \in BOOLEAN, ConnectFails(h, late) PROVE Connected'
      <3>1. DropStream(h)
        BY <2>2, Failed DEF ConnectFails
      <3>2. CASE late
        <4>1. listening /\ ~listening' /\ peer' = h
          BY <2>2, <3>2 DEF ConnectFails
        <4> QED
          BY <1>0, <3>1, <4>1, Dropped, TcpAssumption DEF Connected, channelVars, Live
      <3> QED
        BY <1>1, <2>2, <3>1, <3>2 DEF ConnectFails
    <2>3. ASSUME NEW late \in BOOLEAN, ReconnectFails(h, late) PROVE Connected'
      <3>1. CASE late
        BY <1>2, <2>3, <3>1 DEF ReconnectFails
      <3>2. CASE ~late
        BY <1>0, <2>3, <3>2 DEF ReconnectFails, Connected, channelVars, tcpVars, Live
      <3> QED
        BY <3>1, <3>2
    <2>4. ASSUME TakeInbox(h), CanRead(h), UNCHANGED <<listening, peer, stream>> PROVE Connected'
      <3>1. stream[h] = "none" => inbox'[h] = <<>>
        <4>1. inbox[h] \in Seq(Byte) /\ inbox'[h] \in Seq(Byte) /\ Len(inbox'[h]) = Len(inbox[h]) - Wanted(h)
              /\ Wanted(h) \in Nat /\ Wanted(h) <= Len(inbox[h])
          BY <2>4, Taken DEF TypeOK, TcpTypeOK
        <4>2. inbox[h] = <<>> => Len(inbox[h]) = 0
          OBVIOUS
        <4>3. Len(inbox'[h]) = 0 => inbox'[h] = <<>>
          BY <4>1, EmptySeq
        <4> QED
          BY <4>1, <4>2, <4>3 DEF Connected
      <3> QED
        BY <1>0, <2>4, <3>1, Taken DEF Connected, channelVars, Live
    <2>5. CASE ReadFails(h)
      BY <1>1, <2>5, Failed DEF ReadFails
    <2>6. CASE ReadMagic(h) \/ ReadPayload(h)
      BY <2>4, <2>6 DEF ReadMagic, ReadPayload
    <2>7. CASE SkipByte(h)
      BY <1>1, <2>4, <2>7, Failed DEF SkipByte
    <2>8. CASE ReadLen(h)
      <3>1. CASE AnnouncedLen(inbox[h][1], inbox[h][2]) > MAX_FRAME
        BY <1>1, <2>8, <3>1, Failed DEF ReadLen
      <3>2. CASE ~(AnnouncedLen(inbox[h][1], inbox[h][2]) > MAX_FRAME)
        BY <2>4, <2>8, <3>2 DEF ReadLen
      <3> QED
        BY <3>1, <3>2
    <2> QED
      BY <1>4, <2>1, <2>2, <2>3, <2>5, <2>6, <2>7, <2>8 DEF Receive
  <1> QED
    BY <1>3, <1>4 DEF HostStep

\* The firmware knows whom it serves.
LEMMA ServeConnected ==
  ASSUME TypeOK, Connected, AnswersFit, Serve \/ ServeFails
  PROVE  Connected'
  <1>1. ASSUME SendHead \/ SendBody \/ \E n \in 0 .. N + 3 : SendFails(n)
        PROVE  Connected'
    <2>1. /\ peer \in Sessions /\ peer # Nobody /\ UNCHANGED <<listening, peer, stream, deframer, chunk>>
          /\ chunk = <<>>
          /\ tpc' \in {"sendBody", "recv", "finish"} /\ (tpc' = "sendBody" => resp' = resp /\ tpc = "sendHead")
      BY <1>1, SendFrameTypes, TcpAssumption DEF SendHead, SendBody, SendFails, Connected
    <2>2. ASSUME NEW h \in Sessions, stream[h] = "none" PROVE inbox'[h] = inbox[h]
      BY <1>1, <2>2 DEF SendHead, SendBody, SendFails, PutDown, Live, TypeOK, TcpTypeOK
    <2>3. ~listening
      BY <1>1, <2>1 DEF Connected
    <2> QED
      BY <2>1, <2>2, <2>3 DEF Connected, Live
  <1>2. CASE Accepted
    BY <1>2 DEF Accepted, Connected, tcpVars, Live
  <1>3. CASE RunCommand
    BY <1>3, RunTypes DEF RunCommand, Exec, Connected, tcpVars, Live
  <1>4. ASSUME NEW n \in 1 .. CHUNK, Read(n)
        PROVE  Connected'
    <2>1. chunk' \in Seq(Byte) /\ Len(chunk') = n /\ n > 0
      <3>1. up \in Seq(Byte) /\ n \in Nat /\ n <= Len(up) /\ n > 0
        BY <1>4, ChannelAssumption DEF Read, TypeOK, TcpTypeOK
      <3> QED
        BY <1>4, <3>1, FirstBytes DEF Read
    <2>2. chunk' # <<>>
      BY <2>1
    <2> QED
      BY <1>4, <2>2 DEF Read, Connected, Live
  <1>5. CASE FeedByte
    <2>1. deframer'.state = "Payload" => deframer'.left > 0
      BY <1>5, FeedTypes
    <2>2. /\ tpc' \in {"exec", "feed", "recv", "finish"} /\ (chunk' # <<>> <=> tpc' = "feed")
          /\ tpc = "feed" /\ UNCHANGED tcpVars
      BY <1>5 DEF FeedByte
    <2> QED
      BY <2>1, <2>2 DEF Connected, tcpVars, Live
  <1>6. CASE RecvEof \/ RecvFails \/ AcceptFails
    BY <1>6 DEF RecvEof, RecvFails, AcceptFails, Connected, tcpVars, Live
  <1>7. CASE Finish
    <2>1. \A h \in Sessions : stream'[h] # "live" /\ (stream'[h] = "none" => stream[h] = "none")
      BY <1>7 DEF Finish, Abort, Connected, Live, TypeOK, TcpTypeOK
    <2> QED
      BY <1>7, <2>1 DEF Finish, Abort, Connected, Live
  <1> QED
    BY <1>1, <1>2, <1>3, <1>4, <1>5, <1>6, <1>7 DEF Serve, ServeFails

\* Every step keeps the connection.
LEMMA ConnectedStep ==
  ASSUME TypeOK, Connected, AnswersFit, [Next]_vars
  PROVE  Connected'
  <1>1. ASSUME NEW h \in Sessions, NEW p \in Requests, Ask(h, p), UNCHANGED channelVars
        PROVE  Connected'
    BY <1>1 DEF Ask, RequestTooLarge, Request, Connected, channelVars, tcpVars, Live
  <1>2. ASSUME NEW h \in Sessions, Detach(h), UNCHANGED channelVars
        PROVE  Connected'
    BY <1>2, Dropped DEF Detach, Connected, channelVars, Live
  <1>3. CASE Vanish
    BY <1>3 DEF Vanish, HostVanishes, Connected, tcpVars, Live
  <1>4. CASE ListenStep
    BY <1>4 DEF ListenStep, StartAccept, Listen, Connected, channelVars, Live
  <1>5. CASE UNCHANGED vars
    BY <1>5 DEF vars, Connected, tcpVars, channelVars, Live
  <1> QED
    BY <1>1, <1>2, <1>3, <1>4, <1>5, HostConnected, ServeConnected DEF Next

\* Requests of a session one after the other.
LEMMA LastRequestStep ==
  ASSUME TypeOK, AtLastRequest, [Next]_vars
  PROVE  AtLastRequest'
  <1>1. ASSUME NEW h \in Sessions, NEW p \in Requests, Ask(h, p)
        PROVE  AtLastRequest'
    <2>1. CASE RequestTooLarge(h, p) /\ UNCHANGED asked
      BY <2>1 DEF RequestTooLarge, linkVars, AtLastRequest, Busy
    <2>2. CASE Request(h, p) /\ asked' = [asked EXCEPT ![h] = Append(@, p)]
      <3>1. /\ asked[h] \in Seq(Requests) /\ Len(asked[h]) \in Nat
            /\ asked' = [asked EXCEPT ![h] = Append(asked[h], p)]
        BY <2>2 DEF TypeOK
      <3>2. /\ asked'[h] = Append(asked[h], p)
            /\ \A g \in Sessions \ {h} : asked'[g] = asked[g] /\ lpc'[g] = lpc[g] /\ payload'[g] = payload[g]
            /\ payload'[h] = p /\ Len(p) <= MAX_FRAME /\ need' = need /\ lpc'[h] \in {"connect", "write"}
        BY <2>2, <3>1 DEF Request, Goto, TypeOK, LinkTypeOK
      <3>3. /\ Len(asked'[h]) = Len(asked[h]) + 1 /\ asked'[h][Len(asked[h]) + 1] = p
            /\ \A i \in 1 .. Len(asked[h]) : asked'[h][i] = asked[h][i]
            /\ asked'[h] # <<>>
        BY <3>1, <3>2, AppendProperties
      <3>4. ASSUME NEW g \in Sessions
            PROVE  /\ \A i \in 1 .. Len(asked'[g]) : Len(asked'[g][i]) <= MAX_FRAME
                   /\ lpc'[g] # "idle" => asked'[g] # <<>> /\ payload'[g] = asked'[g][Len(asked'[g])]
                   /\ lpc'[g] = "payload" => need'[g] <= MAX_FRAME
        <4>1. CASE g = h
          <5>1. ASSUME NEW i \in 1 .. Len(asked'[h]) PROVE Len(asked'[h][i]) <= MAX_FRAME
            <6>1. CASE i = Len(asked[h]) + 1
              BY <3>2, <3>3, <6>1
            <6>2. CASE i # Len(asked[h]) + 1
              <7>1. i \in 1 .. Len(asked[h])
                BY <3>1, <3>3, <6>2
              <7> QED
                BY <3>3, <7>1 DEF AtLastRequest
            <6> QED
              BY <6>1, <6>2
          <5> QED
            BY <3>1, <3>2, <3>3, <4>1, <5>1
        <4>2. CASE g # h
          BY <3>2, <4>2 DEF AtLastRequest, Busy
        <4> QED
          BY <4>1, <4>2
      <3> QED
        BY <3>4 DEF AtLastRequest, Busy
    <2> QED
      BY <1>1, <2>1, <2>2 DEF Ask
  <1>2. ASSUME NEW h \in Sessions, HostStep(h)
        PROVE  AtLastRequest'
    <2>1. Moved(h) /\ asked' = asked
      BY <1>2, HostTypes DEF HostStep
    <2>2. Busy(h) /\ payload'[h] = payload[h]
      BY <1>2, Failed DEF HostStep, Send, Receive, Write, WriteFails, Connect, ConnectFails, ReconnectFails,
           ReadFails, ReadMagic, SkipByte, ReadLen, ReadPayload, Reading, Busy, FailTry
    <2>3. lpc'[h] = "payload" => need'[h] <= MAX_FRAME
      <3>1. ASSUME FailTry(h) PROVE lpc'[h] # "payload"
        BY <3>1, Failed
      <3>2. CASE Send(h)
        BY <3>1, <3>2 DEF Send, Write, WriteFails, Goto, TypeOK, LinkTypeOK
      <3>3. CASE ReadLen(h)
        <4> DEFINE n == AnnouncedLen(inbox[h][1], inbox[h][2])
        <4>1. CASE n > MAX_FRAME
          BY <3>1, <3>3, <4>1 DEF ReadLen
        <4>2. CASE ~(n > MAX_FRAME)
          <5>1. need' = [need EXCEPT ![h] = n]
            BY <3>3, <4>2 DEF ReadLen
          <5>2. n \in Nat
            <6>1. inbox[h] \in Seq(Byte) /\ 2 <= Len(inbox[h])
              BY <3>3 DEF TypeOK, TcpTypeOK, ReadLen, CanRead, Wanted
            <6>2. inbox[h][1] \in Byte /\ inbox[h][2] \in Byte
              BY <6>1
            <6> QED
              BY <6>2, HeadOf
          <5> HIDE DEF n
          <5> QED
            BY <4>2, <5>1, <5>2, LinkAssumption DEF TypeOK, LinkTypeOK
        <4> QED
          BY <4>1, <4>2
      <3>4. CASE Connect(h) \/ ReadMagic(h) \/ ReadPayload(h) \/ \E late \in BOOLEAN : ReconnectFails(h, late)
        BY <3>4 DEF Connect, ReadMagic, ReadPayload, ReconnectFails, Return, Goto, TypeOK, LinkTypeOK
      <3>5. CASE ReadFails(h) \/ \E late \in BOOLEAN : ConnectFails(h, late)
        BY <3>1, <3>5 DEF ReadFails, ConnectFails
      <3>6. CASE SkipByte(h)
        BY <3>1, <3>6 DEF SkipByte
      <3> QED
        BY <1>2, <3>2, <3>3, <3>4, <3>5, <3>6 DEF HostStep, Receive
    <2> QED
      BY <2>1, <2>2, <2>3 DEF AtLastRequest, Busy, Moved
  <1>3. ASSUME UNCHANGED <<linkVars, asked>> PROVE AtLastRequest'
    BY <1>3 DEF AtLastRequest, Busy, linkVars
  <1> QED
    BY <1>1, <1>2, <1>3 DEF Next, Detach, Serve, ServeFails, Vanish, ListenStep, history, vars


-----------------------------------------------------------------------------
\* Where the bytes of a concatenation stand.
LEMMA Concatenated ==
  ASSUME NEW s \in Seq(Byte), NEW t \in Seq(Byte)
  PROVE  /\ s \o t \in Seq(Byte)
         /\ Len(s \o t) = Len(s) + Len(t)
         /\ Within(s, s \o t, 0) /\ Within(t, s \o t, Len(s))
  BY Joined DEF Within

\* Bytes of the header the host has taken.
HeadTaken(pc) == IF pc = "len" THEN 1 ELSE IF pc = "payload" THEN 3 ELSE 0

\* The host's view of the stream.
LEMMA ViewBytes ==
  ASSUME NEW pc \in PCs, NEW len \in Nat, NEW in \in Seq(Byte)
  PROVE  /\ ViewOf(pc, len, in) \in Seq(Byte)
         /\ Len(ViewOf(pc, len, in)) = HeadTaken(pc) + Len(in)
         /\ Within(in, ViewOf(pc, len, in), HeadTaken(pc))
         /\ pc \notin {"len", "payload"} => ViewOf(pc, len, in) = in
         /\ pc = "len" => ViewOf(pc, len, in)[1] = FRAME_MAGIC
         /\ pc = "payload" => \A i \in 1 .. 3 : ViewOf(pc, len, in)[i] = FrameHead(len)[i]
  <1>0. Len(in) \in Nat
    BY LenProperties
  <1>1. CASE pc \notin {"len", "payload"}
    BY <1>0, <1>1 DEF ViewOf, HeadTaken, Within
  <1>2. CASE pc = "len"
    <2> DEFINE m == <<FRAME_MAGIC>>
    <2>1. m \in Seq(Byte) /\ Len(m) = 1 /\ m[1] = FRAME_MAGIC
      BY DEF FRAME_MAGIC, Byte
    <2>2. ViewOf(pc, len, in) = m \o in /\ HeadTaken(pc) = 1
      BY <1>2 DEF ViewOf, HeadTaken
    <2> HIDE DEF m
    <2>3. /\ m \o in \in Seq(Byte) /\ Len(m \o in) = 1 + Len(in)
          /\ Within(in, m \o in, 1)
      BY <2>1, Concatenated
    <2>4. (m \o in)[1] = FRAME_MAGIC
      BY <2>1, Joined
    <2> QED
      BY <1>2, <2>2, <2>3, <2>4
  <1>3. CASE pc = "payload"
    <2> DEFINE m == FrameHead(len)
    <2>1. m \in Seq(Byte) /\ Len(m) = 3
      BY HeadBytes
    <2>2. ViewOf(pc, len, in) = m \o in /\ HeadTaken(pc) = 3
      BY <1>3 DEF ViewOf, HeadTaken
    <2> HIDE DEF m
    <2>3. /\ m \o in \in Seq(Byte) /\ Len(m \o in) = 3 + Len(in)
          /\ Within(in, m \o in, 3)
      BY <2>1, Concatenated
    <2>4. \A i \in 1 .. Len(m) : (m \o in)[i] = m[i]
      BY <2>1, Joined
    <2>5. \A i \in 1 .. 3 : (m \o in)[i] = m[i]
      BY <2>1, <2>4
    <2> QED
      BY <1>3, <2>2, <2>3, <2>5 DEF m
  <1> QED
    BY <1>1, <1>2, <1>3

\* It grows with the inbox ...
LEMMA ViewGrows ==
  ASSUME NEW pc \in PCs, NEW len \in Nat, NEW in \in Seq(Byte), NEW b \in Seq(Byte)
  PROVE  LET s == ViewOf(pc, len, in)
             t == ViewOf(pc, len, in \o b)
         IN  /\ t \in Seq(Byte)
             /\ Len(t) = Len(s) + Len(b)
             /\ Within(s, t, 0) /\ Within(b, t, Len(s))
  <1> DEFINE s == ViewOf(pc, len, in)
             u == in \o b
             t == ViewOf(pc, len, u)
             k == HeadTaken(pc)
             Grown == /\ t \in Seq(Byte)
                      /\ Len(t) = Len(s) + Len(b)
                      /\ Within(s, t, 0) /\ Within(b, t, Len(s))
  <1> SUFFICES Grown
    OBVIOUS
  <1>1. /\ u \in Seq(Byte) /\ Len(in) \in Nat /\ Len(b) \in Nat
        /\ Len(u) = Len(in) + Len(b)
        /\ Within(in, u, 0) /\ Within(b, u, Len(in))
    BY Concatenated, LenProperties
  <1> HIDE DEF u
  <1>2. /\ s \in Seq(Byte) /\ Len(s) = k + Len(in)
        /\ t \in Seq(Byte) /\ Len(t) = k + Len(u)
        /\ Within(in, s, k) /\ Within(u, t, k)
    BY <1>1, ViewBytes
  <1>3. k \in 0 .. 3 /\ \A i \in 1 .. k : s[i] = t[i]
    <2>1. CASE pc \notin {"len", "payload"}
      BY <2>1 DEF HeadTaken
    <2>2. CASE pc = "len"
      <3>1. k = 1
        BY <2>2 DEF HeadTaken
      <3>2. s[1] = FRAME_MAGIC
        BY <2>2, ViewBytes
      <3>3. t[1] = FRAME_MAGIC
        BY <1>1, <2>2, ViewBytes
      <3> HIDE DEF s, t, k
      <3> QED
        BY <3>1, <3>2, <3>3
    <2>3. CASE pc = "payload"
      <3>1. k = 3
        BY <2>3 DEF HeadTaken
      <3>2. \A i \in 1 .. 3 : s[i] = FrameHead(len)[i]
        BY <2>3, ViewBytes
      <3>3. \A i \in 1 .. 3 : t[i] = FrameHead(len)[i]
        BY <1>1, <2>3, ViewBytes
      <3> HIDE DEF s, t, k
      <3> QED
        BY <3>1, <3>2, <3>3
    <2> QED
      BY <2>1, <2>2, <2>3
  <1> HIDE DEF s, t, k
  <1>4. ASSUME NEW i \in 1 .. Len(s) PROVE t[0 + i] = s[i]
    <2>1. CASE i <= k
      <3>1. 0 + i = i /\ i \in 1 .. k
        BY <1>1, <1>2, <1>3, <2>1
      <3> QED
        BY <1>3, <3>1
    <2>2. CASE i > k
      <3>1. i - k \in 1 .. Len(in) /\ i - k \in 1 .. Len(u) /\ k + (i - k) = i /\ 0 + i = i
            /\ 0 + (i - k) = i - k
        BY <1>1, <1>2, <1>3, <2>2
      <3>2. s[i] = in[i - k] /\ t[i] = u[i - k]
        BY <1>2, <3>1 DEF Within
      <3>3. u[i - k] = in[i - k]
        BY <1>1, <3>1 DEF Within
      <3> QED
        BY <3>1, <3>2, <3>3
    <2> QED
      BY <1>1, <1>2, <1>3, <2>1, <2>2
  <1>5. ASSUME NEW i \in 1 .. Len(b) PROVE t[Len(s) + i] = b[i]
    <2>1. Len(in) + i \in 1 .. Len(u) /\ k + (Len(in) + i) = Len(s) + i
      BY <1>1, <1>2, <1>3
    <2>2. t[k + (Len(in) + i)] = u[Len(in) + i] /\ u[Len(in) + i] = b[i]
      BY <1>1, <1>2, <2>1 DEF Within
    <2> QED
      BY <2>1, <2>2
  <1> QED
    BY <1>1, <1>2, <1>3, <1>4, <1>5 DEF Within

\* ... and stays the same while the header is read.
LEMMA ViewStays ==
  ASSUME NEW len \in Nat, NEW in \in Seq(Byte), NEW k \in {1, 2}, k <= Len(in)
  PROVE  LET rest == SubSeq(in, k + 1, Len(in))
         IN  /\ k = 1 /\ in[1] = FRAME_MAGIC => ViewOf("len", len, rest) = ViewOf("magic", len, in)
             /\ k = 2 => ViewOf("payload", AnnouncedLen(in[1], in[2]), rest) = ViewOf("len", len, in)
  <1> DEFINE rest == SubSeq(in, k + 1, Len(in))
  <1>1. /\ rest \in Seq(Byte) /\ Len(rest) = Len(in) - k /\ Len(in) \in Nat
        /\ Within(rest, in, k)
    BY LastBytes, LenProperties DEF Within
  <1>2. {"len", "magic", "payload"} \subseteq PCs
    BY DEF PCs
  <1> HIDE DEF rest
  <1>3. ASSUME k = 1, in[1] = FRAME_MAGIC
        PROVE  ViewOf("len", len, rest) = ViewOf("magic", len, in)
    <2> DEFINE s == ViewOf("len", len, rest)
    <2>1. /\ s \in Seq(Byte) /\ Len(s) = 1 + Len(rest) /\ s[1] = FRAME_MAGIC
          /\ Within(rest, s, 1)
      BY <1>1, <1>2, ViewBytes DEF HeadTaken
    <2> HIDE DEF s
    <2>2. Len(s) = Len(in) /\ \A i \in 1 .. Len(s) : s[i] = in[i]
      <3>1. ASSUME NEW i \in 1 .. Len(s), i # 1 PROVE s[i] = in[i]
        <4>1. i - 1 \in 1 .. Len(rest) /\ 1 + (i - 1) = i /\ k + (i - 1) = i
          BY <1>1, <1>3, <2>1, <3>1
        <4>2. s[i] = rest[i - 1] /\ rest[i - 1] = in[i]
          BY <1>1, <2>1, <4>1 DEF Within
        <4> QED
          BY <4>2
      <3> QED
        BY <1>1, <1>3, <2>1, <3>1
    <2>3. s = in
      BY <2>1, <2>2, SameBytes
    <2> QED
      BY <1>2, <2>3, ViewBytes DEF s
  <1>4. ASSUME k = 2
        PROVE  ViewOf("payload", AnnouncedLen(in[1], in[2]), rest) = ViewOf("len", len, in)
    <2> DEFINE n == AnnouncedLen(in[1], in[2])
               s == ViewOf("payload", n, rest)
               t == ViewOf("len", len, in)
    <2>1. in[1] \in Byte /\ in[2] \in Byte
      BY <1>4, ElementOfSeq
    <2>2. n \in Nat /\ FrameHead(n) = <<FRAME_MAGIC, in[1], in[2]>>
      BY <2>1, HeadOf
    <2>3. FrameHead(n)[1] = FRAME_MAGIC /\ FrameHead(n)[2] = in[1] /\ FrameHead(n)[3] = in[2]
      BY <2>2
    <2> HIDE DEF n
    <2>4. /\ s \in Seq(Byte) /\ Len(s) = 3 + Len(rest)
          /\ \A i \in 1 .. 3 : s[i] = FrameHead(n)[i]
          /\ Within(rest, s, 3)
      BY <1>1, <1>2, <2>2, ViewBytes DEF HeadTaken
    <2>5. /\ t \in Seq(Byte) /\ Len(t) = 1 + Len(in) /\ t[1] = FRAME_MAGIC
          /\ Within(in, t, 1)
      BY <1>2, ViewBytes DEF HeadTaken
    <2> HIDE DEF s, t
    <2>6. Len(s) = Len(t)
      BY <1>1, <1>4, <2>4, <2>5
    <2>7. ASSUME NEW i \in 1 .. Len(s) PROVE s[i] = t[i]
      <3>1. CASE i <= 3
        <4>1. t[2] = in[1] /\ t[3] = in[2]
          <5>1. 1 \in 1 .. Len(in) /\ 2 \in 1 .. Len(in) /\ 1 + 1 = 2 /\ 1 + 2 = 3
            BY <1>1, <1>4
          <5> QED
            BY <2>5, <5>1 DEF Within
        <4>2. i = 1 \/ i = 2 \/ i = 3
          BY <1>1, <2>4, <3>1
        <4> QED
          BY <2>3, <2>4, <2>5, <4>1, <4>2
      <3>2. CASE i > 3
        <4>1. /\ i - 3 \in 1 .. Len(rest) /\ 3 + (i - 3) = i
              /\ i - 1 \in 1 .. Len(in) /\ 1 + (i - 1) = i /\ k + (i - 3) = i - 1
          BY <1>1, <1>4, <2>4, <3>2
        <4>2. s[i] = rest[i - 3] /\ rest[i - 3] = in[i - 1] /\ t[i] = in[i - 1]
          BY <1>1, <2>4, <2>5, <4>1 DEF Within
        <4> QED
          BY <4>2
      <3> QED
        BY <1>1, <2>4, <3>1, <3>2
    <2> QED
      BY <2>4, <2>5, <2>6, <2>7, SameBytes DEF s, t, n
  <1> QED
    BY <1>3, <1>4 DEF rest

\* Frames appended, completed and taken.
LEMMA EmptyFramed ==
  Framed(<<>>, {1}) /\ Open(<<>>, {1}, 0)
  BY DEF Framed, Open

\* The header of the next frame, or the first bytes of it.
LEMMA AppendHead ==
  ASSUME NEW s \in Seq(Byte), NEW P, Framed(s, P), Open(s, P, 0),
         NEW m \in Nat, m <= MAX_FRAME, NEW n \in 0 .. 3,
         NEW t \in Seq(Byte), Len(t) = Len(s) + n, Within(s, t, 0),
         Within(SubSeq(FrameHead(m), 1, n), t, Len(s))
  PROVE  \E Q : Framed(t, Q) /\ (n = 3 => Open(t, Q, m))
  <1> DEFINE L == Len(s)
             e == L + 4 + m
             Q == P \cup {e}
  <1>0. \A i \in 1 .. L : t[i] = s[i]
    BY DEF Within
  <1>1. L \in Nat /\ P \subseteq Nat \ {0} /\ 1 \in P /\ Len(t) = L + n /\ MAX_FRAME < LenLimit /\ MAX_FRAME \in Nat
    BY LenProperties, LinkAssumption DEF Framed
  <1>2. L + 1 \in P /\ \A p \in P : p + 2 <= L \/ p = L + 1
    BY <1>1 DEF Open
  <1>3. FrameHead(m)[1] = FRAME_MAGIC /\ AnnouncedLen(FrameHead(m)[2], FrameHead(m)[3]) = m
    BY <1>1, HeadBytes DEF LenLimit
  <1>4. ASSUME NEW p \in P, p + 2 <= L
        PROVE  t[p] = FRAME_MAGIC /\ LenAt(t, p) <= MAX_FRAME /\ p + 3 + LenAt(t, p) \in P
    <2>1. p \in 1 .. L /\ p + 1 \in 1 .. L /\ p + 2 \in 1 .. L
      BY <1>1, <1>4
    <2>2. t[p] = s[p] /\ t[p + 1] = s[p + 1] /\ t[p + 2] = s[p + 2]
      BY <2>1, <1>0
    <2> QED
      BY <1>1, <1>4, <2>1, <2>2 DEF Framed, LenAt
  <1>9. \A i \in 1 .. n : t[L + i] = FrameHead(m)[i]
    <2>3. n \in Nat /\ n <= 3
      OBVIOUS
    <2>4. FrameHead(m) \in Seq(Byte) /\ Len(FrameHead(m)) = 3
      BY HeadBytes
    <2>1. FrameHead(m) \in Seq(Byte) /\ n \in Nat /\ n <= Len(FrameHead(m))
      BY <2>3, <2>4
    <2>2. /\ Len(SubSeq(FrameHead(m), 1, n)) = n
          /\ \A i \in 1 .. n : SubSeq(FrameHead(m), 1, n)[i] = FrameHead(m)[i]
      BY <2>1, FirstBytes
    <2> QED
      BY <2>2 DEF Within
  <1>5. n >= 1 => t[L + 1] = FRAME_MAGIC
    BY <1>3, <1>9
  <1>6. n = 3 => LenAt(t, L + 1) = m
    <2> SUFFICES ASSUME n = 3 PROVE LenAt(t, L + 1) = m
      OBVIOUS
    <2>1. (L + 1) + 1 = L + 2 /\ (L + 1) + 2 = L + 3 /\ 2 \in 1 .. n /\ 3 \in 1 .. n
      BY <1>1
    <2>2. t[L + 2] = FrameHead(m)[2] /\ t[L + 3] = FrameHead(m)[3]
      BY <1>9, <2>1
    <2> QED
      BY <1>3, <2>1, <2>2 DEF LenAt
  <1>7. Framed(t, Q)
    <2>3. e \in Nat \ {0} /\ e > L + n /\ (L + 1) + 3 + m = e
      <3>1. n \in Nat /\ n <= 3 /\ L \in Nat
        BY <1>1
      <3> HIDE DEF L
      <3> QED
        BY <3>1
    <2>4. Q \subseteq Nat \ {0} /\ 1 \in Q
      <3> HIDE DEF e
      <3> QED
        BY <1>1, <2>3
    <2>1. Q \subseteq Nat \ {0} /\ 1 \in Q /\ e > L + n /\ (L + 1) + 3 + m = e
      BY <2>3, <2>4
    <2>2. ASSUME NEW p \in Q, p <= Len(t)
          PROVE  t[p] = FRAME_MAGIC /\ (p + 2 <= Len(t) => LenAt(t, p) <= MAX_FRAME /\ p + 3 + LenAt(t, p) \in Q)
      <3>1. p \in P
        BY <1>1, <2>1, <2>2
      <3>2. CASE p + 2 <= L
        BY <1>4, <3>1, <3>2
      <3>3. CASE p = L + 1
        <4>1. n >= 1 /\ (p + 2 <= Len(t) => n = 3)
          BY <1>1, <2>2, <3>3
        <4> QED
          BY <1>5, <1>6, <2>1, <3>3, <4>1
      <3> QED
        BY <1>2, <3>1, <3>2, <3>3
    <2> QED
      BY <2>1, <2>2 DEF Framed
  <1>8. ASSUME n = 3 PROVE Open(t, Q, m)
    <2>1. Len(t) + 1 + m = e /\ e \in Q
      BY <1>1, <1>8
    <2>2. ASSUME NEW p \in Q PROVE p + 2 <= Len(t) \/ p = Len(t) + 1 + m
      <3>1. CASE p = e
        BY <2>1, <3>1
      <3>2. CASE p \in P
        BY <1>1, <1>2, <1>8, <3>2
      <3> QED
        BY <3>1, <3>2
    <2> QED
      BY <2>1, <2>2 DEF Open
  <1> QED
    BY <1>7, <1>8

\* More bytes of the last frame.
LEMMA AppendBody ==
  ASSUME NEW s \in Seq(Byte), NEW P, NEW k \in Nat, Framed(s, P), Open(s, P, k),
         NEW n \in 0 .. k,
         NEW t \in Seq(Byte), Len(t) = Len(s) + n, Within(s, t, 0)
  PROVE  Framed(t, P) /\ Open(t, P, k - n)
  <1> DEFINE L == Len(s)
  <1>0. \A i \in 1 .. L : t[i] = s[i]
    BY DEF Within
  <1>1. L \in Nat /\ P \subseteq Nat \ {0} /\ 1 \in P /\ Len(t) = L + n
    BY LenProperties DEF Framed
  <1>2. L + 1 + k \in P /\ \A p \in P : p + 2 <= L \/ p = L + 1 + k
    BY DEF Open
  <1>3. ASSUME NEW p \in P, p + 2 <= L
        PROVE  t[p] = FRAME_MAGIC /\ LenAt(t, p) <= MAX_FRAME /\ p + 3 + LenAt(t, p) \in P
    <2>1. p \in 1 .. L /\ p + 1 \in 1 .. L /\ p + 2 \in 1 .. L
      BY <1>1, <1>3
    <2>2. t[p] = s[p] /\ t[p + 1] = s[p + 1] /\ t[p + 2] = s[p + 2]
      BY <2>1, <1>0
    <2> QED
      BY <1>1, <1>3, <2>1, <2>2 DEF Framed, LenAt
  <1>4. L + 1 + k > Len(t) /\ Len(t) + 1 + (k - n) = L + 1 + k
    BY <1>1
  <1>5. Framed(t, P)
    BY <1>1, <1>2, <1>3, <1>4 DEF Framed
  <1>6. \A p \in P : p + 2 <= Len(t) \/ p = L + 1 + k
    BY <1>1, <1>2
  <1> QED
    BY <1>2, <1>4, <1>5, <1>6 DEF Open

\* The first frame is taken.
LEMMA DropFrame ==
  ASSUME NEW s \in Seq(Byte), NEW P, Framed(s, P),
         NEW len \in Nat, 3 + len <= Len(s), LenAt(s, 1) = len,
         NEW t \in Seq(Byte), Len(t) = Len(s) - (3 + len),
         Within(t, s, 3 + len)
  PROVE  \E Q : Framed(t, Q) /\ \A k \in Nat : Open(s, P, k) => Open(t, Q, k)
  <1> DEFINE L == Len(s)
             d == 3 + len
             Q == {q \in Nat \ {0} : q + d \in P}
  <1>1. L \in Nat /\ P \subseteq Nat \ {0} /\ 1 \in P /\ d \in Nat /\ d >= 3 /\ Len(t) = L - d /\ d <= L
    BY LenProperties DEF Framed
  <1> HIDE DEF d
  <1>2. 1 \in Q
    <2>1. 1 <= L /\ 1 + 2 <= L
      BY <1>1
    <2>2. 1 + 3 + len \in P
      BY <2>1 DEF Framed
    <2> QED
      BY <1>1, <2>2 DEF d
  <1>3. ASSUME NEW q \in Q, q <= Len(t)
        PROVE  t[q] = FRAME_MAGIC /\ (q + 2 <= Len(t) => LenAt(t, q) <= MAX_FRAME /\ q + 3 + LenAt(t, q) \in Q)
    <2>1. q + d \in P /\ q \in Nat /\ q # 0 /\ q + d <= L /\ q \in 1 .. Len(t)
      BY <1>1, <1>3
    <2>2. \A i \in 1 .. Len(t) : t[i] = s[d + i]
      BY DEF d, Within
    <2>3. t[q] = FRAME_MAGIC
      <3>1. d + q = q + d
        BY <1>1, <2>1
      <3> QED
        BY <2>1, <2>2, <3>1 DEF Framed
    <2>4. ASSUME q + 2 <= Len(t) PROVE LenAt(t, q) <= MAX_FRAME /\ q + 3 + LenAt(t, q) \in Q
      <3>1. /\ q + 1 \in 1 .. Len(t) /\ q + 2 \in 1 .. Len(t)
            /\ d + (q + 1) = (q + d) + 1 /\ d + (q + 2) = (q + d) + 2 /\ (q + d) + 2 <= L
        BY <1>1, <2>1, <2>4
      <3>2. LenAt(t, q) = LenAt(s, q + d)
        BY <2>2, <3>1 DEF LenAt
      <3>3. LenAt(s, q + d) <= MAX_FRAME /\ (q + d) + 3 + LenAt(s, q + d) \in P
        BY <2>1, <3>1 DEF Framed
      <3>4. LenAt(t, q) \in Nat
        <4>1. t[q + 1] \in Byte /\ t[q + 2] \in Byte
          BY <3>1, ElementOfSeq
        <4> QED
          BY <4>1, HeadOf DEF LenAt
      <3> DEFINE a == LenAt(t, q)
      <3>5. a \in Nat /\ (q + d) + 3 + a \in P /\ a <= MAX_FRAME
        BY <3>2, <3>3, <3>4
      <3> HIDE DEF a
      <3>6. (q + 3 + a) + d = (q + d) + 3 + a /\ q + 3 + a \in Nat \ {0}
        BY <1>1, <2>1, <3>5
      <3>7. q + 3 + a \in Q
        BY <3>5, <3>6
      <3> QED
        BY <3>5, <3>7 DEF a
    <2> QED
      BY <2>3, <2>4
  <1>4. Framed(t, Q)
    BY <1>2, <1>3 DEF Framed
  <1>5. ASSUME NEW k \in Nat, Open(s, P, k) PROVE Open(t, Q, k)
    <2>1. L + 1 + k \in P /\ \A p \in P : p + 2 <= L \/ p = L + 1 + k
      BY <1>5 DEF Open
    <2>2. Len(t) + 1 + k \in Nat \ {0} /\ (Len(t) + 1 + k) + d = L + 1 + k
      BY <1>1
    <2>3. ASSUME NEW q \in Q PROVE q + 2 <= Len(t) \/ q = Len(t) + 1 + k
      <3>1. q + d \in P /\ q \in Nat
        OBVIOUS
      <3>2. (q + d) + 2 <= L \/ q + d = L + 1 + k
        BY <2>1, <3>1
      <3> QED
        BY <1>1, <3>1, <3>2
    <2> QED
      BY <2>1, <2>2, <2>3 DEF Open
  <1> QED
    BY <1>4, <1>5

-----------------------------------------------------------------------------
\* Nothing but frames comes down.
LEMMA FramesKept ==
  ASSUME NEW h \in Sessions, FramesOf(h),
         \/ /\ View(h)' = View(h)
            /\ Live(h)' /\ tpc' # "finish" => Live(h) /\ tpc # "finish" /\ Unsent' = Unsent
         \/ /\ View(h)' = <<>>
            /\ Live(h)' /\ tpc' # "finish" => Unsent' = 0
  PROVE  FramesOf(h)'
  <1>1. CASE /\ View(h)' = View(h)
             /\ Live(h)' /\ tpc' # "finish" => Live(h) /\ tpc # "finish" /\ Unsent' = Unsent
    <2>1. PICK P : Framed(View(h), P) /\ (Live(h) /\ tpc # "finish" => Open(View(h), P, Unsent))
      BY DEF FramesOf
    <2>2. Framed(View(h)', P) /\ (Live(h)' /\ tpc' # "finish" => Open(View(h)', P, Unsent'))
      BY <1>1, <2>1
    <2> QED
      BY <2>2 DEF FramesOf
  <1>2. CASE /\ View(h)' = <<>>
             /\ Live(h)' /\ tpc' # "finish" => Unsent' = 0
    <2>1. Framed(View(h)', {1}) /\ (Live(h)' /\ tpc' # "finish" => Open(View(h)', {1}, Unsent'))
      BY <1>2, EmptyFramed
    <2> QED
      BY <2>1 DEF FramesOf
  <1> QED
    BY <1>1, <1>2

\* The host meets a magic byte where it looks for one, and a legal length.
LEMMA MeetsFrames ==
  ASSUME TypeOK, NEW h \in Sessions, FramesOf(h)
  PROVE  /\ lpc[h] = "magic" /\ inbox[h] # <<>> => inbox[h][1] = FRAME_MAGIC /\ Head(inbox[h]) = FRAME_MAGIC
         /\ lpc[h] = "len" /\ Len(inbox[h]) >= 2 => AnnouncedLen(inbox[h][1], inbox[h][2]) <= MAX_FRAME
         /\ lpc[h] = "payload" /\ need[h] <= MAX_FRAME => LenAt(View(h), 1) = need[h]
  <1>1. inbox[h] \in Seq(Byte) /\ Len(inbox[h]) \in Nat /\ lpc[h] \in PCs /\ need[h] \in Nat
    BY LenProperties DEF TypeOK, TcpTypeOK, LinkTypeOK
  <1> DEFINE s == View(h)
  <1>2. /\ s \in Seq(Byte) /\ Len(s) = HeadTaken(lpc[h]) + Len(inbox[h])
        /\ Within(inbox[h], s, HeadTaken(lpc[h]))
        /\ lpc[h] \notin {"len", "payload"} => s = inbox[h]
        /\ lpc[h] = "payload" => \A i \in 1 .. 3 : s[i] = FrameHead(need[h])[i]
    BY <1>1, ViewBytes DEF View
  <1>3. /\ 1 <= Len(s) => s[1] = FRAME_MAGIC
        /\ 3 <= Len(s) => LenAt(s, 1) <= MAX_FRAME
    <2>1. PICK P : Framed(s, P)
      BY DEF FramesOf
    <2> QED
      BY <2>1 DEF Framed
  <1> HIDE DEF s
  <1>4. ASSUME lpc[h] = "magic", inbox[h] # <<>>
        PROVE  inbox[h][1] = FRAME_MAGIC /\ Head(inbox[h]) = FRAME_MAGIC
    <2>1. s = inbox[h] /\ Len(inbox[h]) >= 1
      BY <1>1, <1>2, <1>4, EmptySeq
    <2> QED
      BY <1>1, <1>3, <1>4, <2>1, HeadTailProperties
  <1>5. ASSUME lpc[h] = "len", Len(inbox[h]) >= 2
        PROVE  AnnouncedLen(inbox[h][1], inbox[h][2]) <= MAX_FRAME
    <2>1. HeadTaken(lpc[h]) = 1
      BY <1>5 DEF HeadTaken
    <2>2. 1 \in 1 .. Len(inbox[h]) /\ 2 \in 1 .. Len(inbox[h]) /\ 3 <= Len(s)
      BY <1>1, <1>2, <1>5, <2>1
    <2>3. s[1 + 1] = inbox[h][1] /\ s[1 + 2] = inbox[h][2]
      BY <1>2, <2>1, <2>2 DEF Within
    <2> QED
      BY <1>3, <2>2, <2>3 DEF LenAt
  <1>6. ASSUME lpc[h] = "payload", need[h] <= MAX_FRAME
        PROVE  LenAt(s, 1) = need[h]
    <2>1. s[2] = FrameHead(need[h])[2] /\ s[3] = FrameHead(need[h])[3]
      BY <1>2, <1>6
    <2>2. need[h] < LenLimit
      BY <1>1, <1>6, LinkAssumption DEF LenLimit
    <2>3. AnnouncedLen(FrameHead(need[h])[2], FrameHead(need[h])[3]) = need[h]
      BY <1>1, <2>2, HeadBytes
    <2> QED
      BY <2>1, <2>3 DEF LenAt
  <1> QED
    BY <1>4, <1>5, <1>6 DEF s

\* What a step of a session comes to.
GivesUp(h) == stream'[h] = "none" /\ inbox'[h] = <<>> /\ lpc'[h] \in {"idle", "reconnect"}

Stays(h) ==
  /\ View(h)' = View(h)
  /\ Reading(h)' = Reading(h)
  /\ UNCHANGED <<listening, peer, up, stream>>

\* A step of a host changes the stream in one of these ways.
LEMMA HostOutcome ==
  ASSUME TypeOK, FramesOnly, NEW h \in Sessions, HostStep(h)
  PROVE  /\ \A g \in Sessions \ {h} : stream'[g] = stream[g] /\ inbox'[g] = inbox[g]
         /\ GivesUp(h) \/ Connect(h) \/ Write(h) \/ Stays(h) \/ ReadPayload(h)
  <1> DEFINE Outcome ==
        /\ \A g \in Sessions \ {h} : stream'[g] = stream[g] /\ inbox'[g] = inbox[g]
        /\ GivesUp(h) \/ Connect(h) \/ Write(h) \/ Stays(h) \/ ReadPayload(h)
  <1>0. /\ inbox[h] \in Seq(Byte) /\ lpc[h] \in PCs /\ need[h] \in Nat /\ FramesOf(h)
        /\ lpc \in [Sessions -> PCs] /\ need \in [Sessions -> Nat] /\ Len(inbox[h]) \in Nat
        /\ inbox \in [Sessions -> Seq(Byte)]
    BY LenProperties DEF TypeOK, TcpTypeOK, LinkTypeOK, FramesOnly
  <1>1. ASSUME FailTry(h) PROVE Outcome
    BY <1>1, Failed, Dropped DEF GivesUp
  <1>2. CASE Send(h)
    <2>1. CASE Write(h)
      BY <2>1 DEF Write
    <2>2. CASE ~Write(h)
      <3>1. FailTry(h)
        BY <1>2, <2>2 DEF Send, WriteFails
      <3> QED
        BY <1>1, <3>1
    <2> QED
      BY <2>1, <2>2
  <1>3. CASE Connect(h)
    <2>1. Establish(h, "live")
      BY <1>3 DEF Connect
    <2> QED
      BY <1>3, <2>1, Established
  <1>4. ASSUME NEW late \in BOOLEAN, ConnectFails(h, late) PROVE Outcome
    BY <1>1, <1>4 DEF ConnectFails
  <1>5. ASSUME NEW late \in BOOLEAN, ReconnectFails(h, late) PROVE Outcome
    <2>1. lpc[h] = "reconnect" /\ lpc'[h] = "idle" /\ need' = need
      BY <1>0, <1>5 DEF ReconnectFails, Return, Goto
    <2>2. CASE late
      <3>1. Establish(h, "none")
        BY <1>5, <2>2 DEF ReconnectFails
      <3> QED
        BY <2>1, <3>1, Established DEF GivesUp
    <2>3. CASE ~late
      <3>1. UNCHANGED tcpVars
        BY <1>5, <2>3 DEF ReconnectFails
      <3>2. View(h)' = View(h)
        BY <2>1, <3>1 DEF View, ViewOf, tcpVars
      <3>3. Reading(h)' = Reading(h)
        BY <2>1 DEF Reading
      <3> QED
        BY <3>1, <3>2, <3>3 DEF Stays, tcpVars
    <2> QED
      BY <2>2, <2>3
  <1>6. CASE ReadFails(h)
    BY <1>1, <1>6 DEF ReadFails
  <1>11. ASSUME NEW pc \in PCs, lpc' = [lpc EXCEPT ![h] = pc], CanRead(h), TakeInbox(h)
         PROVE  /\ lpc'[h] = pc
                /\ inbox'[h] = SubSeq(inbox[h], Wanted(h) + 1, Len(inbox[h]))
                /\ \A g \in Sessions \ {h} : inbox'[g] = inbox[g]
    BY <1>0, <1>11 DEF TakeInbox
  <1>7. CASE ReadMagic(h)
    <2>1. /\ lpc[h] = "magic" /\ Wanted(h) = 1 /\ 1 <= Len(inbox[h]) /\ lpc' = [lpc EXCEPT ![h] = "len"]
          /\ CanRead(h) /\ TakeInbox(h)
          /\ Head(inbox[h]) = FRAME_MAGIC /\ UNCHANGED <<listening, peer, up, stream, need>>
      BY <1>7 DEF ReadMagic, CanRead, Wanted, Goto
    <2>2. /\ lpc'[h] = "len" /\ inbox'[h] = SubSeq(inbox[h], 2, Len(inbox[h]))
          /\ \A g \in Sessions \ {h} : inbox'[g] = inbox[g]
      BY <1>11, <2>1 DEF PCs
    <2>3. inbox[h][1] = FRAME_MAGIC
      BY <1>0, <2>1, HeadTailProperties
    <2>4. ViewOf("len", need[h], SubSeq(inbox[h], 2, Len(inbox[h]))) = ViewOf("magic", need[h], inbox[h])
      BY <1>0, <2>1, <2>3, ViewStays
    <2>5. View(h)' = View(h)
      BY <2>1, <2>2, <2>4 DEF View
    <2>6. Reading(h)' = Reading(h)
      BY <2>1, <2>2 DEF Reading
    <2> QED
      BY <2>1, <2>2, <2>5, <2>6 DEF Stays
  <1>8. CASE SkipByte(h)
    <2>1. lpc[h] = "magic" /\ 1 <= Len(inbox[h]) /\ Head(inbox[h]) # FRAME_MAGIC
      BY <1>8 DEF SkipByte, CanRead, Wanted
    <2>2. inbox[h] # <<>>
      BY <2>1
    <2> QED
      BY <1>0, <2>1, <2>2, MeetsFrames
  <1>9. CASE ReadLen(h)
    <2> DEFINE n == AnnouncedLen(inbox[h][1], inbox[h][2])
    <2>1. lpc[h] = "len" /\ Wanted(h) = 2 /\ 2 <= Len(inbox[h]) /\ CanRead(h)
      BY <1>9 DEF ReadLen, CanRead, Wanted
    <2>2. n <= MAX_FRAME /\ n \in Nat
      <3>1. inbox[h][1] \in Byte /\ inbox[h][2] \in Byte
        BY <1>0, <2>1
      <3> QED
        BY <1>0, <2>1, <3>1, MeetsFrames, HeadOf
    <2>3. /\ TakeInbox(h) /\ need' = [need EXCEPT ![h] = n] /\ lpc' = [lpc EXCEPT ![h] = "payload"]
          /\ UNCHANGED <<listening, peer, up, stream>>
      <3>1. ~(n > MAX_FRAME)
        BY <2>2, LinkAssumption
      <3> QED
        BY <1>9, <3>1 DEF ReadLen, Goto
    <2>4. ViewOf("payload", n, SubSeq(inbox[h], 3, Len(inbox[h]))) = ViewOf("len", need[h], inbox[h])
      BY <1>0, <2>1, ViewStays
    <2> HIDE DEF n
    <2>5. /\ lpc'[h] = "payload" /\ inbox'[h] = SubSeq(inbox[h], 3, Len(inbox[h])) /\ need'[h] = n
          /\ \A g \in Sessions \ {h} : inbox'[g] = inbox[g]
      BY <1>0, <1>11, <2>1, <2>3 DEF PCs
    <2>6. View(h)' = View(h)
      BY <2>1, <2>4, <2>5 DEF View
    <2>7. Reading(h)' = Reading(h)
      BY <2>1, <2>5 DEF Reading
    <2> QED
      BY <2>3, <2>5, <2>6, <2>7 DEF Stays
  <1>10. CASE ReadPayload(h)
    BY <1>10, Taken DEF ReadPayload
  <1> QED
    BY <1>2, <1>3, <1>4, <1>5, <1>6, <1>7, <1>8, <1>9, <1>10 DEF HostStep, Receive

\* Reading a whole payload takes exactly the first frame off the view.
LEMMA TakesFrame ==
  ASSUME TypeOK, AtLastRequest, NEW h \in Sessions, FramesOf(h), ReadPayload(h)
  PROVE  /\ inbox'[h] \in Seq(Byte) /\ View(h)' = inbox'[h]
         /\ View(h) \in Seq(Byte)
         /\ need[h] \in Nat /\ LenAt(View(h), 1) = need[h] /\ 3 + need[h] <= Len(View(h))
         /\ Len(View(h)') = Len(View(h)) - (3 + need[h])
         /\ Within(View(h)', View(h), 3 + need[h])
  <1>1. /\ inbox[h] \in Seq(Byte) /\ Len(inbox[h]) \in Nat /\ need[h] \in Nat /\ lpc[h] = "payload"
        /\ lpc \in [Sessions -> PCs] /\ CanRead(h) /\ TakeInbox(h) /\ Wanted(h) = need[h]
        /\ need[h] <= MAX_FRAME
    BY LenProperties DEF TypeOK, TcpTypeOK, LinkTypeOK, ReadPayload, Wanted, AtLastRequest
  <1>2. /\ need[h] <= Len(inbox[h])
        /\ inbox'[h] \in Seq(Byte) /\ Len(inbox'[h]) = Len(inbox[h]) - need[h]
        /\ \A i \in 1 .. Len(inbox'[h]) : inbox'[h][i] = inbox[h][need[h] + i]
    BY <1>1, Taken
  <1>3. lpc'[h] = "idle"
    BY <1>1 DEF ReadPayload, Return, Goto
  <1>4. View(h)' = inbox'[h]
    BY <1>3 DEF View, ViewOf
  <1> DEFINE s == View(h)
             t == inbox'[h]
             n == need[h]
  <1>5. /\ s \in Seq(Byte) /\ Len(s) = 3 + Len(inbox[h])
        /\ Within(inbox[h], s, 3)
    <2>1. "payload" \in PCs /\ HeadTaken("payload") = 3
      BY DEF PCs, HeadTaken
    <2>2. s = ViewOf("payload", need[h], inbox[h])
      BY <1>1 DEF View
    <2> DEFINE in == inbox[h]
               len == need[h]
    <2>3. in \in Seq(Byte) /\ len \in Nat
      BY <1>1
    <2> HIDE DEF s, in, len
    <2>4. /\ ViewOf("payload", len, in) \in Seq(Byte)
          /\ Len(ViewOf("payload", len, in)) = HeadTaken("payload") + Len(in)
          /\ Within(in, ViewOf("payload", len, in), HeadTaken("payload"))
      BY <2>1, <2>3, ViewBytes
    <2> QED
      BY <2>1, <2>2, <2>4 DEF in, len
  <1>6. LenAt(s, 1) = n
    BY <1>1, MeetsFrames
  <1> HIDE DEF s
  <1>7. Within(t, s, 3 + n)
    <2>1. ASSUME NEW i \in 1 .. Len(t) PROVE s[3 + n + i] = t[i]
      <3>1. n + i \in 1 .. Len(inbox[h]) /\ 3 + (n + i) = 3 + n + i
        BY <1>1, <1>2
      <3>2. s[3 + (n + i)] = inbox[h][n + i] /\ t[i] = inbox[h][n + i]
        BY <1>2, <1>5, <3>1 DEF Within
      <3> QED
        BY <3>1, <3>2
    <2> HIDE DEF t, n
    <2> QED
      BY <2>1 DEF Within
  <1>8. /\ s \in Seq(Byte) /\ LenAt(s, 1) = need[h] /\ 3 + need[h] <= Len(s)
        /\ Len(inbox'[h]) = Len(s) - (3 + need[h])
    BY <1>1, <1>2, <1>5, <1>6
  <1> QED
    BY <1>1, <1>2, <1>4, <1>7, <1>8 DEF s

\* The steps of a host.
LEMMA HostFrames ==
  ASSUME TypeOK, Connected, AtLastRequest, FramesOnly, NEW h \in Sessions, HostStep(h)
  PROVE  FramesOnly'
  <1>0. /\ UNCHANGED channelVars /\ Unsent' = Unsent /\ tpc' = tpc
        /\ Moved(h) /\ lpc \in [Sessions -> PCs]
    BY HostTypes DEF HostStep, channelVars, Unsent, TypeOK, LinkTypeOK
  <1>1. ASSUME NEW g \in Sessions \ {h} PROVE FramesOf(g)'
    <2>1. View(g)' = View(g) /\ Live(g)' = Live(g)
      BY <1>0, HostOutcome DEF View, Live, Moved
    <2> QED
      BY <1>0, <2>1, FramesKept DEF FramesOnly
  <1>2. FramesOf(h)'
    <2>1. CASE GivesUp(h)
      <3>1. View(h)' = <<>> /\ ~Live(h)'
        BY <2>1 DEF GivesUp, View, ViewOf, Live
      <3> QED
        BY <3>1, FramesKept DEF FramesOnly
    <2>2. CASE Connect(h)
      <3>1. lpc'[h] = "write" /\ Establish(h, "live")
        BY <1>0, <2>2 DEF Connect, Goto
      <3>2. inbox'[h] = <<>> /\ listening
        BY <3>1, Established
      <3>3. Unsent' = 0 /\ View(h)' = <<>>
        BY <1>0, <3>1, <3>2 DEF Connected, Unsent, View, ViewOf
      <3> QED
        BY <3>3, FramesKept DEF FramesOnly
    <2>3. CASE Write(h)
      <3>1. lpc[h] = "write" /\ lpc'[h] = "magic" /\ UNCHANGED <<need, inbox, stream>>
        BY <1>0, <2>3 DEF Write, Goto
      <3>2. View(h)' = View(h) /\ Live(h)' = Live(h)
        BY <3>1 DEF View, ViewOf, Live
      <3> QED
        BY <1>0, <3>2, FramesKept DEF FramesOnly
    <2>4. CASE Stays(h)
      BY <1>0, <2>4, FramesKept DEF FramesOnly, Stays, Live
    <2>5. CASE ReadPayload(h)
      <3>1. FramesOf(h) /\ Live(h)' = Live(h)
        BY <2>5 DEF FramesOnly, ReadPayload, Live
      <3> DEFINE s == View(h)
                 t == View(h)'
                 n == need[h]
      <3>2. /\ t \in Seq(Byte) /\ s \in Seq(Byte)
            /\ n \in Nat /\ LenAt(s, 1) = n /\ 3 + n <= Len(s)
            /\ Len(t) = Len(s) - (3 + n)
            /\ Within(t, s, 3 + n)
        BY <2>5, <3>1, TakesFrame
      <3>3. PICK P : Framed(s, P) /\ (Live(h) /\ tpc # "finish" => Open(s, P, Unsent))
        BY <3>1 DEF FramesOf
      <3> HIDE DEF s, t, n
      <3>4. PICK Q : Framed(t, Q) /\ \A k \in Nat : Open(s, P, k) => Open(t, Q, k)
        BY <3>2, <3>3, DropFrame
      <3>5. Unsent \in Nat
        BY LenProperties DEF Unsent, TypeOK, ChannelTypeOK
      <3>6. Framed(t, Q) /\ (Live(h)' /\ tpc' # "finish" => Open(t, Q, Unsent'))
        BY <1>0, <3>1, <3>3, <3>4, <3>5
      <3> QED
        BY <3>6 DEF FramesOf, t
    <2> QED
      BY <2>1, <2>2, <2>3, <2>4, <2>5, HostOutcome
  <1> QED
    BY <1>1, <1>2 DEF FramesOnly

\* What the firmware sends stands behind what the host has.
LEMMA ViewPutDown ==
  ASSUME TypeOK, NEW p \in Sessions, peer = p, Live(p), UNCHANGED <<lpc, need>>,
         NEW b \in Seq(Byte), PutDown(b)
  PROVE  /\ View(p) \in Seq(Byte) /\ View(p)' \in Seq(Byte)
         /\ Len(View(p)') = Len(View(p)) + Len(b)
         /\ Within(View(p), View(p)', 0) /\ Within(b, View(p)', Len(View(p)))
  <1> DEFINE pc == lpc[p]
             len == need[p]
             in == inbox[p]
  <1>1. inbox'[p] = in \o b
    BY PutDownBytes
  <1>2. View(p)' = ViewOf(pc, len, in \o b) /\ View(p) = ViewOf(pc, len, in)
    BY <1>1 DEF View
  <1>3. pc \in PCs /\ len \in Nat /\ in \in Seq(Byte)
    BY DEF TypeOK, TcpTypeOK, LinkTypeOK
  <1> HIDE DEF pc, len, in
  <1>4. /\ ViewOf(pc, len, in) \in Seq(Byte) /\ ViewOf(pc, len, in \o b) \in Seq(Byte)
        /\ Len(ViewOf(pc, len, in \o b)) = Len(ViewOf(pc, len, in)) + Len(b)
        /\ Within(ViewOf(pc, len, in), ViewOf(pc, len, in \o b), 0)
        /\ Within(b, ViewOf(pc, len, in \o b), Len(ViewOf(pc, len, in)))
    BY <1>3, ViewBytes, ViewGrows
  <1> QED
    BY <1>2, <1>4

\* The firmware sends a header, a response, or the first bytes of one.
LEMMA SendFrames ==
  ASSUME TypeOK, Connected, FramesOnly, UNCHANGED linkVars, NEW p \in Sessions, peer = p,
         SendHead \/ SendBody \/ \E n \in 0 .. N + 3 : SendFails(n)
  PROVE  FramesOnly'
  <1>1. /\ peer' = p /\ UNCHANGED <<stream, lpc, need>> /\ resp \in Answers /\ tpc # "finish"
        /\ \A g \in Sessions : Live(g)' = Live(g)
    BY SendFrameTypes DEF SendHead, SendBody, SendFails, Connected, linkVars, Live
  <1>2. /\ resp \in Seq(Byte) /\ Len(resp) \in Nat /\ Len(resp) <= MAX_FRAME
        /\ inbox \in [Sessions -> Seq(Byte)] /\ inbox[p] \in Seq(Byte)
        /\ lpc[p] \in PCs /\ need[p] \in Nat
    BY <1>1, LenProperties DEF Answers, TypeOK, TcpTypeOK, LinkTypeOK
  <1>3. ASSUME NEW g \in Sessions, g # p \/ ~Live(p)
        PROVE  FramesOf(g)'
    <2>1. inbox'[g] = inbox[g]
      BY <1>2, <1>3 DEF SendHead, SendBody, SendFails, PutDown
    <2>2. View(g)' = View(g) /\ ~Live(g)'
      BY <1>1, <1>3, <2>1 DEF View, Connected
    <2> QED
      BY <2>2, FramesKept DEF FramesOnly
  <1>4. ASSUME Live(p) PROVE FramesOf(p)'
    <2> DEFINE s == View(p)
               t == View(p)'
    <2>1. s \in Seq(Byte)
      BY <1>2, ViewBytes DEF View
    <2>2. ASSUME NEW b \in Seq(Byte), PutDown(b)
          PROVE  /\ t \in Seq(Byte) /\ Len(t) = Len(s) + Len(b)
                 /\ Within(s, t, 0) /\ Within(b, t, Len(s))
      BY <1>1, <1>4, <2>2, ViewPutDown
    <2>3. PICK P : Framed(s, P) /\ Open(s, P, Unsent)
      BY <1>1, <1>4 DEF FramesOnly, FramesOf
    <2> HIDE DEF s, t
    <2>4. ASSUME NEW n \in 0 .. 3, tpc = "sendHead", PutDown(SubSeq(FrameHead(Len(resp)), 1, n)),
                 tpc' = "finish" \/ (n = 3 /\ Unsent' = Len(resp))
          PROVE  FramesOf(p)'
      <3>1. FrameHead(Len(resp)) \in Seq(Byte) /\ Len(FrameHead(Len(resp))) = 3 /\ n \in Nat /\ n <= 3
        <4>1. n \in Nat /\ n <= 3
          OBVIOUS
        <4>2. FrameHead(Len(resp)) \in Seq(Byte) /\ Len(FrameHead(Len(resp))) = 3
          BY <1>2, HeadBytes
        <4> QED
          BY <4>1, <4>2
      <3> DEFINE b == SubSeq(FrameHead(Len(resp)), 1, n)
      <3>2. b \in Seq(Byte) /\ Len(b) = n
        BY <3>1, FirstBytes
      <3>3. /\ t \in Seq(Byte) /\ Len(t) = Len(s) + n
            /\ Within(s, t, 0) /\ Within(b, t, Len(s))
        BY <2>2, <2>4, <3>2
      <3>4. Unsent = 0
        BY <2>4 DEF Unsent
      <3>5. \E Q : Framed(t, Q) /\ (n = 3 => Open(t, Q, Len(resp)))
        BY <1>2, <2>1, <2>3, <3>3, <3>4, AppendHead
      <3>6. \E Q : Framed(t, Q) /\ (Live(p)' /\ tpc' # "finish" => Open(t, Q, Unsent'))
        BY <2>4, <3>5
      <3> QED
        BY <3>6 DEF FramesOf, t
    <2>5. ASSUME NEW b \in Seq(Byte), tpc = "sendBody", PutDown(b), Len(b) <= Len(resp),
                 tpc' = "finish" \/ (Len(b) = Len(resp) /\ Unsent' = 0)
          PROVE  FramesOf(p)'
      <3>1. Unsent = Len(resp) /\ Len(b) \in Nat /\ Len(b) \in 0 .. Len(resp)
        BY <1>2, <2>5, LenProperties DEF Unsent
      <3>2. /\ t \in Seq(Byte) /\ Len(t) = Len(s) + Len(b) /\ Within(s, t, 0)
        BY <2>2, <2>5
      <3>3. Framed(t, P) /\ Open(t, P, Len(resp) - Len(b))
        BY <1>2, <2>1, <2>3, <3>1, <3>2, AppendBody
      <3>4. Len(b) = Len(resp) => Len(resp) - Len(b) = 0
        BY <1>2
      <3>5. \E Q : Framed(t, Q) /\ (Live(p)' /\ tpc' # "finish" => Open(t, Q, Unsent'))
        BY <2>5, <3>3, <3>4
      <3> QED
        BY <3>5 DEF FramesOf, t
    <2>6. CASE SendHead
      <3>1. SubSeq(FrameHead(Len(resp)), 1, 3) = FrameHead(Len(resp))
        <4>1. FrameHead(Len(resp)) \in Seq(Byte) /\ Len(FrameHead(Len(resp))) = 3
          BY <1>2, HeadBytes
        <4> QED
          BY <4>1, SubSeqFull
      <3>2. PutDown(SubSeq(FrameHead(Len(resp)), 1, 3)) /\ tpc = "sendHead" /\ Unsent' = Len(resp)
        BY <2>6, <3>1 DEF SendHead, Unsent
      <3> QED
        BY <2>4, <3>2
    <2>7. CASE SendBody
      BY <1>2, <2>5, <2>7 DEF SendBody, Unsent
    <2>8. ASSUME NEW n \in 0 .. N + 3, SendFails(n) PROVE FramesOf(p)'
      <3>0. n \in Nat /\ tpc' = "finish"
        BY <2>8, FrameAssumption DEF SendFails
      <3>1. CASE tpc = "sendHead"
        <4>1. n \in 0 .. 3 /\ PutDown(SubSeq(FrameHead(Len(resp)), 1, n))
          BY <2>8, <3>0, <3>1 DEF SendFails
        <4> QED
          BY <2>4, <3>0, <3>1, <4>1
      <3>2. CASE tpc = "sendBody"
        <4>1. n <= Len(resp) /\ PutDown(SubSeq(resp, 1, n))
          BY <2>8, <3>2 DEF SendFails
        <4>2. SubSeq(resp, 1, n) \in Seq(Byte) /\ Len(SubSeq(resp, 1, n)) = n
          BY <1>2, <3>0, <4>1, FirstBytes
        <4> QED
          BY <2>5, <3>0, <3>2, <4>1, <4>2
      <3> QED
        BY <2>8, <3>1, <3>2 DEF SendFails
    <2> QED
      BY <2>6, <2>7, <2>8
  <1> QED
    BY <1>3, <1>4 DEF FramesOnly

\* Every step leaves frames.
LEMMA FramesStep ==
  ASSUME TypeOK, Connected, AtLastRequest, FramesOnly, [Next]_vars
  PROVE  FramesOnly'
  <1>1. ASSUME NEW h \in Sessions, NEW p \in Requests, Ask(h, p), UNCHANGED channelVars
        PROVE  FramesOnly'
    <2>1. ASSUME NEW g \in Sessions PROVE View(g)' = View(g) /\ Live(g)' = Live(g)
      <3>1. UNCHANGED <<need, stream, inbox>>
        BY <1>1 DEF Ask, RequestTooLarge, Request, linkVars, tcpVars
      <3>2. \/ lpc'[g] = lpc[g]
            \/ lpc[g] = "idle" /\ lpc'[g] \in {"connect", "write"}
        BY <1>1 DEF Ask, RequestTooLarge, Request, Goto, linkVars, TypeOK, LinkTypeOK
      <3> QED
        BY <3>1, <3>2 DEF View, ViewOf, Live
    <2>2. tpc' = tpc /\ Unsent' = Unsent
      BY <1>1 DEF channelVars, Unsent
    <2> QED
      BY <2>1, <2>2, FramesKept DEF FramesOnly
  <1>2. ASSUME NEW h \in Sessions, Detach(h), UNCHANGED channelVars
        PROVE  FramesOnly'
    <2>1. ASSUME NEW g \in Sessions \ {h} PROVE View(g)' = View(g) /\ Live(g)' = Live(g)
      BY <1>2, Dropped DEF Detach, View, Live, linkVars
    <2>2. View(h)' = <<>> /\ ~Live(h)'
      BY <1>2, Dropped DEF Detach, View, ViewOf, Live, linkVars
    <2>3. tpc' = tpc /\ Unsent' = Unsent
      BY <1>2 DEF channelVars, Unsent
    <2> QED
      BY <2>1, <2>2, <2>3, FramesKept DEF FramesOnly
  <1>3. ASSUME UNCHANGED <<lpc, need, inbox>>,
               \A g \in Sessions : Live(g)' /\ tpc' # "finish" =>
                 Live(g) /\ tpc # "finish" /\ Unsent' = Unsent
        PROVE  FramesOnly'
    BY <1>3, FramesKept DEF FramesOnly, View
  <1>4. CASE Serve \/ ServeFails
    <2>1. CASE SendHead \/ SendBody \/ \E n \in 0 .. N + 3 : SendFails(n)
      BY <1>4, <2>1, SendFrames, SendFrameTypes DEF Serve, ServeFails
    <2>2. CASE Finish
      <3>1. \A g \in Sessions : ~Live(g)'
        BY <2>2 DEF Finish, Abort, Connected, Live, TypeOK, TcpTypeOK
      <3> QED
        BY <1>3, <1>4, <2>2, <3>1 DEF Serve, ServeFails, linkVars, Finish, Abort
    <2>3. CASE \/ Accepted \/ RunCommand \/ FeedByte \/ RecvEof \/ RecvFails \/ AcceptFails
               \/ \E n \in 1 .. CHUNK : Read(n)
      <3>1. /\ UNCHANGED <<stream, inbox>> /\ tpc \in {"accept", "recv", "feed", "exec"}
            /\ tpc' \in {"recv", "feed", "exec", "sendHead", "finish"}
        BY <2>3 DEF Accepted, RunCommand, Exec, FeedByte, RecvEof, RecvFails, AcceptFails, Read, tcpVars
      <3> QED
        BY <1>3, <1>4, <3>1 DEF Serve, ServeFails, linkVars, Unsent, Live
    <2> QED
      BY <1>4, <2>1, <2>2, <2>3 DEF Serve, ServeFails
  <1>5. CASE Vanish \/ ListenStep \/ UNCHANGED vars
    <2>1. UNCHANGED <<lpc, need, inbox, stream, tpc, resp>>
      BY <1>5 DEF Vanish, HostVanishes, ListenStep, StartAccept, Listen, vars, linkVars, tcpVars, channelVars
    <2> QED
      BY <1>3, <2>1 DEF Live, Unsent
  <1> QED
    BY <1>1, <1>2, <1>4, <1>5, HostFrames DEF Next

-----------------------------------------------------------------------------
\* Requests and answers take turns.
LEMMA NothingComing ==
  ASSUME TypeOK
  PROVE  /\ Coming \in Seq(Byte) /\ chunk \in Seq(Byte) /\ up \in Seq(Byte)
         /\ Len(Coming) = Len(chunk) + Len(up) /\ Len(chunk) \in Nat /\ Len(up) \in Nat
         /\ Coming = <<>> <=> chunk = <<>> /\ up = <<>>
  <1>1. chunk \in Seq(Byte) /\ up \in Seq(Byte)
    BY DEF TypeOK, ChannelTypeOK, TcpTypeOK
  <1>2. /\ Coming \in Seq(Byte) /\ Len(Coming) = Len(chunk) + Len(up)
        /\ Len(chunk) \in Nat /\ Len(up) \in Nat
    BY <1>1, Joined DEF Coming
  <1> QED
    BY <1>1, <1>2, EmptySeq

\* The turn stands while nothing on the connection moves.
LEMMA TurnsKept ==
  ASSUME NEW p \in Sessions, TurnsOf(p),
         UNCHANGED <<tpc, deframer, chunk, frame, resp, up, owed>>,
         owed \in 1 .. Len(asked[p]) =>
           owed \in 1 .. Len(asked'[p]) /\ asked'[p][owed] = asked[p][owed],
         Live(p)' => Live(p) /\ View(p)' = View(p) /\ Reading(p)' = Reading(p)
  PROVE  TurnsOf(p)'
  <1>1. HostSide(p)'
    BY DEF HostSide, TurnsOf
  <1>2. Quiet' = Quiet /\ Coming' = Coming
    BY DEF Quiet, Coming
  <1>3. CASE Arriving(p)
    <2>1. PICK off \in 0 .. MAX_FRAME + 2 : ArrivingAt(p, off)
      BY <1>3 DEF Arriving
    <2>2. /\ owed \in 1 .. Len(asked[p]) /\ owed' = owed
          /\ owed \in 1 .. Len(asked'[p]) /\ asked'[p][owed] = asked[p][owed]
          /\ tpc' = tpc /\ deframer' = deframer
      BY <1>3 DEF Arriving
    <2>3. ArrivingAt(p, off)'
      BY <1>2, <2>1, <2>2 DEF ArrivingAt
    <2>4. Live(p)' => Reading(p)' /\ View(p)' = <<>>
      BY <1>3 DEF Arriving
    <2>5. Arriving(p)'
      BY <1>3, <2>2, <2>3, <2>4 DEF Arriving
    <2> QED
      BY <1>1, <2>5 DEF TurnsOf
  <1>4. CASE Waiting
    BY <1>1, <1>2, <1>4 DEF Waiting, TurnsOf
  <1>5. CASE Answering(p)
    <2>1. Answering(p)'
      BY <1>2, <1>5 DEF Answering
    <2> QED
      BY <1>1, <2>1 DEF TurnsOf
  <1>6. CASE tpc = "finish"
    BY <1>1, <1>6 DEF TurnsOf
  <1> QED
    BY <1>3, <1>4, <1>5, <1>6 DEF TurnsOf

\* A new connection starts with nothing on it.
LEMMA FreshTurns ==
  ASSUME TypeOK, Connected, NEW p \in Sessions, listening, up' = <<>>, UNCHANGED channelVars,
         Live(p)' => View(p)' = <<>>
  PROVE  TurnsOf(p)'
  <1>1. tpc' = "accept" /\ chunk' = <<>>
    BY DEF Connected, channelVars
  <1>2. Coming' = <<>>
    BY <1>1 DEF Coming
  <1>3. AtMostOne(<<>>)
    BY DEF AtMostOne
  <1> QED
    BY <1>1, <1>2, <1>3 DEF TurnsOf, HostSide, Waiting, Quiet

\* The host writes a request, or the first n bytes of it.
LEMMA WriteTurns ==
  ASSUME TypeOK, AtLastRequest, NEW h \in Sessions, TurnsOf(h), tpc # "finish",
         lpc[h] = "write", Live(h), UNCHANGED <<channelVars, asked>>, owed' = Len(asked[h]),
         NEW n \in 0 .. Len(Wire(payload[h])),
         n \in {0, Len(Wire(payload[h]))} \/ MidFrameLoss,
         PutUp(h, SubSeq(Wire(payload[h]), 1, n)),
         n < Len(Wire(payload[h])) => ~Live(h)',
         Live(h)' => View(h)' = View(h) /\ Reading(h)'
  PROVE  TurnsOf(h)'
  <1>1. ~Reading(h) /\ View(h) = <<>> /\ Waiting
    <2>1. ~Reading(h)
      BY DEF Reading
    <2> QED
      BY <2>1 DEF TurnsOf, HostSide, Arriving, Answering
  <1> DEFINE p == payload[h]
             w == Wire(p)
             b == SubSeq(w, 1, n)
  <1>2. /\ p \in Seq(Byte) /\ Len(p) \in Nat /\ Len(p) <= MAX_FRAME
        /\ Len(asked[h]) \in Nat /\ Len(asked[h]) \in 1 .. Len(asked[h]) /\ p = asked[h][Len(asked[h])]
    <2>1. payload[h] \in Seq(Byte) /\ asked[h] \in Seq(Requests)
      BY DEF TypeOK, LinkTypeOK
    <2>2. asked[h] # <<>> /\ p = asked[h][Len(asked[h])]
      BY DEF AtLastRequest, Busy
    <2>3. Len(asked[h]) \in Nat /\ Len(asked[h]) \in 1 .. Len(asked[h])
      BY <2>1, <2>2, LenProperties, EmptySeq
    <2> QED
      BY <2>1, <2>2, <2>3, LenProperties DEF AtLastRequest
  <1>3. w \in Seq(Byte) /\ Len(w) = Len(p) + 3
    <2>1. Len(p) < LenLimit
      BY <1>2, LinkAssumption DEF LenLimit
    <2> QED
      BY <1>2, <2>1, WireType, WireBytes
  <1>4. n \in Nat /\ n <= Len(w)
    BY <1>2, <1>3
  <1>5. b \in Seq(Byte) /\ Len(b) = n /\ \A i \in 1 .. n : b[i] = w[i]
    BY <1>3, <1>4, FirstBytes
  <1> HIDE DEF b
  <1>6. Coming' = b
    <2>1. chunk = <<>> /\ up = <<>>
      BY <1>1, NothingComing DEF Waiting, Quiet
    <2>2. up' = <<>> \o b /\ chunk' = <<>>
      BY <2>1 DEF PutUp, b, channelVars
    <2>3. <<>> \o (<<>> \o b) = b
      BY <1>5
    <2> QED
      BY <2>2, <2>3 DEF Coming
  <1> HIDE DEF w, p
  <1>7. /\ asked'[h][owed'] = p /\ owed' \in 1 .. Len(asked'[h])
        /\ tpc' = tpc /\ tpc \in {"accept", "recv"} /\ deframer' = deframer
        /\ Wire(asked'[h][owed']) = w
    BY <1>1, <1>2 DEF Waiting, channelVars, w
  <1>8. tpc # "accept" => FedUpTo(deframer, p, 0)
    <2>1. tpc # "accept" => deframer.state = "Magic"
      BY <1>1 DEF Waiting, Quiet
    <2> QED
      BY <2>1 DEF FedUpTo
  <1>9. n \in {0, Len(w)} \/ MidFrameLoss
    BY DEF w, p
  <1>10. Live(h)' => Reading(h)' /\ View(h)' = <<>>
    BY <1>1
  <1>11. AtMostOne(<<>>)
    BY DEF AtMostOne
  <1>12. HostSide(h)'
    BY <1>10, <1>11 DEF HostSide
  <1>13. CASE n = 0
    <2>1. Coming' = <<>>
      BY <1>5, <1>6, <1>13, EmptySeq
    <2>2. Waiting'
      BY <1>1, <1>7, <2>1 DEF Waiting, Quiet
    <2> QED
      BY <1>12, <2>2 DEF TurnsOf
  <1>14. CASE n # 0
    <2>1. ArrivingAt(h, 0)'
      <3>1. /\ 0 < Len(w) /\ 0 + Len(b) <= Len(w)
            /\ Live(h)' \/ ~MidFrameLoss => 0 + Len(b) = Len(w)
        BY <1>2, <1>3, <1>4, <1>5, <1>9, <1>14 DEF w, p
      <3>2. Within(b, w, 0)
        BY <1>4, <1>5 DEF Within
      <3> QED
        BY <1>6, <1>7, <1>8, <3>1, <3>2 DEF ArrivingAt
    <2>2. 0 \in 0 .. MAX_FRAME + 2
      BY LinkAssumption
    <2>3. Arriving(h)'
      BY <1>7, <1>10, <2>1, <2>2 DEF Arriving
    <2> QED
      BY <1>12, <2>3 DEF TurnsOf
  <1> QED
    BY <1>13, <1>14

\* It takes the answer and has then nothing left.
LEMMA TakeTurns ==
  ASSUME TypeOK, Connected, AtLastRequest, FramesOnly, NEW h \in Sessions, TurnsOf(h),
         ReadPayload(h), UNCHANGED <<channelVars, asked, owed>>
  PROVE  TurnsOf(h)'
  <1>1. UNCHANGED <<tpc, deframer, chunk, frame, resp, up, owed, asked>> /\ Live(h)' = Live(h) /\ lpc[h] = "payload"
    BY DEF ReadPayload, channelVars, Live
  <1>2. CASE ~Live(h)
    BY <1>1, <1>2, TurnsKept
  <1>3. CASE Live(h)
    <2> DEFINE s == View(h)
               t == View(h)'
               n == need[h]
    <2>1. /\ t \in Seq(Byte) /\ s \in Seq(Byte)
          /\ n \in Nat /\ LenAt(s, 1) = n /\ 3 + n <= Len(s)
          /\ Len(t) = Len(s) - (3 + n)
      BY TakesFrame DEF FramesOnly
    <2>2. AtMostOne(s)
      BY <1>3 DEF TurnsOf, HostSide
    <2> HIDE DEF s, t, n
    <2>3. Len(s) \in Nat /\ Len(t) \in Nat
      BY <2>1, LenProperties
    <2>4. t = <<>> /\ Len(s) = 3 + n
      <3>1. Len(s) = 3 + n
        BY <2>1, <2>2, <2>3 DEF AtMostOne
      <3> QED
        BY <2>1, <2>3, <3>1, EmptySeq
    <2>5. s # <<>>
      BY <2>1, <2>3, <2>4
    <2>6. ~Answering(h)
      <3> SUFFICES ASSUME Answering(h) PROVE FALSE
        OBVIOUS
      <3>1. tpc = "sendBody" /\ s = FrameHead(Len(resp))
        BY <1>3, <2>5 DEF Answering, s
      <3>2. resp \in Seq(Byte) /\ Len(resp) \in Nat /\ Len(resp) > 0 /\ Len(resp) < LenLimit
        <4>1. resp \in Seq(Byte) /\ resp # <<>> /\ Len(resp) <= MAX_FRAME
          BY <3>1 DEF Connected, Answers
        <4> QED
          BY <4>1, LenProperties, EmptySeq, LinkAssumption DEF LenLimit
      <3>3. Len(s) = 3 /\ LenAt(s, 1) = Len(resp)
        BY <3>1, <3>2, HeadBytes DEF LenAt
      <3> QED
        BY <2>1, <3>2, <3>3
    <2>7. ~Arriving(h)
      BY <1>3, <2>5 DEF Arriving, s
    <2>8. Waiting' = Waiting
      BY <1>1 DEF Waiting, Quiet, Coming
    <2>9. AtMostOne(<<>>)
      BY DEF AtMostOne
    <2> QED
      BY <1>1, <2>4, <2>6, <2>7, <2>8, <2>9 DEF TurnsOf, HostSide, t
  <1> QED
    BY <1>2, <1>3

\* The steps of a host.
LEMMA HostTurns ==
  ASSUME TypeOK, Connected, AtLastRequest, FramesOnly, Turns, NEW h \in Sessions, HostStep(h)
  PROVE  Turns'
  <1>0. /\ UNCHANGED <<channelVars, clean, asked>> /\ tpc' = tpc
        /\ UNCHANGED <<tpc, deframer, chunk, frame, resp>>
        /\ Moved(h) /\ lpc \in [Sessions -> PCs]
    <2>1. Moved(h)
      BY HostTypes
    <2> QED
      BY <2>1 DEF HostStep, channelVars, TypeOK, LinkTypeOK, Send, Receive
  <1> SUFFICES ASSUME NEW p \in Sessions, peer' = p, clean' \/ tpc' = "accept"
               PROVE  TurnsOf(p)'
    BY DEF Turns
  <1>1. CASE listening
    <2>1. peer = Nobody /\ peer # p
      BY <1>1, TcpAssumption DEF Connected
    <2>2. \/ Connect(h)
          \/ ConnectFails(h, TRUE)
          \/ ReconnectFails(h, TRUE)
      BY <2>1 DEF HostStep, Send, Receive, Write, WriteFails, ConnectFails, ReconnectFails, ReadFails,
           ReadMagic, SkipByte, ReadLen, ReadPayload, tcpVars
    <2>3. p = h /\ up' = <<>>
      BY <2>2, Established DEF Connect, ConnectFails, ReconnectFails
    <2>4. Live(h)' => View(h)' = <<>>
      <3>1. CASE Connect(h)
        <4>1. lpc'[h] = "write" /\ Establish(h, "live")
          BY <1>0, <3>1 DEF Connect, Goto
        <4>2. inbox'[h] = <<>>
          BY <4>1, Established
        <4> QED
          BY <4>1, <4>2 DEF View, ViewOf
      <3>2. CASE ConnectFails(h, TRUE)
        <4>1. stream'[h] = "none"
          BY <3>2, Failed, Dropped DEF ConnectFails
        <4> QED
          BY <4>1 DEF Live
      <3>3. CASE ReconnectFails(h, TRUE)
        <4>1. stream'[h] = "none"
          BY <3>3, Established DEF ReconnectFails
        <4> QED
          BY <4>1 DEF Live
      <3> QED
        BY <2>2, <3>1, <3>2, <3>3
    <2> QED
      BY <1>0, <1>1, <2>3, <2>4, FreshTurns
  <1>2. CASE ~listening
    <2>1. peer' = peer /\ (up' = up \/ Send(h)) /\ ~Connect(h)
      <3>1. ~Connect(h) /\ ~ConnectFails(h, TRUE) /\ ~ReconnectFails(h, TRUE)
        BY <1>2 DEF Connect, ConnectFails, ReconnectFails, Establish
      <3> QED
        BY <3>1 DEF HostStep, Send, Receive, Write, WriteFails, ConnectFails, ReconnectFails, ReadFails,
           ReadMagic, SkipByte, ReadLen, ReadPayload, tcpVars
    <2>2. TurnsOf(p) /\ peer = p
      BY <1>0, <2>1 DEF Turns
    <2>3. (up' = up /\ owed' = owed) \/ (Send(h) /\ Live(h))
      <3>1. CASE Send(h)
        BY <3>1 DEF Send, Write, WriteFails, PutUp
      <3>2. CASE ~Send(h)
        BY <2>1, <3>2 DEF HostStep
      <3> QED
        BY <3>1, <3>2
    <2>4. CASE p # h
      <3>1. ~Live(h)
        BY <2>2, <2>4 DEF Connected
      <3>2. View(p)' = View(p) /\ Live(p)' = Live(p) /\ Reading(p)' = Reading(p)
        BY <1>0, <2>4, HostOutcome DEF View, Live, Moved, Reading
      <3> QED
        BY <1>0, <2>2, <2>3, <3>1, <3>2, TurnsKept
    <2>5. CASE p = h /\ up' = up /\ owed' = owed /\ ~(Send(h) /\ Live(h))
      <3>1. CASE GivesUp(h)
        <4>1. ~Live(h)'
          BY <3>1 DEF GivesUp, Live
        <4> QED
          BY <1>0, <2>2, <2>5, <4>1, TurnsKept
      <3>2. CASE Write(h)
        <4>1. Send(h)
          BY <3>2 DEF HostStep, Send, Receive, Write, Connect, ConnectFails, ReconnectFails, ReadFails, Reading,
               ReadMagic, SkipByte, ReadLen, ReadPayload
        <4>2. ~Live(h) /\ ~Live(h)'
          BY <2>5, <3>2, <4>1 DEF Write, Live
        <4> QED
          BY <1>0, <2>2, <2>5, <4>2, TurnsKept
      <3>3. CASE Stays(h)
        BY <1>0, <2>2, <2>5, <3>3, TurnsKept DEF Stays, Live
      <3>4. CASE ReadPayload(h)
        BY <1>0, <2>2, <2>5, <3>4, TakeTurns
      <3> QED
        BY <2>1, <3>1, <3>2, <3>3, <3>4, HostOutcome
    <2>6. CASE p = h /\ Send(h) /\ Live(h)
      <3>1. /\ lpc[h] = "write" /\ owed' = Len(asked[h])
            /\ TurnsOf(h)
        BY <2>2, <2>6 DEF Send, Write, WriteFails
      <3> DEFINE w == Wire(payload[h])
      <3>2. w \in Seq(Byte) /\ Len(w) \in Nat
        BY WireType, LenProperties DEF TypeOK, LinkTypeOK
      <3>3. CASE Write(h)
        <4>1. lpc'[h] = "magic" /\ UNCHANGED <<need, inbox, stream>>
          BY <1>0, <3>3 DEF Write, Goto
        <4>2. View(h)' = View(h) /\ Live(h)' = Live(h) /\ Reading(h)'
          BY <3>1, <4>1 DEF View, ViewOf, Live, Reading
        <4>3. SubSeq(w, 1, Len(w)) = w /\ Len(w) \in 0 .. Len(w)
          BY <3>2, SubSeqFull
        <4>4. PutUp(h, SubSeq(w, 1, Len(w)))
          BY <3>3, <4>3 DEF Write
        <4>5. CASE tpc = "finish"
          <5>1. HostSide(h)'
            BY <2>6, <3>1, <4>2 DEF TurnsOf, HostSide
          <5> QED
            BY <1>0, <2>6, <4>5, <5>1 DEF TurnsOf
        <4>6. CASE tpc # "finish"
          BY <1>0, <2>6, <3>1, <4>2, <4>3, <4>4, <4>6, WriteTurns
        <4> QED
          BY <2>6, <4>5, <4>6
      <3>4. ASSUME NEW n \in 0 .. MAX_FRAME + 2, WriteFails(h, n)
            PROVE  TurnsOf(h)'
        <4>1. /\ n \in Nat /\ n < Len(w) /\ n \in 0 .. Len(w)
              /\ PutUp(h, SubSeq(w, 1, n)) /\ FailTry(h)
              /\ n \in {0, Len(w)} \/ MidFrameLoss
          BY <3>2, <3>4, LinkAssumption DEF WriteFails
        <4>2. ~Live(h)'
          BY <4>1, Failed, Dropped DEF Live
        <4>3. CASE tpc = "finish"
          BY <1>0, <4>2, <4>3 DEF TurnsOf, HostSide
        <4>4. CASE tpc # "finish"
          BY <1>0, <2>6, <3>1, <4>1, <4>2, <4>4, WriteTurns
        <4> QED
          BY <4>3, <4>4
      <3> QED
        BY <2>6, <3>3, <3>4 DEF Send
    <2> QED
      BY <2>3, <2>4, <2>5, <2>6
  <1> QED
    BY <1>1, <1>2

\* The decoder takes one byte more of what is coming.
LEMMA ComingTail ==
  ASSUME NEW c \in Seq(Byte), c # <<>>, NEW u \in Seq(Byte)
  PROVE  /\ Tail(c) \o u \in Seq(Byte)
         /\ Len(Tail(c) \o u) + 1 = Len(c \o u)
         /\ Head(c) = (c \o u)[1]
         /\ \A i \in 1 .. Len(Tail(c) \o u) : (Tail(c) \o u)[i] = (c \o u)[i + 1]
  <1> DEFINE t == Tail(c)
             r == t \o u
             s == c \o u
  <1>1. /\ t \in Seq(Byte) /\ Len(t) = Len(c) - 1 /\ \A i \in 1 .. Len(t) : t[i] = c[i + 1]
        /\ Head(c) = c[1] /\ Len(c) \in Nat /\ Len(c) > 0 /\ Len(u) \in Nat
    BY HeadTailProperties, LenProperties, EmptySeq
  <1> HIDE DEF t
  <1>2. /\ s \in Seq(Byte) /\ Len(s) = Len(c) + Len(u)
        /\ Within(c, s, 0) /\ Within(u, s, Len(c))
        /\ r \in Seq(Byte) /\ Len(r) = Len(t) + Len(u)
        /\ Within(t, r, 0) /\ Within(u, r, Len(t))
    BY <1>1, Concatenated
  <1> HIDE DEF r, s
  <1>3. s[1] = c[1]
    BY <1>1, <1>2 DEF Within
  <1>4. ASSUME NEW i \in 1 .. Len(r) PROVE r[i] = s[i + 1]
    <2>1. CASE i <= Len(t)
      <3>1. i \in 1 .. Len(t) /\ 0 + i = i /\ 0 + (i + 1) = i + 1 /\ i + 1 \in 1 .. Len(c)
        BY <1>1, <1>2, <2>1
      <3>2. r[i] = t[i] /\ t[i] = c[i + 1] /\ s[i + 1] = c[i + 1]
        BY <1>1, <1>2, <3>1 DEF Within
      <3> QED
        BY <3>2
    <2>2. CASE i > Len(t)
      <3>1. i - Len(t) \in 1 .. Len(u) /\ Len(t) + (i - Len(t)) = i /\ Len(c) + (i - Len(t)) = i + 1
        BY <1>1, <1>2, <2>2
      <3>2. r[i] = u[i - Len(t)] /\ s[i + 1] = u[i - Len(t)]
        BY <1>2, <3>1 DEF Within
      <3> QED
        BY <3>2
    <2> QED
      BY <1>1, <1>2, <2>1, <2>2
  <1> QED
    BY <1>1, <1>2, <1>3, <1>4 DEF r, s, t

\* The firmware feeds a byte to its decoder.
LEMMA FeedTurns ==
  ASSUME TypeOK, Connected, AtLastRequest, NEW p \in Sessions, TurnsOf(p), FeedByte,
         UNCHANGED <<linkVars, asked, owed>>
  PROVE  TurnsOf(p)'
  <1>0. /\ tpc = "feed" /\ chunk # <<>> /\ chunk \in Seq(Byte) /\ up \in Seq(Byte) /\ deframer \in Deframers
        /\ UNCHANGED <<lpc, need, stream, inbox, up>>
    BY DEF FeedByte, Connected, TypeOK, TcpTypeOK, ChannelTypeOK, tcpVars, linkVars
  <1>1. Coming # <<>>
    BY <1>0, NothingComing
  <1>2. Arriving(p)
    BY <1>0, <1>1 DEF TurnsOf, Waiting, Answering, Quiet
  <1>3. PICK off \in 0 .. MAX_FRAME + 2 : ArrivingAt(p, off)
    BY <1>2 DEF Arriving
  <1> DEFINE q == asked[p][owed]
             w == Wire(q)
             b == Head(chunk)
             e == Feed(deframer, b)
             f == FrameOf(deframer, b)
             rest == Tail(chunk) \o up
  <1>4. q \in Seq(Byte) /\ Len(q) \in Nat /\ Len(q) <= MAX_FRAME /\ Len(q) < LenLimit /\ owed \in 1 .. Len(asked[p])
    <2>1. owed \in 1 .. Len(asked[p])
      BY <1>2 DEF Arriving
    <2>2. q \in Seq(Byte) /\ Len(q) <= MAX_FRAME
      BY <2>1, RequestBytes DEF AtLastRequest
    <2> QED
      BY <2>1, <2>2, LenProperties, LinkAssumption DEF LenLimit
  <1>5. /\ off \in Nat /\ w \in Seq(Byte) /\ Len(w) = Len(q) + 3 /\ Len(w) \in Nat
    <2>1. off \in Nat
      BY LinkAssumption
    <2> QED
      BY <1>4, <2>1, WireType, WireBytes, LenProperties
  <1>6. /\ off < Len(w) /\ off + Len(Coming) <= Len(w) /\ Within(Coming, w, off)
        /\ Live(p) \/ ~MidFrameLoss => off + Len(Coming) = Len(w)
        /\ FedUpTo(deframer, q, off)
    BY <1>0, <1>3 DEF ArrivingAt
  <1>7. /\ rest \in Seq(Byte) /\ Len(rest) + 1 = Len(Coming) /\ b = Coming[1] /\ Len(Coming) \in Nat /\ Len(rest) \in Nat
        /\ \A i \in 1 .. Len(rest) : rest[i] = Coming[i + 1]
    BY <1>0, ComingTail, NothingComing, LenProperties DEF Coming
  <1> HIDE DEF rest
  <1>8. b = w[off + 1]
    <2>1. 1 \in 1 .. Len(Coming)
      BY <1>7
    <2> QED
      BY <1>6, <1>7, <2>1 DEF Within
  <1>9. /\ off + 1 < Len(q) + 3 => FedUpTo(e, q, off + 1) /\ f = <<>>
        /\ off + 1 = Len(q) + 3 => e.state = "Magic" /\ f = Kept(q)
    <2>1. off < Len(q) + 3
      BY <1>5, <1>6
    <2>2. LET e1 == Feed(deframer, Wire(q)[off + 1])
              f1 == FrameOf(deframer, Wire(q)[off + 1])
          IN  /\ off + 1 < Len(q) + 3 => FedUpTo(e1, q, off + 1) /\ f1 = <<>>
              /\ off + 1 = Len(q) + 3 => e1.state = "Magic" /\ f1 = Kept(q)
      <3> HIDE DEF q
      <3> QED
        BY <1>0, <1>4, <1>5, <1>6, <2>1, FeedNext
    <2> QED
      BY <1>8, <2>2
  <1>10. /\ deframer' = e
         /\ IF f # <<>>
              THEN /\ frame' = f /\ chunk' = <<>>
                   /\ tpc' \in {"finish", "exec"}
              ELSE /\ chunk' = Tail(chunk)
                   /\ IF Tail(chunk) # <<>> THEN tpc' = "feed" ELSE tpc' \in {"finish", "recv"}
    BY DEF FeedByte
  <1>11. /\ View(p)' = View(p) /\ Live(p)' = Live(p) /\ Reading(p)' = Reading(p)
         /\ Live(p) => Reading(p) /\ View(p) = <<>>
    BY <1>0, <1>2 DEF View, Live, Reading, Arriving
  <1>12. HostSide(p)'
    BY <1>11 DEF HostSide, TurnsOf
  <1>13. asked'[p] = asked[p] /\ owed' = owed
    OBVIOUS
  <1> HIDE DEF b, e, f
  <1>14. CASE off + 1 < Len(w)
    <2>1. FedUpTo(e, q, off + 1) /\ f = <<>>
      BY <1>5, <1>9, <1>14
    <2>2. Coming' = rest
      BY <1>0, <1>10, <2>1 DEF Coming, rest
    <2>3. CASE tpc' = "finish"
      BY <1>12, <2>3 DEF TurnsOf
    <2>4. CASE tpc' # "finish"
      <3>1. tpc' \in {"feed", "recv"}
        BY <1>10, <2>1, <2>4
      <3>2. Within(rest, w, off + 1)
        <4>1. ASSUME NEW i \in 1 .. Len(rest) PROVE w[off + 1 + i] = rest[i]
          <5>1. i + 1 \in 1 .. Len(Coming) /\ off + (i + 1) = off + 1 + i
            <6> HIDE DEF q, w
            <6> QED
              BY <1>5, <1>7
          <5>2. w[off + (i + 1)] = Coming[i + 1] /\ rest[i] = Coming[i + 1]
            BY <1>6, <1>7, <5>1 DEF Within
          <5> QED
            BY <5>1, <5>2
        <4> QED
          BY <4>1 DEF Within
      <3> HIDE DEF q, w
      <3>3. off + 1 \in 0 .. MAX_FRAME + 2 /\ off + 1 + Len(rest) <= Len(w)
            /\ (Live(p) \/ ~MidFrameLoss => off + 1 + Len(rest) = Len(w))
        BY <1>4, <1>5, <1>6, <1>7, <1>14, LinkAssumption
      <3>4. Wire(asked'[p][owed']) = w /\ asked'[p][owed'] = q
        BY <1>13 DEF w, q
      <3>5. ArrivingAt(p, off + 1)'
        BY <1>10, <1>11, <1>14, <2>1, <2>2, <3>1, <3>2, <3>3, <3>4 DEF ArrivingAt
      <3>6. Arriving(p)'
        BY <1>4, <1>11, <1>13, <3>1, <3>3, <3>5 DEF Arriving
      <3> QED
        BY <1>12, <3>6 DEF TurnsOf
    <2> QED
      BY <2>3, <2>4
  <1>15. CASE off + 1 = Len(w)
    <2>1. e.state = "Magic" /\ f = Kept(q)
      BY <1>5, <1>9, <1>15
    <2>2. rest = <<>> /\ Tail(chunk) = <<>> /\ up = <<>>
      <3>1. Len(rest) = 0
        <4> HIDE DEF w
        <4> QED
          BY <1>5, <1>6, <1>7, <1>15
      <3>2. Tail(chunk) \in Seq(Byte)
        BY <1>0, HeadTailProperties
      <3>3. /\ Len(rest) = Len(Tail(chunk)) + Len(up) /\ Len(Tail(chunk)) \in Nat /\ Len(up) \in Nat
        BY <1>0, <3>2, Joined DEF rest
      <3> QED
        BY <1>0, <1>7, <3>1, <3>2, <3>3, EmptySeq
    <2>3. chunk' = <<>> /\ up' = <<>>
      BY <1>0, <1>10, <2>2
    <2>4. Coming' = <<>> /\ deframer'.state = "Magic"
      BY <1>10, <2>1, <2>3 DEF Coming
    <2>5. Quiet'
      BY <2>4 DEF Quiet
    <2>6. CASE tpc' = "finish"
      BY <1>12, <2>6 DEF TurnsOf
    <2>7. CASE tpc' # "finish" /\ f = <<>>
      BY <1>10, <1>12, <2>2, <2>5, <2>7 DEF TurnsOf, Waiting
    <2>8. CASE tpc' # "finish" /\ f # <<>>
      <3>1. tpc' = "exec" /\ frame' = Kept(q) /\ asked'[p][owed'] = q /\ owed' \in 1 .. Len(asked'[p])
        BY <1>4, <1>10, <1>13, <2>1, <2>8
      <3>2. Answering(p)'
        BY <1>11, <2>5, <3>1 DEF Answering
      <3> QED
        BY <1>12, <3>2 DEF TurnsOf
    <2> QED
      BY <2>6, <2>7, <2>8
  <1> QED
    BY <1>5, <1>6, <1>14, <1>15

\* Reading the first bytes loses none.
LEMMA CutAndJoined ==
  ASSUME NEW s \in Seq(Byte), NEW n \in Nat, n <= Len(s)
  PROVE  SubSeq(s, 1, n) \o SubSeq(s, n + 1, Len(s)) = s
  <1> DEFINE a == SubSeq(s, 1, n)
             c == SubSeq(s, n + 1, Len(s))
             r == a \o c
  <1>1. /\ a \in Seq(Byte) /\ Len(a) = n /\ \A i \in 1 .. n : a[i] = s[i]
        /\ c \in Seq(Byte) /\ Len(c) = Len(s) - n /\ \A i \in 1 .. Len(s) - n : c[i] = s[n + i]
        /\ Len(s) \in Nat
    BY FirstBytes, LastBytes, LenProperties
  <1> HIDE DEF a, c
  <1>2. /\ r \in Seq(Byte) /\ Len(r) = n + Len(c)
        /\ Within(a, r, 0) /\ Within(c, r, n)
    BY <1>1, Concatenated
  <1> HIDE DEF r
  <1>3. Len(r) = Len(s)
    BY <1>1, <1>2
  <1>4. ASSUME NEW i \in 1 .. Len(s) PROVE r[i] = s[i]
    <2>1. CASE i <= n
      <3>1. i \in 1 .. Len(a) /\ i \in 1 .. n /\ 0 + i = i
        BY <1>1, <2>1
      <3>2. r[0 + i] = a[i] /\ a[i] = s[i]
        BY <1>1, <1>2, <3>1 DEF Within
      <3> QED
        BY <3>1, <3>2
    <2>2. CASE i > n
      <3>1. i - n \in 1 .. Len(c) /\ i - n \in 1 .. Len(s) - n /\ n + (i - n) = i
        BY <1>1, <2>2
      <3>2. r[n + (i - n)] = c[i - n] /\ c[i - n] = s[n + (i - n)]
        BY <1>1, <1>2, <3>1 DEF Within
      <3> QED
        BY <3>1, <3>2
    <2>3. i \in Nat
      BY <1>1
    <2> QED
      BY <2>1, <2>2, <2>3
  <1> QED
    BY <1>2, <1>3, <1>4, SameBytes DEF r, a, c

\* The firmware sends the header and the answer, or fails in the middle.
LEMMA AnswerTurns ==
  ASSUME TypeOK, Connected, NEW p \in Sessions, peer = p, TurnsOf(p),
         UNCHANGED <<linkVars, asked, owed>>,
         SendHead \/ SendBody \/ \E n \in 0 .. N + 3 : SendFails(n)
  PROVE  TurnsOf(p)'
  <1> DEFINE L == Len(resp)
             s == View(p)
             t == View(p)'
  <1>1. /\ Answering(p) /\ Quiet /\ UNCHANGED <<lpc, need, stream, deframer, chunk, up>>
        /\ tpc \in {"sendHead", "sendBody"} /\ resp \in Answers
    BY DEF SendHead, SendBody, SendFails, TurnsOf, Arriving, Waiting, Answering, Connected, linkVars
  <1>2. resp \in Seq(Byte) /\ L \in Nat /\ L > 0 /\ L <= MAX_FRAME /\ L < LenLimit
    <2>1. resp \in Seq(Byte) /\ resp # <<>> /\ L <= MAX_FRAME
      BY <1>1 DEF Answers
    <2> QED
      BY <2>1, LenProperties, EmptySeq, LinkAssumption DEF LenLimit
  <1>3. /\ FrameHead(L) \in Seq(Byte) /\ Len(FrameHead(L)) = 3
        /\ LenAt(FrameHead(L), 1) = L
    <2> HIDE DEF L
    <2> QED
      BY <1>2, HeadBytes DEF LenAt
  <1>4. Live(p)' = Live(p) /\ Reading(p)' = Reading(p)
    BY <1>1 DEF Live, Reading
  <1>5. Live(p) => Reading(p) /\ s = IF tpc = "sendBody" THEN FrameHead(L) ELSE <<>>
    BY <1>1 DEF Answering
  <1>6. ASSUME NEW b \in Seq(Byte), PutDown(b), Live(p)
        PROVE  /\ t \in Seq(Byte) /\ Len(t) = Len(s) + Len(b)
               /\ Within(s, t, 0) /\ Within(b, t, Len(s))
    BY <1>1, <1>6, ViewPutDown
  <1> HIDE DEF s, t
  <1>7. ASSUME NEW n \in 0 .. 3, tpc = "sendHead", PutDown(SubSeq(FrameHead(L), 1, n))
        PROVE  Live(p) => AtMostOne(t) /\ (n = 3 => t = FrameHead(L))
    <2> SUFFICES ASSUME Live(p) PROVE AtMostOne(t) /\ (n = 3 => t = FrameHead(L))
      OBVIOUS
    <2> DEFINE b == SubSeq(FrameHead(L), 1, n)
    <2>1. n \in Nat /\ n <= 3
      OBVIOUS
    <2>2. b \in Seq(Byte) /\ Len(b) = n /\ \A i \in 1 .. n : b[i] = FrameHead(L)[i]
      BY <1>3, <2>1, FirstBytes
    <2>3. s = <<>> /\ Len(s) = 0
      BY <1>5, <1>7
    <2>4. t \in Seq(Byte) /\ Len(t) = n /\ \A i \in 1 .. n : t[i] = b[i]
      <3>1. t \in Seq(Byte) /\ Len(t) = Len(s) + Len(b) /\ Within(b, t, Len(s))
        BY <1>6, <1>7, <2>2
      <3> HIDE DEF b
      <3> QED
        BY <2>1, <2>2, <2>3, <3>1 DEF Within
    <2> HIDE DEF b, L
    <2>5. AtMostOne(t)
      <3> SUFFICES ASSUME Len(t) >= 3 PROVE Len(t) <= 3 + LenAt(t, 1)
        BY DEF AtMostOne
      <3>1. n = 3
        BY <2>1, <2>4
      <3>2. t[2] \in Byte /\ t[3] \in Byte
        <4>1. Len(t) = 3 /\ t \in Seq(Byte)
          BY <2>4, <3>1
        <4> QED
          BY <4>1, ElementOfSeq
      <3>3. LenAt(t, 1) \in Nat
        BY <3>2, HeadOf DEF LenAt
      <3> QED
        BY <2>4, <3>1, <3>3
    <2>6. n = 3 => t = FrameHead(L)
      BY <1>3, <2>2, <2>4, SameBytes
    <2> QED
      BY <2>5, <2>6
  <1>8. ASSUME NEW b \in Seq(Byte), tpc = "sendBody", PutDown(b), Len(b) <= L
        PROVE  Live(p) => AtMostOne(t)
    <2> SUFFICES ASSUME Live(p) PROVE AtMostOne(t)
      OBVIOUS
    <2>1. s = FrameHead(L)
      BY <1>5, <1>8
    <2>2. t \in Seq(Byte) /\ Len(t) = 3 + Len(b) /\ Within(FrameHead(L), t, 0)
      BY <1>3, <1>6, <1>8, <2>1
    <2>3. t[2] = FrameHead(L)[2] /\ t[3] = FrameHead(L)[3]
      <3>1. 2 \in 1 .. Len(FrameHead(L)) /\ 3 \in 1 .. Len(FrameHead(L))
        BY <1>3
      <3>2. t[0 + 2] = FrameHead(L)[2] /\ t[0 + 3] = FrameHead(L)[3]
        BY <2>2, <3>1 DEF Within
      <3> QED
        BY <3>2
    <2>4. LenAt(t, 1) = L
      BY <1>3, <2>3 DEF LenAt
    <2>5. Len(b) \in Nat
      BY LenProperties
    <2> HIDE DEF L
    <2> QED
      BY <1>2, <1>8, <2>2, <2>4, <2>5 DEF AtMostOne
  <1>9. Coming' = Coming
    BY <1>1 DEF Coming
  <1>10. tpc' # "accept" => Quiet'
    BY <1>1, <1>9 DEF Quiet
  <1>11. CASE SendHead
    <2>1. SubSeq(FrameHead(L), 1, 3) = FrameHead(L)
      BY <1>3, SubSeqFull
    <2>2. tpc = "sendHead" /\ PutDown(SubSeq(FrameHead(L), 1, 3)) /\ tpc' = "sendBody" /\ resp' = resp
      BY <1>11, <2>1 DEF SendHead
    <2>3. Live(p) => AtMostOne(t) /\ t = FrameHead(L)
      BY <1>7, <2>2
    <2>4. HostSide(p)'
      BY <1>4, <1>5, <2>3 DEF HostSide, t
    <2>5. Answering(p)'
      BY <1>4, <1>5, <1>10, <2>2, <2>3 DEF Answering, t
    <2> QED
      BY <2>4, <2>5 DEF TurnsOf
  <1>12. CASE SendBody
    <2>1. tpc = "sendBody" /\ PutDown(resp) /\ tpc' = "recv"
      BY <1>12 DEF SendBody
    <2>2. Live(p) => AtMostOne(t)
      BY <1>2, <1>8, <2>1
    <2>3. HostSide(p)'
      BY <1>4, <1>5, <2>2 DEF HostSide, t
    <2> QED
      BY <1>10, <2>1, <2>3 DEF TurnsOf, Waiting
  <1>13. ASSUME NEW n \in 0 .. N + 3, SendFails(n) PROVE TurnsOf(p)'
    <2>1. n \in Nat /\ tpc' = "finish"
      BY <1>13, FrameAssumption DEF SendFails
    <2>2. Live(p) => AtMostOne(t)
      <3>1. CASE tpc = "sendHead"
        <4>1. n \in 0 .. 3 /\ PutDown(SubSeq(FrameHead(L), 1, n))
          BY <1>13, <2>1, <3>1 DEF SendFails
        <4> QED
          BY <1>7, <3>1, <4>1
      <3>2. CASE tpc = "sendBody"
        <4>1. n <= L /\ PutDown(SubSeq(resp, 1, n))
          BY <1>13, <3>2 DEF SendFails
        <4>2. SubSeq(resp, 1, n) \in Seq(Byte) /\ Len(SubSeq(resp, 1, n)) = n
          BY <1>2, <2>1, <4>1, FirstBytes
        <4> QED
          BY <1>8, <3>2, <4>1, <4>2
      <3> QED
        BY <1>1, <3>1, <3>2
    <2>3. HostSide(p)'
      BY <1>4, <1>5, <2>2 DEF HostSide, t
    <2> QED
      BY <2>1, <2>3 DEF TurnsOf
  <1> QED
    BY <1>11, <1>12, <1>13

\* The steps of the firmware.
LEMMA ServeTurns ==
  ASSUME TypeOK, Connected, AtLastRequest, Turns, Serve \/ ServeFails
  PROVE  Turns'
  <1>0. UNCHANGED <<linkVars, asked, owed>>
    BY DEF Serve, ServeFails, history
  <1> SUFFICES ASSUME NEW p \in Sessions, peer' = p, clean' \/ tpc' = "accept"
               PROVE  TurnsOf(p)'
    BY DEF Turns
  <1>1. ~Finish /\ ~AcceptFails
    BY TcpAssumption DEF Finish, Abort, AcceptFails, tcpVars
  <1>2. CASE Accepted /\ clean' = AtRest(deframer)
    <2>1. /\ tpc = "accept" /\ tpc' = "recv" /\ peer = p /\ deframer' = deframer /\ deframer.state = "Magic"
          /\ UNCHANGED <<chunk, up, stream, inbox, frame, resp>>
      BY <1>2 DEF Accepted, AtRest, tcpVars
    <2>2. TurnsOf(p)
      BY <2>1 DEF Turns
    <2>3. /\ View(p)' = View(p) /\ Live(p)' = Live(p) /\ Reading(p)' = Reading(p)
          /\ Coming' = Coming /\ asked'[p] = asked[p] /\ owed' = owed
      BY <1>0, <2>1 DEF View, Live, Reading, linkVars, Coming
    <2>4. HostSide(p)'
      BY <2>2, <2>3 DEF HostSide, TurnsOf
    <2>5. CASE Waiting
      <3>1. Waiting'
        BY <2>1, <2>3, <2>5 DEF Waiting, Quiet
      <3> QED
        BY <2>4, <3>1 DEF TurnsOf
    <2>6. CASE Arriving(p)
      <3>1. PICK off \in 0 .. MAX_FRAME + 2 : ArrivingAt(p, off)
        BY <2>6 DEF Arriving
      <3>2. off = 0 /\ FedUpTo(deframer, asked[p][owed], off)
        BY <2>1, <3>1 DEF ArrivingAt, FedUpTo
      <3>3. ArrivingAt(p, off)'
        BY <2>1, <2>3, <3>1, <3>2 DEF ArrivingAt
      <3>4. Arriving(p)'
        BY <2>1, <2>3, <2>6, <3>3 DEF Arriving
      <3> QED
        BY <2>4, <3>4 DEF TurnsOf
    <2> QED
      BY <2>1, <2>2, <2>5, <2>6 DEF TurnsOf, Answering
  <1>3. CASE ~Accepted
    <2>1. peer = p /\ (clean \/ tpc = "accept")
      <3>1. peer' = peer /\ clean' = clean /\ tpc' # "accept"
        BY <1>1, <1>3 DEF Serve, ServeFails, RunCommand, Exec, Read, FeedByte, RecvEof, SendHead, SendBody,
             RecvFails, SendFails, tcpVars, history
      <3> QED
        BY <3>1
    <2>2. TurnsOf(p)
      BY <2>1 DEF Turns
    <2>3. ASSUME tpc' = "finish", UNCHANGED <<stream, inbox>> PROVE TurnsOf(p)'
      <3>1. View(p)' = View(p) /\ Live(p)' = Live(p) /\ Reading(p)' = Reading(p)
        BY <1>0, <2>3 DEF View, Live, Reading, linkVars
      <3> QED
        BY <2>2, <2>3, <3>1 DEF TurnsOf, HostSide
    <2>4. CASE FeedByte
      BY <1>0, <2>2, <2>4, FeedTurns
    <2>5. CASE SendHead \/ SendBody \/ \E n \in 0 .. N + 3 : SendFails(n)
      BY <1>0, <2>1, <2>2, <2>5, AnswerTurns
    <2>6. CASE RecvEof \/ RecvFails
      BY <2>3, <2>6 DEF RecvEof, RecvFails, tcpVars
    <2>7. CASE RunCommand
      <3>1. /\ tpc = "exec" /\ tpc' = "sendHead" /\ UNCHANGED <<chunk, up, deframer, stream, inbox>>
        BY <2>7 DEF RunCommand, Exec, tcpVars
      <3>2. View(p)' = View(p) /\ Live(p)' = Live(p) /\ Reading(p)' = Reading(p) /\ Coming' = Coming
        BY <1>0, <3>1 DEF View, Live, Reading, linkVars, Coming
      <3>3. Answering(p)
        BY <2>2, <3>1 DEF TurnsOf, Arriving, Waiting
      <3>4. Answering(p)' /\ HostSide(p)'
        BY <2>2, <3>1, <3>2, <3>3 DEF Answering, Quiet, HostSide, TurnsOf
      <3> QED
        BY <3>4 DEF TurnsOf
    <2>8. ASSUME NEW n \in 1 .. CHUNK, Read(n) PROVE TurnsOf(p)'
      <3>1. /\ tpc = "recv" /\ tpc' = "feed" /\ UNCHANGED <<deframer, stream, inbox>> /\ chunk = <<>>
            /\ up \in Seq(Byte) /\ n \in Nat /\ n <= Len(up) /\ n > 0 /\ Len(up) \in Nat
        BY <2>8, ChannelAssumption, LenProperties DEF Read, Connected, TypeOK, TcpTypeOK
      <3>2. View(p)' = View(p) /\ Live(p)' = Live(p) /\ Reading(p)' = Reading(p)
            /\ asked'[p] = asked[p] /\ owed' = owed
        BY <1>0, <3>1 DEF View, Live, Reading, linkVars
      <3>3. Coming' = Coming
        <4>1. SubSeq(up, 1, n) \o SubSeq(up, n + 1, Len(up)) = up
          BY <3>1, CutAndJoined
        <4>2. Coming = up
          BY <3>1 DEF Coming
        <4> QED
          BY <2>8, <4>1, <4>2 DEF Coming, Read
      <3>4. Coming # <<>>
        <4>1. up # <<>>
          BY <3>1
        <4> QED
          BY <4>1, NothingComing
      <3>5. Arriving(p)
        BY <2>2, <3>1, <3>4 DEF TurnsOf, Waiting, Answering, Quiet
      <3>6. PICK off \in 0 .. MAX_FRAME + 2 : ArrivingAt(p, off)
        BY <3>5 DEF Arriving
      <3>7. ArrivingAt(p, off)'
        BY <3>1, <3>2, <3>3, <3>6 DEF ArrivingAt
      <3>8. Arriving(p)'
        BY <3>1, <3>2, <3>5, <3>7 DEF Arriving
      <3> QED
        BY <2>2, <3>2, <3>8 DEF TurnsOf, HostSide
    <2> QED
      BY <1>1, <1>3, <2>4, <2>5, <2>6, <2>7, <2>8 DEF Serve, ServeFails
  <1> QED
    BY <1>2, <1>3 DEF Serve, ServeFails, RunCommand, Exec, Read, FeedByte, RecvEof, SendHead, SendBody,
         RecvFails, SendFails, Accepted, Finish, AcceptFails

\* Every step keeps the turns.
LEMMA TurnsStep ==
  ASSUME TypeOK, Connected, AtLastRequest, FramesOnly, Turns, [Next]_vars
  PROVE  Turns'
  <1>1. ASSUME NEW h \in Sessions, NEW p \in Requests,
               Ask(h, p), UNCHANGED <<channelVars, owed, ran, clean, failed>>
        PROVE  Turns'
    <2>1. UNCHANGED <<need, stream, inbox, peer, up, tpc, deframer, chunk, frame, resp, owed, clean>>
      BY <1>1 DEF Ask, RequestTooLarge, Request, linkVars, tcpVars, channelVars
    <2>2. ASSUME NEW g \in Sessions
          PROVE  /\ View(g)' = View(g) /\ Live(g)' = Live(g) /\ Reading(g)' = Reading(g)
                 /\ owed \in 1 .. Len(asked[g]) =>
                      owed \in 1 .. Len(asked'[g]) /\ asked'[g][owed] = asked[g][owed]
      <3>1. \/ lpc'[g] = lpc[g]
            \/ lpc[g] = "idle" /\ lpc'[g] \in {"connect", "write"}
        BY <1>1 DEF Ask, RequestTooLarge, Request, Goto, linkVars, TypeOK, LinkTypeOK
      <3>2. asked'[g] = asked[g] \/ asked'[g] = Append(asked[g], p)
        BY <1>1 DEF Ask, TypeOK
      <3>3. asked[g] \in Seq(Requests) /\ Len(asked[g]) \in Nat
        BY LenProperties DEF TypeOK
      <3>4. owed \in 1 .. Len(asked[g]) =>
              owed \in 1 .. Len(asked'[g]) /\ asked'[g][owed] = asked[g][owed]
        BY <3>2, <3>3, AppendProperties
      <3> QED
        BY <2>1, <3>1, <3>4 DEF View, ViewOf, Live, Reading
    <2> QED
      BY <2>1, <2>2, TurnsKept DEF Turns
  <1>2. ASSUME NEW h \in Sessions, Detach(h), UNCHANGED <<channelVars, history>>
        PROVE  Turns'
    <2>1. UNCHANGED <<lpc, need, peer, up, tpc, deframer, chunk, frame, resp, owed, clean, asked>>
      BY <1>2 DEF Detach, channelVars, history, linkVars
    <2>2. ASSUME NEW g \in Sessions
          PROVE  Live(g)' => Live(g) /\ View(g)' = View(g) /\ Reading(g)' = Reading(g)
      BY <1>2, <2>1, Dropped DEF Detach, Live, View, Reading
    <2> QED
      BY <2>1, <2>2, TurnsKept DEF Turns
  <1>3. CASE Vanish \/ UNCHANGED vars
    <2>1. UNCHANGED <<lpc, need, peer, up, tpc, deframer, chunk, frame, resp, owed, clean, asked, stream, inbox>>
      BY <1>3 DEF Vanish, HostVanishes, vars, tcpVars, linkVars, channelVars, history
    <2>2. ASSUME NEW g \in Sessions
          PROVE  Live(g)' => Live(g) /\ View(g)' = View(g) /\ Reading(g)' = Reading(g)
      BY <2>1 DEF Live, View, Reading
    <2> QED
      BY <2>1, <2>2, TurnsKept DEF Turns
  <1>4. CASE ListenStep
    BY <1>4, TcpAssumption DEF ListenStep, StartAccept, Listen, Turns
  <1> QED
    BY <1>1, <1>2, <1>3, <1>4, HostTurns, ServeTurns DEF Next

-----------------------------------------------------------------------------
\* It holds at the start.
LEMMA LinkStart ==
  ASSUME Init
  PROVE  LinkInv
  <1> USE DEF Init, TcpInit, LinkInit, ChannelInit
  <1>1. TypeOK
    <2>0. <<>> \in Seq(Byte) /\ <<>> \in Seq(Requests)
      OBVIOUS
    <2>1. TcpTypeOK
      BY <2>0 DEF TcpTypeOK
    <2>2. LinkTypeOK
      BY <2>0 DEF LinkTypeOK, PCs, Err
    <2>3. ChannelTypeOK
      <3>1. NewDeframer \in Deframers
        BY DEF NewDeframer, Deframers, RxStates, Byte
      <3> QED
        BY <2>0, <3>1 DEF ChannelTypeOK, TPCs
    <2> QED
      BY <2>0, <2>1, <2>2, <2>3 DEF TypeOK, NoRun
  <1>2. Connected
    BY DEF Connected, Live, NewDeframer
  <1>3. AtLastRequest
    BY DEF AtLastRequest, Busy
  <1>4. FramesOnly
    <2>1. ASSUME NEW h \in Sessions PROVE View(h) = <<>> /\ ~Live(h)
      BY DEF View, ViewOf, Live
    <2> QED
      BY <2>1, EmptyFramed DEF FramesOnly, FramesOf
  <1>5. Turns
    BY TcpAssumption DEF Turns
  <1> QED
    BY <1>1, <1>2, <1>3, <1>4, <1>5 DEF LinkInv

\* The inductive invariant: one live connection, a host that holds frames of
\* the firmware only, and requests and answers in turn.
LEMMA LinkInvariant ==
  ASSUME AnswersFit
  PROVE  Spec => []LinkInv
  <1>1. Init => LinkInv
    BY LinkStart
  <1>2. LinkInv /\ [Next]_vars => LinkInv'
    <2> SUFFICES ASSUME LinkInv, [Next]_vars PROVE LinkInv'
      OBVIOUS
    <2>1. TypeOK /\ Connected /\ AtLastRequest /\ FramesOnly /\ Turns
      BY DEF LinkInv
    <2>2. TypeOK' /\ Connected'
      BY <2>1, TypeStep, ConnectedStep
    <2>3. AtLastRequest' /\ FramesOnly'
      BY <2>1, LastRequestStep, FramesStep
    <2>4. Turns'
      BY <2>1, TurnsStep
    <2> QED
      BY <2>2, <2>3, <2>4 DEF LinkInv
  <1> QED
    BY <1>1, <1>2, PTL DEF Spec

\* The fields of link.rs, channel/tcp.rs and frame.rs keep their types for any
\* number of sessions and whatever the network does.
THEOREM LinkTypes == AnswersFit => (Spec => []TypeOK)
  <1> SUFFICES ASSUME AnswersFit PROVE Spec => []TypeOK
    OBVIOUS
  <1>1. LinkInv => TypeOK
    BY DEF LinkInv
  <1> QED
    BY <1>1, LinkInvariant, PTL

\* No command of an earlier connection, of another session or of a request
\* given up is run on a connection accepted with the decoder at rest
\* (recv_frame, try_request).
THEOREM LinkCleanRuns == AnswersFit => (Spec => []CleanRuns)
  <1> SUFFICES ASSUME AnswersFit PROVE Spec => []CleanRuns
    OBVIOUS
  <1>1. LinkInv => CleanRuns
    <2> SUFFICES ASSUME LinkInv, tpc = "exec", clean
                 PROVE  owed \in 1 .. Len(asked[peer]) /\ frame = Kept(asked[peer][owed])
      BY DEF CleanRuns
    <2>1. peer \in Sessions
      BY DEF LinkInv, Connected, TypeOK, TcpTypeOK
    <2>2. TurnsOf(peer)
      BY <2>1 DEF LinkInv, Turns
    <2> QED
      BY <2>2 DEF TurnsOf, Arriving, Waiting, Answering
  <1> QED
    BY <1>1, LinkInvariant, PTL

\* read_frame starts at a magic byte, meets no illegal length, and never finds
\* an older response in front of the one it waits for.
THEOREM LinkHostInStep == AnswersFit => (Spec => []HostInStep)
  <1> SUFFICES ASSUME AnswersFit PROVE Spec => []HostInStep
    OBVIOUS
  <1>1. LinkInv => HostInStep
    <2> SUFFICES ASSUME LinkInv, NEW h \in Sessions
                 PROVE  /\ lpc[h] = "magic" /\ inbox[h] # <<>> => Head(inbox[h]) = FRAME_MAGIC
                        /\ lpc[h] = "len" /\ CanRead(h) => AnnouncedLen(inbox[h][1], inbox[h][2]) <= MAX_FRAME
                        /\ clean /\ Live(h) /\ lpc[h] \in {"idle", "write"} => inbox[h] = <<>>
      BY DEF HostInStep
    <2>1. TypeOK /\ FramesOf(h)
      BY DEF LinkInv, FramesOnly
    <2>2. lpc[h] = "len" /\ CanRead(h) => Len(inbox[h]) >= 2
      BY DEF CanRead, Wanted
    <2>3. ASSUME clean, Live(h), lpc[h] \in {"idle", "write"} PROVE inbox[h] = <<>>
      <3>1. TurnsOf(h)
        BY <2>3 DEF LinkInv, Connected, Turns
      <3>2. ~Reading(h) /\ View(h) = inbox[h]
        BY <2>3 DEF Reading, View, ViewOf
      <3> QED
        BY <2>3, <3>1, <3>2 DEF TurnsOf, HostSide
    <2> QED
      BY <2>1, <2>2, <2>3, MeetsFrames
  <1> QED
    BY <1>1, LinkInvariant, PTL
-----------------------------------------------------------------------------
(***************************************************************************)
(* What the link promises the bridge while no connection is cut inside a   *)
(* frame: LinkSystem implements DapRpc, for any number of sessions,        *)
(* requests and connections lost between two frames.  And the counters of  *)
(* the console, wherever a connection is cut.                              *)
(***************************************************************************)

\* The firmware has run the session's last request, and nothing after it.
RanLast(h) == ran[h].no = Len(asked[h])

\* The firmware's connection carries a request that has not run.
Pending ==
  /\ peer # Nobody /\ tpc # "finish"
  /\ Coming # <<>> \/ tpc = "exec"

PendingOf(h) == peer = h /\ Pending

PendingLast(h) == PendingOf(h) /\ owed = Len(asked[h])

\* The decoder is at rest whenever a connection ends.
DecoderRests ==
  /\ clean
  /\ deframer.rejects = 0
  /\ tpc \in {"accept", "finish"} => deframer.state = "Magic"

\* Requests are numbered within the bound, and run under their numbers.
Numbered(h) ==
  /\ Len(asked[h]) <= LINK_REQUESTS /\ LINK_REQUESTS <= MaxReq
  /\ ran[h].no <= Len(asked[h])

\* A session sends and reads on a stream it holds, and keeps nothing of it.
OnStream(h) ==
  /\ Reading(h) \/ lpc[h] = "write" => stream[h] # "none"
  /\ lpc[h] \in {"connect", "reconnect"} => stream[h] = "none"
  /\ stream[h] = "dead" => peer # h
  /\ ~Reading(h) => inbox[h] = <<>>
  /\ lpc[h] = "connect" => attempt[h] = 1
  /\ lpc[h] = "reconnect" => attempt[h] = 2

\* The last request has not been written yet, or once and not again.
Unwritten(h) == lpc[h] \in {"connect", "write"} /\ attempt[h] = 1
WrittenOnce(h) ==
  \/ Reading(h) /\ attempt[h] = 1
  \/ lpc[h] \in {"reconnect", "write"} /\ attempt[h] = 2

\* Not written, it has not run; written once, it has run once or may do so.
RunsLeft(h) ==
  /\ Unwritten(h) => ~RanLast(h) /\ ~PendingLast(h)
  /\ WrittenOnce(h) /\ RanLast(h) => ran[h].times = 1 /\ ~PendingLast(h)

\* The request on its way may run: none after it has run, it has not run
\* twice, it has not been answered.
MayRun(h) ==
  PendingOf(h) =>
    /\ owed > ran[h].no \/ (owed = ran[h].no /\ ran[h].times = 1)
    /\ Live(h) => owed = Len(asked[h])
    /\ ~(owed = Len(asked[h]) /\ ~Busy(h) /\ answer[h].ok)

\* s is the start of t.
StartOf(s, t) == Len(s) <= Len(t) /\ \A i \in 1 .. Len(s) : s[i] = t[i]

\* What a session reads is the response of its request's last run.
ReadsItsAnswer(h) ==
  /\ Len(ran[h].resp) <= MAX_FRAME
  /\ Reading(h) /\ View(h) # <<>> => RanLast(h) /\ StartOf(View(h), Wire(ran[h].resp))
  /\ tpc \in {"sendHead", "sendBody"} /\ Live(h) => RanLast(h) /\ ran[h].resp = resp

RpcOf(h) ==
  /\ Numbered(h)
  /\ OnStream(h)
  /\ RunsLeft(h)
  /\ MayRun(h)
  /\ ReadsItsAnswer(h)

RpcInv == DecoderRests /\ \A h \in Sessions : RpcOf(h)
-----------------------------------------------------------------------------
\* A connection accepted with the decoder at rest: requests and answers take
\* turns on it, and nothing of a request on its way gets lost.
LEMMA PendingTurns ==
  ASSUME LinkInv, DecoderRests, NEW h \in Sessions, peer = h
  PROVE  /\ TurnsOf(h)
         /\ Pending => /\ owed \in 1 .. Len(asked[h])
                       /\ Live(h) => Reading(h) /\ View(h) = <<>>
         /\ Live(h) /\ ~Reading(h) => View(h) = <<>> /\ (Waiting \/ tpc = "finish")
  <1>1. TurnsOf(h)
    BY DEF LinkInv, Turns, DecoderRests
  <1>2. Pending => Arriving(h) \/ (Answering(h) /\ tpc = "exec")
    BY <1>1 DEF TurnsOf, Pending, Waiting, Quiet, Answering
  <1>3. ASSUME Pending
        PROVE  owed \in 1 .. Len(asked[h]) /\ (Live(h) => Reading(h) /\ View(h) = <<>>)
    <2>1. CASE Arriving(h)
      BY <2>1 DEF Arriving
    <2>2. CASE Answering(h) /\ tpc = "exec"
      BY <2>2 DEF Answering
    <2> QED
      BY <1>2, <1>3, <2>1, <2>2
  <1>4. Live(h) /\ ~Reading(h) => View(h) = <<>> /\ (Waiting \/ tpc = "finish")
    BY <1>1 DEF TurnsOf, HostSide, Arriving, Answering
  <1> QED
    BY <1>1, <1>3, <1>4

\* Of a request on its way some bytes are still coming.
LEMMA ComingRequest ==
  ASSUME LinkInv, ~MidFrameLoss, NEW h \in Sessions, Arriving(h)
  PROVE  Coming # <<>>
  <1>1. PICK off \in 0 .. MAX_FRAME + 2 : ArrivingAt(h, off)
    BY DEF Arriving
  <1>2. off < Len(Wire(asked[h][owed])) /\ off + Len(Coming) = Len(Wire(asked[h][owed]))
    BY <1>1 DEF ArrivingAt
  <1>3. off \in Nat
    BY LinkAssumption
  <1>4. Coming = <<>> => Len(Coming) = 0
    OBVIOUS
  <1> QED
    BY <1>2, <1>3, <1>4

\* No connection ends with the decoder inside a frame, and it never rejects a
\* byte: the garbage test of recv_frame never fires.
LEMMA DecoderStep ==
  ASSUME LinkInv, ~MidFrameLoss, DecoderRests, [Next]_vars
  PROVE  DecoderRests'
  <1>0. TypeOK /\ Connected /\ AtLastRequest
    BY DEF LinkInv
  <1>1. CASE UNCHANGED <<tpc, deframer, clean>>
    BY <1>1 DEF DecoderRests
  <1>2. CASE Serve \/ ServeFails
    <2>1. CASE Accepted /\ clean' = AtRest(deframer)
      <3>1. deframer.state = "Magic" /\ deframer' = deframer /\ tpc' = "recv" /\ deframer.rejects = 0
        BY <2>1 DEF Accepted, DecoderRests
      <3>2. ~IsGarbage(deframer)
        BY <3>1, FrameAssumption DEF IsGarbage
      <3>3. clean'
        BY <2>1, <3>1, <3>2, Zenon DEF AtRest
      <3> QED
        BY <3>1, <3>3 DEF DecoderRests
    <2>2. CASE FeedByte /\ UNCHANGED <<clean, asked, owed>>
      <3>1. /\ tpc = "feed" /\ chunk # <<>> /\ chunk \in Seq(Byte) /\ up \in Seq(Byte) /\ deframer \in Deframers
            /\ peer \in Sessions
        BY <1>0, <2>2 DEF FeedByte, Connected, TypeOK, TcpTypeOK, ChannelTypeOK
      <3>2. Coming # <<>>
        BY <1>0, <3>1, NothingComing
      <3>3. Arriving(peer)
        BY <3>1, <3>2, PendingTurns DEF TurnsOf, Waiting, Answering, Quiet
      <3>4. PICK off \in 0 .. MAX_FRAME + 2 : ArrivingAt(peer, off)
        BY <3>3 DEF Arriving
      <3> DEFINE q == asked[peer][owed]
                 b == Head(chunk)
      <3>5. q \in Seq(Byte) /\ Len(q) < LenLimit /\ Len(q) \in Nat
        <4>1. owed \in 1 .. Len(asked[peer])
          BY <3>3 DEF Arriving
        <4>2. q \in Seq(Byte) /\ Len(q) <= MAX_FRAME
          BY <1>0, <3>1, <4>1, RequestBytes DEF AtLastRequest
        <4> QED
          BY <4>2, LenProperties, LinkAssumption DEF LenLimit
      <3>6. /\ off \in Nat /\ off < Len(Wire(q)) /\ Within(Coming, Wire(q), off)
            /\ FedUpTo(deframer, q, off)
        BY <3>1, <3>4, LinkAssumption DEF ArrivingAt
      <3>7. off < Len(q) + 3
        <4> HIDE DEF q
        <4> QED
          BY <3>5, <3>6, WireBytes
      <3>8. b = Wire(q)[off + 1]
        <4>1. b = Coming[1] /\ 1 \in 1 .. Len(Coming)
          BY <1>0, <3>1, <3>2, ComingTail, NothingComing, LenProperties, EmptySeq DEF Coming
        <4> HIDE DEF q, b
        <4> QED
          BY <3>6, <4>1 DEF Within
      <3> DEFINE e == Feed(deframer, b)
                 f == FrameOf(deframer, b)
      <3>9. /\ off + 1 < Len(q) + 3 => f = <<>> /\ e.rejects = 0
            /\ off + 1 = Len(q) + 3 => e.state = "Magic" /\ e.rejects = 0
        <4>1. deframer.rejects = 0
          BY DEF DecoderRests
        <4>2. LET e1 == Feed(deframer, Wire(q)[off + 1])
                  f1 == FrameOf(deframer, Wire(q)[off + 1])
              IN  /\ off + 1 < Len(q) + 3 => f1 = <<>> /\ e1.rejects = deframer.rejects
                  /\ off + 1 = Len(q) + 3 =>
                       e1.state = "Magic" /\ e1.rejects = IF q = <<>> THEN deframer.rejects ELSE 0
          <5> HIDE DEF q
          <5> QED
            BY <3>1, <3>5, <3>6, <3>7, FeedNext
        <4> HIDE DEF q, b
        <4> QED
          BY <3>8, <4>1, <4>2
      <3>10. /\ deframer' = e
             /\ tpc' = "finish" => f # <<>> \/ IsGarbage(e)
             /\ tpc' # "accept"
        BY <2>2 DEF FeedByte
      <3> HIDE DEF e, f, q
      <3>11. e.rejects = 0
        BY <3>5, <3>6, <3>7, <3>9
      <3>12. ~IsGarbage(e)
        BY <3>11, FrameAssumption DEF IsGarbage
      <3>13. f # <<>> => e.state = "Magic"
        BY <3>5, <3>6, <3>7, <3>9
      <3> QED
        BY <2>2, <3>10, <3>11, <3>12, <3>13 DEF DecoderRests
    <2>3. ASSUME tpc' = "finish", tpc = "recv", UNCHANGED <<deframer, clean>>, up = <<>> \/ deframer.state = "Magic"
          PROVE  DecoderRests'
      <3>1. CASE up = <<>>
        <4>1. peer \in Sessions /\ chunk = <<>>
          BY <1>0, <2>3 DEF Connected, TypeOK, TcpTypeOK
        <4>2. Coming = <<>>
          BY <1>0, <3>1, <4>1, NothingComing
        <4>3. ~Arriving(peer)
          BY <4>1, <4>2, ComingRequest
        <4>4. deframer.state = "Magic"
          BY <2>3, <4>1, <4>3, PendingTurns DEF TurnsOf, Waiting, Answering, Quiet
        <4> QED
          BY <2>3, <4>4 DEF DecoderRests
      <3> QED
        BY <2>3, <3>1 DEF DecoderRests
    <2>4. ASSUME tpc' = "finish", tpc \in {"sendHead", "sendBody"}, UNCHANGED <<deframer, clean>>
          PROVE  DecoderRests'
      <3>1. peer \in Sessions
        BY <1>0, <2>4 DEF Connected, TypeOK, TcpTypeOK
      <3>2. deframer.state = "Magic"
        BY <2>4, <3>1, PendingTurns DEF TurnsOf, Arriving, Waiting, Answering, Quiet
      <3> QED
        BY <2>4, <3>2 DEF DecoderRests
    <2>5. CASE RunCommand \/ ((\E n \in 1 .. CHUNK : Read(n)) /\ UNCHANGED clean)
      BY <2>5 DEF RunCommand, Exec, Read, DecoderRests
    <2>6. CASE (SendHead \/ SendBody \/ Finish) /\ UNCHANGED clean
      BY <2>6 DEF SendHead, SendBody, Finish, DecoderRests
    <2>7. CASE RecvEof /\ UNCHANGED clean
      BY <2>3, <2>7 DEF RecvEof
    <2>8. CASE RecvFails /\ UNCHANGED clean
      BY <2>3, <2>8 DEF RecvFails
    <2>9. CASE AcceptFails /\ UNCHANGED clean
      BY <2>9 DEF AcceptFails, DecoderRests
    <2>10. CASE (\E n \in 0 .. N + 3 : SendFails(n)) /\ UNCHANGED clean
      BY <2>4, <2>10 DEF SendFails
    <2> QED
      BY <1>2, <2>1, <2>2, <2>5, <2>6, <2>7, <2>8, <2>9, <2>10 DEF Serve, ServeFails, history
  <1> QED
    BY <1>1, <1>2 DEF Next, HostStep, Vanish, HostVanishes, ListenStep, StartAccept, vars, channelVars, history
-----------------------------------------------------------------------------
\* Requests keep their numbers.
LEMMA NumberedStep ==
  ASSUME LinkInv, DecoderRests, NEW h \in Sessions, Numbered(h), [Next]_vars
  PROVE  Numbered(h)'
  <1>0. /\ TypeOK /\ LINK_REQUESTS \in Nat /\ ran[h].no \in Nat
        /\ asked[h] \in Seq(Requests) /\ Len(asked[h]) \in Nat
    BY LenProperties DEF LinkInv, TypeOK, LinkTypeOK
  <1>1. ASSUME NEW g \in Sessions, NEW p \in Requests, Ask(g, p), ran' = ran
        PROVE  Numbered(h)'
    <2>1. CASE RequestTooLarge(g, p) /\ UNCHANGED asked
      BY <1>1, <2>1 DEF RequestTooLarge, linkVars, Numbered
    <2>2. CASE Request(g, p) /\ LINK_REQUESTS < MaxReq /\ asked' = [asked EXCEPT ![g] = Append(@, p)]
      <3>1. LINK_REQUESTS' = LINK_REQUESTS + 1
        BY <2>2 DEF Request
      <3>2. asked'[h] = asked[h] \/ asked'[h] = Append(asked[h], p)
        BY <1>0, <2>2 DEF TypeOK
      <3>3. Len(asked'[h]) \in {Len(asked[h]), Len(asked[h]) + 1}
        BY <1>0, <3>2, AppendProperties
      <3> QED
        BY <1>0, <1>1, <2>2, <3>1, <3>3, SystemAssumption DEF Numbered
    <2> QED
      BY <1>1, <2>1, <2>2 DEF Ask
  <1>2. CASE RunCommand /\ UNCHANGED <<linkVars, asked>>
    <2>1. peer \in Sessions /\ tpc = "exec"
      BY <1>2 DEF LinkInv, Connected, TypeOK, TcpTypeOK, RunCommand, Exec
    <2>2. owed \in 1 .. Len(asked[peer])
      <3>1. Pending
        BY <2>1, TcpAssumption DEF Pending
      <3> QED
        BY <2>1, <3>1, PendingTurns
    <2>3. ran'[h].no = IF h = peer THEN owed ELSE ran[h].no
      BY <1>2, <2>1 DEF RunCommand, LinkInv, TypeOK
    <2> QED
      BY <1>0, <1>2, <2>2, <2>3 DEF Numbered, linkVars
  <1>3. CASE UNCHANGED <<LINK_REQUESTS, asked, ran>>
    BY <1>3 DEF Numbered
  <1>4. ASSUME NEW g \in Sessions, HostStep(g) PROVE UNCHANGED <<LINK_REQUESTS, asked, ran>>
    BY <1>4 DEF HostStep, Send, Receive, Write, WriteFails, Connect, ConnectFails, ReconnectFails,
         ReadFails, ReadMagic, SkipByte, ReadLen, ReadPayload, FailTry
  <1>5. CASE Serve /\ ~RunCommand
    BY <1>3, <1>5 DEF Serve, linkVars
  <1>6. ASSUME NEW g \in Sessions, Detach(g), UNCHANGED history PROVE UNCHANGED <<LINK_REQUESTS, asked, ran>>
    BY <1>6 DEF Detach, linkVars, history
  <1>7. CASE ServeFails \/ Vanish \/ ListenStep \/ UNCHANGED vars
    BY <1>3, <1>7 DEF ServeFails, Vanish, ListenStep, vars, linkVars, history
  <1> QED
    BY <1>1, <1>2, <1>3, <1>4, <1>5, <1>6, <1>7 DEF Next, Serve

\* A session is as it was while nothing of it changes but its place in a frame.
LEMMA RpcKept ==
  ASSUME NEW h \in Sessions, RpcOf(h), Numbered(h)', OnStream(h)',
         asked'[h] = asked[h], ran'[h] = ran[h], attempt'[h] = attempt[h], answer'[h] = answer[h],
         \/ lpc'[h] = lpc[h]
         \/ Reading(h) /\ Reading(h)',
         Reading(h)' => View(h)' = View(h),
         PendingOf(h)' => PendingOf(h) /\ owed' = owed,
         Live(h)' => Live(h),
         tpc' \in {"sendHead", "sendBody"} /\ Live(h)' =>
           tpc \in {"sendHead", "sendBody"} /\ resp' = resp
  PROVE  RpcOf(h)'
  <1>1. /\ Reading(h)' = Reading(h) /\ Busy(h)' = Busy(h) /\ RanLast(h)' = RanLast(h)
        /\ Unwritten(h)' = Unwritten(h) /\ WrittenOnce(h)' = WrittenOnce(h)
    BY DEF Reading, Busy, RanLast, Unwritten, WrittenOnce
  <1>2. RunsLeft(h)'
    BY <1>1 DEF RpcOf, RunsLeft, PendingLast
  <1>3. MayRun(h)'
    BY <1>1 DEF RpcOf, MayRun
  <1>4. ReadsItsAnswer(h)'
    BY <1>1 DEF RpcOf, ReadsItsAnswer
  <1> QED
    BY <1>2, <1>3, <1>4 DEF RpcOf

-----------------------------------------------------------------------------
\* The bridge asks for a request.
LEMMA AskRpc ==
  ASSUME LinkInv, LinkInv', RpcInv, NEW h \in Sessions, Numbered(h)',
         NEW g \in Sessions, NEW p \in Requests,
         Ask(g, p), UNCHANGED <<channelVars, owed, ran, clean, failed>>
  PROVE  RpcOf(h)'
  <1>0. /\ TypeOK /\ Connected /\ DecoderRests /\ RpcOf(h)
        /\ UNCHANGED <<need, tcpVars, channelVars, owed, ran, answer>>
        /\ lpc \in [Sessions -> PCs] /\ attempt \in [Sessions -> 1 .. 2]
        /\ asked \in [Sessions -> Seq(Requests)]
    BY DEF LinkInv, RpcInv, Ask, RequestTooLarge, Request, linkVars, TypeOK, LinkTypeOK
  <1>1. /\ PendingOf(h)' = PendingOf(h) /\ Live(h)' = Live(h) /\ stream' = stream /\ inbox' = inbox
        /\ peer' = peer /\ tpc' = tpc /\ resp' = resp
    BY <1>0 DEF PendingOf, Pending, Coming, tcpVars, channelVars, Live
  <1>2. CASE lpc'[h] = lpc[h] /\ asked'[h] = asked[h] /\ attempt'[h] = attempt[h]
    <2>1. View(h)' = View(h) /\ OnStream(h)'
      BY <1>0, <1>1, <1>2 DEF View, OnStream, RpcOf, Reading
    <2> QED
      BY <1>0, <1>1, <1>2, <2>1, RpcKept
  <1>3. CASE /\ lpc[h] = "idle"
             /\ lpc'[h] = IF stream[h] = "none" THEN "connect" ELSE "write"
             /\ asked'[h] = Append(asked[h], p) /\ attempt'[h] = 1
    <2>1. /\ ~Reading(h) /\ ~Reading(h)' /\ Busy(h)' /\ Unwritten(h)' /\ ~WrittenOnce(h)'
          /\ lpc'[h] \in {"connect", "write"}
      BY <1>3 DEF Reading, Busy, Unwritten, WrittenOnce
    <2>2. OnStream(h)'
      BY <1>0, <1>1, <1>3, <2>1 DEF OnStream, RpcOf
    <2>3. Len(asked'[h]) = Len(asked[h]) + 1 /\ Len(asked[h]) \in Nat
      BY <1>0, <1>3, AppendProperties, LenProperties
    <2>4. PendingOf(h) => owed \in 1 .. Len(asked[h]) /\ ~Live(h)
      BY <1>0, <2>1, PendingTurns DEF PendingOf
    <2>5. ran[h].no <= Len(asked[h]) /\ ran[h].no \in Nat
      BY <1>0 DEF RpcOf, Numbered, TypeOK
    <2>6. ~RanLast(h)' /\ ~PendingLast(h)'
      BY <1>0, <1>1, <2>3, <2>4, <2>5 DEF RanLast, PendingLast
    <2>7. RunsLeft(h)'
      BY <2>1, <2>6 DEF RunsLeft
    <2>8. MayRun(h)'
      BY <1>0, <1>1, <2>1, <2>4 DEF MayRun, RpcOf
    <2>9. tpc \notin {"sendHead", "sendBody"} \/ ~Live(h)
      BY <1>0, <2>1, PendingTurns DEF Connected, Waiting
    <2>10. ReadsItsAnswer(h)'
      BY <1>0, <1>1, <2>1, <2>9 DEF ReadsItsAnswer, RpcOf
    <2> QED
      BY <2>2, <2>7, <2>8, <2>10 DEF RpcOf
  <1> QED
    BY <1>0, <1>2, <1>3 DEF Ask, RequestTooLarge, Request, Goto, linkVars
-----------------------------------------------------------------------------
\* The first attempt fails and is retried, or request() returns an error.
Retries(h) ==
  /\ lpc[h] \in {"connect", "write"} \/ Reading(h)
  /\ attempt[h] = 1 /\ attempt'[h] = 2
  /\ lpc'[h] = "reconnect" /\ answer'[h] = answer[h]
  /\ stream'[h] = "none" /\ inbox'[h] = <<>>

Quits(h) ==
  /\ Busy(h) /\ lpc'[h] = "idle" /\ answer'[h] = Err /\ attempt'[h] = attempt[h]
  /\ stream'[h] = "none" /\ inbox'[h] = <<>>

\* The session reads on.
ReadsOn(h) ==
  /\ Reading(h) /\ Reading(h)' /\ View(h)' = View(h)
  /\ attempt'[h] = attempt[h] /\ answer'[h] = answer[h] /\ stream'[h] = stream[h]

LEMMA FailedTry ==
  ASSUME TypeOK, NEW h \in Sessions, FailTry(h),
         lpc[h] \in {"connect", "write"} \/ Reading(h)
  PROVE  Retries(h) \/ Quits(h)
  <1>1. /\ stream'[h] = "none" /\ inbox'[h] = <<>>
        /\ lpc \in [Sessions -> PCs] /\ attempt \in [Sessions -> 1 .. 2]
        /\ answer \in [Sessions -> [ok : BOOLEAN, resp : Seq(Byte)]]
    BY Dropped DEF FailTry, TypeOK, LinkTypeOK
  <1>2. Busy(h)
    BY DEF Busy, Reading
  <1> QED
    BY <1>1, <1>2 DEF FailTry, Goto, Return, Retries, Quits

\* What a step of a session leaves to the others.
LEMMA HostOthers ==
  ASSUME LinkInv, NEW h \in Sessions, HostStep(h), NEW g \in Sessions, g # h
  PROVE  /\ lpc'[g] = lpc[g] /\ attempt'[g] = attempt[g] /\ answer'[g] = answer[g]
         /\ stream'[g] = stream[g] /\ inbox'[g] = inbox[g] /\ View(g)' = View(g)
  <1>0. /\ TypeOK /\ FramesOnly /\ attempt \in [Sessions -> 1 .. 2]
        /\ answer \in [Sessions -> [ok : BOOLEAN, resp : Seq(Byte)]]
    BY DEF LinkInv, TypeOK, LinkTypeOK
  <1>1. lpc'[g] = lpc[g] /\ need'[g] = need[g] /\ stream'[g] = stream[g] /\ inbox'[g] = inbox[g]
    BY <1>0, HostTypes, HostOutcome DEF Moved
  <1>2. attempt'[g] = attempt[g] /\ answer'[g] = answer[g]
    BY <1>0 DEF HostStep, Send, Receive, Write, WriteFails, Connect, ConnectFails, ReconnectFails,
         ReadFails, ReadMagic, SkipByte, ReadLen, ReadPayload, FailTry, Return
  <1> QED
    BY <1>1, <1>2 DEF View

\* What it comes to for the session itself.
LEMMA HostKinds ==
  ASSUME LinkInv, NEW h \in Sessions, OnStream(h), HostStep(h)
  PROVE  \/ Retries(h) \/ Quits(h) \/ ReadsOn(h)
         \/ Connect(h) \/ Write(h) \/ ReadPayload(h)
  <1>0. /\ TypeOK /\ FramesOnly /\ lpc \in [Sessions -> PCs]
        /\ answer \in [Sessions -> [ok : BOOLEAN, resp : Seq(Byte)]]
    BY DEF LinkInv, TypeOK, LinkTypeOK
  <1>1. CASE Send(h) /\ ~Write(h)
    <2>1. FailTry(h) /\ lpc[h] = "write"
      BY <1>1 DEF Send, WriteFails
    <2> QED
      BY <1>0, <2>1, FailedTry
  <1>2. ASSUME NEW late \in BOOLEAN, ConnectFails(h, late)
        PROVE  Retries(h) \/ Quits(h)
    BY <1>0, <1>2, FailedTry DEF ConnectFails
  <1>3. ASSUME NEW late \in BOOLEAN, ReconnectFails(h, late)
        PROVE  Quits(h)
    <2>1. /\ lpc[h] = "reconnect" /\ lpc'[h] = "idle" /\ answer'[h] = Err /\ attempt'[h] = attempt[h] /\ Busy(h)
      BY <1>0, <1>3 DEF ReconnectFails, Return, Goto, Busy
    <2>2. stream'[h] = "none" /\ inbox'[h] = <<>>
      <3>1. CASE late
        BY <1>0, <1>3, <3>1, Established DEF ReconnectFails
      <3>2. CASE ~late
        BY <1>3, <2>1, <3>2 DEF ReconnectFails, tcpVars, OnStream, Reading
      <3> QED
        BY <3>1, <3>2
    <2> QED
      BY <2>1, <2>2 DEF Quits
  <1>4. CASE ReadFails(h)
    BY <1>0, <1>4, FailedTry DEF ReadFails
  <1>5. CASE ReadMagic(h) \/ SkipByte(h) \/ ReadLen(h)
    <2>1. CASE FailTry(h)
      <3>1. Reading(h)
        BY <1>5 DEF ReadMagic, SkipByte, ReadLen, Reading
      <3> QED
        BY <1>0, <2>1, <3>1, FailedTry
    <2>2. CASE ~FailTry(h)
      <3>1. /\ lpc[h] \in {"magic", "len"} /\ lpc'[h] \in {"magic", "len", "payload"}
            /\ UNCHANGED <<attempt, answer, stream>>
        BY <1>0, <1>5, <2>2 DEF ReadMagic, SkipByte, ReadLen, Goto
      <3>2. Reading(h) /\ Reading(h)'
        BY <3>1 DEF Reading
      <3>3. Stays(h)
        <4>1. ~GivesUp(h)
          BY <3>1 DEF GivesUp
        <4>2. ~Connect(h) /\ ~Write(h) /\ ~ReadPayload(h)
          BY <3>1 DEF Connect, Write, ReadPayload
        <4> QED
          BY <1>0, <4>1, <4>2, HostOutcome
      <3> QED
        BY <3>1, <3>2, <3>3 DEF Stays, ReadsOn
    <2> QED
      BY <2>1, <2>2
  <1> QED
    BY <1>1, <1>2, <1>3, <1>4, <1>5 DEF HostStep, Receive

\* Only a written request gets on its way.
LEMMA HostPending ==
  ASSUME LinkInv, RpcInv, ~MidFrameLoss, NEW h \in Sessions, HostStep(h)
  PROVE  /\ UNCHANGED <<channelVars, asked, ran, clean>>
         /\ peer' = peer \/ peer' = h
         /\ Write(h) => peer' = peer /\ (up' # up \/ owed' # owed => Live(h))
         /\ ~Write(h) /\ Pending' => Pending /\ peer' = peer /\ owed' = owed
         /\ Connect(h) => ~Pending'
  <1>0. /\ UNCHANGED <<channelVars, asked, ran, clean>> /\ TypeOK /\ Connected /\ DecoderRests
    BY DEF HostStep, Send, Receive, LinkInv, RpcInv
  <1>1. CASE Write(h)
    <2>1. peer' = peer /\ lpc[h] = "write" /\ PutUp(h, Wire(payload[h]))
      BY <1>1 DEF Write
    <2>2. ~Receive(h)
      BY <2>1 DEF Receive, Connect, ConnectFails, ReconnectFails, ReadFails, ReadMagic, SkipByte, ReadLen,
           ReadPayload, Reading
    <2>3. up' # up \/ owed' # owed => Live(h)
      BY <2>1, <2>2 DEF HostStep, Send, PutUp
    <2> QED
      BY <1>0, <1>1, <2>1, <2>3 DEF Connect
  <1>2. CASE ~Write(h) /\ Send(h)
    <2>1. PICK n \in 0 .. MAX_FRAME + 2 : WriteFails(h, n)
      BY <1>2 DEF Send
    <2>2. n = 0 /\ lpc[h] = "write" /\ peer' = peer /\ PutUp(h, SubSeq(Wire(payload[h]), 1, n))
      BY <2>1 DEF WriteFails
    <2>3. up' = up
      <3>1. SubSeq(Wire(payload[h]), 1, 0) = <<>>
        BY WireType, SubSeqEmpty, SMT DEF LinkInv, TypeOK, LinkTypeOK
      <3>2. up \o <<>> = up
        BY <1>0, ConcatEmptySeq DEF TypeOK, TcpTypeOK
      <3> QED
        BY <2>2, <3>1, <3>2 DEF PutUp
    <2>4. Pending' = Pending
      BY <1>0, <2>2, <2>3 DEF Pending, Coming, channelVars
    <2>5. Pending => owed' = owed
      <3> SUFFICES ASSUME Live(h), Pending PROVE FALSE
        BY <1>2 DEF Send
      <3>1. peer = h /\ ~Reading(h)
        BY <1>0, <2>2 DEF Connected, Reading
      <3> QED
        BY <1>0, <3>1, PendingTurns
    <2> QED
      BY <1>0, <1>2, <2>2, <2>4, <2>5 DEF Connect
  <1>3. CASE ~Send(h)
    <2>1. owed' = owed /\ ~Write(h)
      BY <1>3 DEF HostStep, Receive, Write, Connect, ConnectFails, ReconnectFails, ReadFails, ReadMagic,
           SkipByte, ReadLen, ReadPayload, Reading
    <2>2. CASE UNCHANGED <<peer, up>>
      <3>1. Pending' = Pending
        BY <1>0, <2>2 DEF Pending, Coming, channelVars
      <3>2. ~Connect(h)
        BY <1>0, <2>2, TcpAssumption DEF Connect, Establish, Connected
      <3> QED
        BY <1>0, <2>1, <2>2, <3>1, <3>2
    <2>3. CASE listening /\ peer' = h /\ up' = <<>>
      <3>1. tpc' = "accept" /\ chunk' = <<>>
        BY <1>0, <2>3 DEF Connected, channelVars
      <3>2. ~Pending'
        BY <2>3, <3>1 DEF Pending, Coming
      <3> QED
        BY <1>0, <2>1, <2>3, <3>2
    <2> QED
      BY <1>3, <2>2, <2>3 DEF HostStep, Receive, Connect, ConnectFails, ReconnectFails, ReadFails,
         ReadMagic, SkipByte, ReadLen, ReadPayload, Establish, tcpVars
  <1> QED
    BY <1>1, <1>2, <1>3
-----------------------------------------------------------------------------
\* The host reads the response of the last run, whole, and nothing stays.
LEMMA ReplyIsTheAnswer ==
  ASSUME LinkInv, RpcInv, NEW h \in Sessions, ReadPayload(h)
  PROVE  /\ RanLast(h)
         /\ View(h) # <<>> /\ Reading(h) /\ lpc'[h] = "idle" /\ inbox'[h] = <<>>
         /\ answer' = [answer EXCEPT ![h] = Ok(ran[h].resp)]
         /\ lpc' = [lpc EXCEPT ![h] = "idle"]
         /\ UNCHANGED <<attempt, listening, peer, up, stream>>
  <1> DEFINE s == View(h)
             n == need[h]
             in == inbox[h]
             r == ran[h].resp
             a == SubSeq(in, 1, n)
  <1>1. /\ TypeOK /\ AtLastRequest /\ FramesOf(h) /\ ReadsItsAnswer(h)
        /\ lpc[h] = "payload" /\ Reading(h) /\ CanRead(h) /\ TakeInbox(h) /\ Wanted(h) = n
        /\ lpc' = [lpc EXCEPT ![h] = "idle"] /\ answer' = [answer EXCEPT ![h] = Ok(a)]
        /\ UNCHANGED <<attempt, listening, peer, up, stream>>
    BY DEF LinkInv, FramesOnly, RpcInv, RpcOf, ReadPayload, Reading, Wanted, Return, Goto
  <1>2. in \in Seq(Byte) /\ Len(in) \in Nat /\ n \in Nat /\ n <= Len(in) /\ r \in Seq(Byte) /\ Len(r) \in Nat
    BY <1>1, Taken, LenProperties DEF TypeOK, TcpTypeOK, LinkTypeOK
  <1>3. /\ s \in Seq(Byte) /\ Len(s) = 3 + Len(in) /\ Within(in, s, 3) /\ LenAt(s, 1) = n
    <2>1. s = ViewOf("payload", n, in)
      BY <1>1 DEF View
    <2>2. "payload" \in PCs /\ HeadTaken("payload") = 3
      BY DEF PCs, HeadTaken
    <2>3. LenAt(s, 1) = n
      BY <1>1, TakesFrame
    <2> HIDE DEF s, n, in
    <2> QED
      BY <1>2, <2>1, <2>2, <2>3, ViewBytes
  <1> HIDE DEF s
  <1>4. s # <<>>
    BY <1>2, <1>3
  <1>5. RanLast(h) /\ StartOf(s, Wire(r)) /\ Len(r) <= MAX_FRAME
    BY <1>1, <1>4 DEF ReadsItsAnswer, s
  <1>6. /\ Wire(r) \in Seq(Byte) /\ Len(Wire(r)) = Len(r) + 3 /\ LenAt(Wire(r), 1) = Len(r)
        /\ \A i \in 1 .. Len(r) : Wire(r)[3 + i] = r[i]
    <2>1. Len(r) < LenLimit
      BY <1>2, <1>5, LinkAssumption DEF LenLimit
    <2>2. FrameHead(Len(r)) \in Seq(Byte) /\ Len(FrameHead(Len(r))) = 3 /\ LenAt(FrameHead(Len(r)), 1) = Len(r)
      BY <1>2, <2>1, HeadBytes DEF LenAt
    <2>3. /\ Wire(r) \in Seq(Byte) /\ Len(Wire(r)) = 3 + Len(r)
          /\ Within(FrameHead(Len(r)), Wire(r), 0) /\ Within(r, Wire(r), 3)
      BY <1>2, <2>2, Concatenated DEF Wire
    <2>4. Wire(r)[2] = FrameHead(Len(r))[2] /\ Wire(r)[3] = FrameHead(Len(r))[3]
      <3>1. 2 \in 1 .. Len(FrameHead(Len(r))) /\ 3 \in 1 .. Len(FrameHead(Len(r)))
        BY <2>2
      <3>2. Wire(r)[0 + 2] = FrameHead(Len(r))[2] /\ Wire(r)[0 + 3] = FrameHead(Len(r))[3]
        BY <2>3, <3>1 DEF Within
      <3> QED
        BY <3>2
    <2>5. LenAt(Wire(r), 1) = Len(r)
      BY <2>2, <2>4 DEF LenAt
    <2> QED
      BY <1>2, <2>3, <2>5 DEF Within
  <1> DEFINE w == Wire(r)
  <1> HIDE DEF w
  <1>7. n = Len(r) /\ Len(in) = n
    <2>1. s[2] = w[2] /\ s[3] = w[3]
      <3> HIDE DEF in, r
      <3>1. 2 \in 1 .. Len(s) /\ 3 \in 1 .. Len(s)
        BY <1>2, <1>3
      <3> QED
        BY <1>5, <3>1 DEF StartOf, w
    <2>2. LenAt(s, 1) = LenAt(w, 1)
      BY <2>1 DEF LenAt
    <2>3. LenAt(w, 1) = Len(r) /\ Len(w) = Len(r) + 3 /\ Len(s) <= Len(w)
      BY <1>5, <1>6 DEF StartOf, w
    <2> HIDE DEF n, in, r
    <2> QED
      BY <1>2, <1>3, <2>2, <2>3
  <1>8. a = r
    <2>1. a \in Seq(Byte) /\ Len(a) = n /\ \A i \in 1 .. n : a[i] = in[i]
      BY <1>2, FirstBytes
    <2> HIDE DEF a
    <2>2. ASSUME NEW i \in 1 .. Len(a) PROVE a[i] = r[i]
      <3> HIDE DEF n, in, r
      <3>1. i \in 1 .. Len(in) /\ i \in 1 .. Len(r) /\ i \in 1 .. n /\ 3 + i \in 1 .. Len(s)
        BY <1>2, <1>3, <1>7, <2>1
      <3>2. s[3 + i] = in[i] /\ w[3 + i] = r[i] /\ s[3 + i] = w[3 + i]
        BY <1>3, <1>5, <1>6, <3>1 DEF Within, StartOf, w
      <3> QED
        BY <2>1, <3>1, <3>2
    <2> HIDE DEF r
    <2> QED
      BY <1>2, <1>7, <2>1, <2>2, SameBytes
  <1>9. inbox'[h] = <<>>
    <2>1. inbox'[h] \in Seq(Byte) /\ Len(inbox'[h]) = Len(in) - n
      BY <1>1, Taken DEF TypeOK
    <2> HIDE DEF n, in
    <2>2. Len(inbox'[h]) = 0
      BY <1>2, <1>7, <2>1
    <2> QED
      BY <2>1, <2>2, EmptySeq
  <1>10. lpc'[h] = "idle"
    BY <1>1 DEF TypeOK, LinkTypeOK
  <1> QED
    BY <1>1, <1>4, <1>5, <1>8, <1>9, <1>10 DEF s

\* A session's own step.
LEMMA HostRpcOwn ==
  ASSUME LinkInv, LinkInv', RpcInv, ~MidFrameLoss, NEW h \in Sessions, Numbered(h)', HostStep(h)
  PROVE  RpcOf(h)'
  <1>0. /\ TypeOK /\ TypeOK' /\ Connected /\ Connected' /\ DecoderRests /\ RpcOf(h)
        /\ Numbered(h) /\ OnStream(h) /\ RunsLeft(h) /\ MayRun(h) /\ ReadsItsAnswer(h)
        /\ peer' = peer \/ peer' = h
        /\ asked'[h] = asked[h] /\ ran'[h] = ran[h] /\ RanLast(h)' = RanLast(h)
        /\ tpc' = tpc /\ resp' = resp
        /\ attempt[h] \in 1 .. 2
    BY HostPending DEF LinkInv, RpcInv, RpcOf, RanLast, channelVars, TypeOK, LinkTypeOK
  <1>1. ~Write(h) => (PendingOf(h)' => (PendingOf(h) /\ owed' = owed))
    BY HostPending DEF PendingOf
  <1>2. CASE Retries(h)
    <2>1. ~Write(h)
      BY <1>2 DEF Write, Retries, Goto, TypeOK, LinkTypeOK, LinkInv
    <2>2. ~Live(h)' /\ ~Reading(h)' /\ Busy(h)' /\ ~Unwritten(h)'
      BY <1>2 DEF Retries, Live, Reading, Busy, Unwritten
    <2>3. OnStream(h)'
      BY <1>2, <2>2 DEF Retries, OnStream
    <2>4. Unwritten(h) \/ WrittenOnce(h)
      BY <1>2 DEF Retries, Unwritten, WrittenOnce
    <2>5. RunsLeft(h)'
      BY <1>0, <1>1, <2>1, <2>2, <2>4 DEF RunsLeft, PendingLast
    <2>6. MayRun(h)'
      BY <1>0, <1>1, <2>1, <2>2 DEF MayRun
    <2>7. ReadsItsAnswer(h)'
      BY <1>0, <2>2 DEF ReadsItsAnswer
    <2> QED
      BY <2>3, <2>5, <2>6, <2>7 DEF RpcOf
  <1>3. CASE Quits(h)
    <2>1. ~Write(h)
      BY <1>3 DEF Write, Quits, Goto, TypeOK, LinkTypeOK, LinkInv
    <2>2. ~Live(h)' /\ ~Reading(h)' /\ ~Busy(h)' /\ ~Unwritten(h)' /\ ~WrittenOnce(h)' /\ ~answer'[h].ok
      BY <1>3 DEF Quits, Live, Reading, Busy, Unwritten, WrittenOnce, Err
    <2>3. OnStream(h)'
      BY <1>3, <2>2 DEF Quits, OnStream
    <2>5. RunsLeft(h)'
      BY <2>2 DEF RunsLeft
    <2>6. MayRun(h)'
      BY <1>0, <1>1, <2>1, <2>2 DEF MayRun
    <2>7. ReadsItsAnswer(h)'
      BY <1>0, <2>2 DEF ReadsItsAnswer
    <2> QED
      BY <2>3, <2>5, <2>6, <2>7 DEF RpcOf
  <1>4. CASE ReadsOn(h)
    <2>1. ~Write(h)
      BY <1>4 DEF Write, ReadsOn, Reading
    <2>2. Live(h)' = Live(h)
      BY <1>4 DEF ReadsOn, Live
    <2>3. OnStream(h)'
      <3>1. stream[h] = "dead" => peer' # h
        <4>1. ~Connect(h) /\ ~ConnectFails(h, TRUE) /\ ~ReconnectFails(h, TRUE)
          BY <1>4 DEF Connect, ConnectFails, ReconnectFails, ReadsOn, Reading
        <4>2. peer' = peer
          BY <4>1 DEF HostStep, Send, Receive, Write, WriteFails, ConnectFails, ReconnectFails, ReadFails,
             ReadMagic, SkipByte, ReadLen, ReadPayload, tcpVars
        <4> QED
          BY <1>0, <4>2 DEF OnStream
      <3> QED
        BY <1>0, <1>4, <3>1 DEF OnStream, ReadsOn, Reading
    <2> QED
      BY <1>0, <1>1, <1>4, <2>1, <2>2, <2>3, RpcKept DEF ReadsOn
  <1>5. CASE Connect(h)
    <2>1. /\ lpc[h] \in {"connect", "reconnect"} /\ lpc'[h] = "write" /\ attempt' = attempt /\ listening
          /\ stream'[h] = "live" /\ inbox'[h] = <<>> /\ ~Pending'
      BY <1>0, <1>5, Established, HostPending DEF Connect, Goto, TypeOK, LinkTypeOK, Establish
    <2>2. OnStream(h)'
      BY <2>1 DEF OnStream, Reading
    <2>3. tpc' = "accept"
      BY <1>0, <2>1 DEF Connected
    <2>4. ~PendingOf(h)' /\ ~PendingLast(h)' /\ ~Reading(h)'
      BY <2>1 DEF PendingOf, PendingLast, Reading
    <2>5. Unwritten(h)' => Unwritten(h)
      BY <1>0, <2>1 DEF Unwritten, OnStream
    <2>6. WrittenOnce(h)' => WrittenOnce(h)
      BY <1>0, <2>1 DEF WrittenOnce, OnStream, Reading
    <2>7. RunsLeft(h)'
      BY <1>0, <2>4, <2>5, <2>6 DEF RunsLeft
    <2>8. MayRun(h)'
      BY <2>4 DEF MayRun
    <2>9. ReadsItsAnswer(h)'
      BY <1>0, <2>3, <2>4 DEF ReadsItsAnswer
    <2> QED
      BY <2>2, <2>7, <2>8, <2>9 DEF RpcOf
  <1>6. CASE Write(h)
    <2>1. /\ lpc[h] = "write" /\ lpc'[h] = "magic" /\ attempt' = attempt /\ peer' = peer
          /\ UNCHANGED <<stream, inbox>>
      BY <1>0, <1>6 DEF Write, Goto, TypeOK, LinkTypeOK
    <2>2. Reading(h)' /\ ~Reading(h) /\ Busy(h)' /\ Live(h)' = Live(h) /\ ~Unwritten(h)'
      BY <2>1 DEF Reading, Busy, Live, Unwritten
    <2>3. OnStream(h)'
      BY <1>0, <2>1, <2>2 DEF OnStream
    <2>4. View(h)' = <<>>
      BY <1>0, <2>1, <2>2 DEF View, ViewOf, OnStream
    <2>5. WrittenOnce(h)' => Unwritten(h)
      BY <2>1, <2>2 DEF WrittenOnce, Unwritten
    <2>6. RunsLeft(h)'
      BY <1>0, <2>2, <2>5 DEF RunsLeft
    <2>7. PendingOf(h)' => Live(h)
      BY <1>0, <2>1 DEF PendingOf, OnStream, Live, TypeOK, TcpTypeOK
    <2>8. Live(h) => owed' = Len(asked[h])
      <3>1. ~Receive(h)
        BY <2>1 DEF Receive, Connect, ConnectFails, ReconnectFails, ReadFails, ReadMagic, SkipByte, ReadLen,
           ReadPayload, Reading
      <3> QED
        BY <3>1 DEF HostStep, Send
    <2>9. Len(asked[h]) > ran[h].no \/ (Len(asked[h]) = ran[h].no /\ ran[h].times = 1)
      <3>1. ran[h].no \in Nat /\ Len(asked[h]) \in Nat /\ ran[h].no <= Len(asked[h])
        BY <1>0, LenProperties DEF TypeOK, Numbered
      <3>2. Unwritten(h) \/ WrittenOnce(h)
        BY <1>0, <2>1 DEF Unwritten, WrittenOnce
      <3> QED
        BY <1>0, <3>1, <3>2 DEF RunsLeft, RanLast
    <2>10. MayRun(h)'
      BY <1>0, <2>2, <2>7, <2>8, <2>9 DEF MayRun
    <2>11. tpc \notin {"sendHead", "sendBody"} \/ ~Live(h)
      BY <1>0, <2>2, PendingTurns DEF Connected, Waiting
    <2>12. ReadsItsAnswer(h)'
      BY <1>0, <2>2, <2>4, <2>11 DEF ReadsItsAnswer
    <2> QED
      BY <2>3, <2>6, <2>10, <2>12 DEF RpcOf
  <1>7. CASE ReadPayload(h)
    <2>1. /\ RanLast(h) /\ View(h) # <<>> /\ Reading(h) /\ lpc'[h] = "idle" /\ inbox'[h] = <<>>
          /\ UNCHANGED <<attempt, peer, stream>> /\ ~Write(h)
      BY <1>7, ReplyIsTheAnswer DEF Write, Reading
    <2>2. ~Reading(h)' /\ ~Unwritten(h)' /\ ~WrittenOnce(h)' /\ Live(h)' = Live(h)
      BY <2>1 DEF Reading, Unwritten, WrittenOnce, Live
    <2>3. OnStream(h)'
      BY <1>0, <2>1, <2>2 DEF OnStream
    <2>4. ~PendingOf(h)
      <3> SUFFICES ASSUME PendingOf(h) PROVE FALSE
        OBVIOUS
      <3>1. Live(h)
        BY <1>0, <2>1 DEF PendingOf, OnStream, Live, TypeOK, TcpTypeOK
      <3> QED
        BY <1>0, <2>1, <3>1, PendingTurns DEF PendingOf
    <2>5. RunsLeft(h)'
      BY <2>2 DEF RunsLeft
    <2>6. MayRun(h)'
      BY <1>1, <2>1, <2>4 DEF MayRun
    <2>7. ReadsItsAnswer(h)'
      BY <1>0, <2>2 DEF ReadsItsAnswer
    <2> QED
      BY <2>3, <2>5, <2>6, <2>7 DEF RpcOf
  <1> QED
    BY <1>0, <1>2, <1>3, <1>4, <1>5, <1>6, <1>7, HostKinds

\* Another session's step.
LEMMA HostRpcOther ==
  ASSUME LinkInv, LinkInv', RpcInv, ~MidFrameLoss, NEW h \in Sessions, HostStep(h),
         NEW g \in Sessions, g # h, Numbered(g)'
  PROVE  RpcOf(g)'
  <1>0. /\ Connected /\ RpcOf(g) /\ OnStream(g)
        /\ peer' = peer \/ peer' = h
        /\ UNCHANGED <<channelVars, asked, ran>> /\ tpc' = tpc /\ resp' = resp
        /\ lpc'[g] = lpc[g] /\ attempt'[g] = attempt[g] /\ answer'[g] = answer[g]
        /\ stream'[g] = stream[g] /\ inbox'[g] = inbox[g] /\ View(g)' = View(g)
    BY HostPending, HostOthers DEF LinkInv, RpcInv, RpcOf, channelVars
  <1>1. OnStream(g)' /\ Live(g)' = Live(g)
    BY <1>0 DEF OnStream, Reading, Live
  <1>2. PendingOf(g)' => PendingOf(g) /\ owed' = owed
    <2>1. CASE ~Write(h)
      BY <2>1, HostPending DEF PendingOf
    <2>2. CASE Write(h)
      <3> SUFFICES ASSUME PendingOf(g)' PROVE PendingOf(g) /\ owed' = owed
        OBVIOUS
      <3>1. peer' = peer /\ peer' = g /\ ~Live(h)
        BY <1>0, <2>2, HostPending DEF PendingOf, Connected
      <3>2. up' = up /\ owed' = owed
        BY <2>2, <3>1, HostPending
      <3> QED
        BY <1>0, <3>1, <3>2 DEF PendingOf, Pending, Coming, channelVars
    <2> QED
      BY <2>1, <2>2
  <1> QED
    BY <1>0, <1>1, <1>2, RpcKept
-----------------------------------------------------------------------------
\* The firmware runs the request: the counts of runs and the response follow.
LEMMA RunRpc ==
  ASSUME AnswersFit, LinkInv, LinkInv', RpcInv, RunCommand, UNCHANGED <<linkVars, asked, owed>>,
         NEW g \in Sessions, Numbered(g)'
  PROVE  RpcOf(g)'
  <1>0. /\ TypeOK /\ Connected /\ DecoderRests /\ RpcOf(g) /\ OnStream(g) /\ RunsLeft(g) /\ MayRun(g) /\ ReadsItsAnswer(g)
        /\ UNCHANGED <<linkVars, tcpVars, asked, owed, deframer, chunk>>
        /\ UNCHANGED <<lpc, need, attempt, answer, peer, up, stream, inbox>>
        /\ tpc = "exec" /\ tpc' = "sendHead" /\ resp' \in Responses(frame)
    BY DEF LinkInv, RpcInv, RpcOf, RunCommand, Exec, linkVars, tcpVars
  <1>1. peer \in Sessions /\ Pending
    BY <1>0, TcpAssumption DEF Connected, Pending, TypeOK, TcpTypeOK
  <1>2. /\ owed \in 1 .. Len(asked[peer])
        /\ Live(peer) => Reading(peer) /\ View(peer) = <<>>
        /\ Coming = <<>>
    BY <1>0, <1>1, PendingTurns DEF TurnsOf, Arriving, Waiting, Answering, Quiet
  <1>3. ~Pending'
    BY <1>0, <1>2 DEF Pending, Coming
  <1>4. /\ View(g)' = View(g) /\ Live(g)' = Live(g) /\ Reading(g)' = Reading(g) /\ Busy(g)' = Busy(g)
        /\ Unwritten(g)' = Unwritten(g) /\ WrittenOnce(g)' = WrittenOnce(g)
        /\ ~PendingOf(g)' /\ ~PendingLast(g)'
    BY <1>0, <1>3 DEF View, Live, Reading, Busy, Unwritten, WrittenOnce, PendingOf, PendingLast
  <1>5. OnStream(g)'
    BY <1>0, <1>4 DEF OnStream
  <1>6. CASE g # peer
    <2>1. ran'[g] = ran[g] /\ ~Live(g)
      BY <1>0, <1>1, <1>6 DEF RunCommand, TypeOK, Connected
    <2> QED
      BY <1>0, <1>4, <1>5, <2>1, RpcKept
  <1>7. CASE g = peer
    <2> DEFINE times == IF ran[g].no = owed THEN ran[g].times + 1 ELSE 1
               run == [no |-> owed, cmd |-> frame, resp |-> resp', times |-> times]
    <2>1. ran'[g] = run
      <3>1. ran' = [ran EXCEPT ![g] = run]
        BY <1>7 DEF RunCommand
      <3> HIDE DEF run
      <3> QED
        BY <1>0, <3>1 DEF TypeOK
    <2>2. ran'[g].no = owed /\ ran'[g].resp = resp' /\ ran'[g].times = times
      <3> HIDE DEF times
      <3> QED
        BY <2>1
    <2> HIDE DEF run
    <2>3. PendingLast(g) <=> owed = Len(asked[g])
      BY <1>1, <1>7 DEF PendingLast, PendingOf
    <2>4. RanLast(g)' <=> owed = Len(asked[g])
      BY <1>0, <2>2 DEF RanLast
    <2>5. RunsLeft(g)'
      <3>1. Unwritten(g)' => ~RanLast(g)'
        BY <1>0, <1>4, <2>3, <2>4 DEF RunsLeft
      <3>2. ASSUME WrittenOnce(g)', RanLast(g)' PROVE ran'[g].times = 1
        <4>1. ~RanLast(g)
          BY <1>0, <1>4, <2>3, <2>4, <3>2 DEF RunsLeft
        <4>2. ran[g].no # owed
          BY <2>4, <3>2, <4>1 DEF RanLast
        <4> QED
          BY <2>2, <4>2
      <3> QED
        BY <1>4, <3>1, <3>2 DEF RunsLeft
    <2>6. MayRun(g)'
      BY <1>4 DEF MayRun
    <2>7. ReadsItsAnswer(g)'
      <3>1. Len(ran'[g].resp) <= MAX_FRAME
        <4>1. frame \in Seq(Byte)
          BY <1>0 DEF TypeOK, ChannelTypeOK
        <4>2. resp' \in Answers
          BY <1>0, <4>1 DEF AnswersFit
        <4> QED
          BY <2>2, <4>2 DEF Answers
      <3>2. Reading(g) => View(g) = <<>>
        BY <1>0, <1>2, <1>7 DEF OnStream, Live, TypeOK, TcpTypeOK
      <3>3. Live(g) => RanLast(g)' /\ ran'[g].resp = resp'
        BY <1>0, <1>1, <1>7, <2>2, <2>4 DEF MayRun, PendingOf
      <3> QED
        BY <1>4, <3>1, <3>2, <3>3 DEF ReadsItsAnswer
    <2> QED
      BY <1>5, <2>5, <2>6, <2>7 DEF RpcOf
  <1> QED
    BY <1>6, <1>7

\* Two pieces that start a frame start it together.
LEMMA StartGrows ==
  ASSUME NEW s \in Seq(Byte), NEW b \in Seq(Byte), NEW t \in Seq(Byte), NEW w \in Seq(Byte),
         Len(t) = Len(s) + Len(b), Within(s, t, 0), Within(b, t, Len(s)),
         Len(s) + Len(b) <= Len(w),
         \A i \in 1 .. Len(s) : s[i] = w[i],
         \A i \in 1 .. Len(b) : b[i] = w[Len(s) + i]
  PROVE  StartOf(t, w)
  <1>1. Len(s) \in Nat /\ Len(b) \in Nat
    BY LenProperties
  <1>2. ASSUME NEW i \in 1 .. Len(t) PROVE t[i] = w[i]
    <2>1. CASE i <= Len(s)
      <3>1. i \in 1 .. Len(s) /\ 0 + i = i
        BY <1>1, <2>1
      <3>2. t[0 + i] = s[i] /\ s[i] = w[i]
        BY <3>1 DEF Within
      <3> QED
        BY <3>1, <3>2
    <2>2. CASE i > Len(s)
      <3>1. i - Len(s) \in 1 .. Len(b) /\ Len(s) + (i - Len(s)) = i
        BY <1>1, <2>2
      <3>2. t[Len(s) + (i - Len(s))] = b[i - Len(s)] /\ b[i - Len(s)] = w[Len(s) + (i - Len(s))]
        BY <3>1 DEF Within
      <3> QED
        BY <3>1, <3>2
    <2> QED
      BY <1>1, <2>1, <2>2
  <1> QED
    BY <1>2 DEF StartOf

\* What a live peer has to read grows towards the frame of the response.
LEMMA SendRpc ==
  ASSUME LinkInv, LinkInv', RpcInv, UNCHANGED <<linkVars, asked, owed, ran>>,
         SendHead \/ SendBody \/ \E n \in 0 .. N + 3 : SendFails(n),
         NEW g \in Sessions, Numbered(g)'
  PROVE  RpcOf(g)'
  <1> DEFINE r == resp
             hd == FrameHead(Len(r))
             s == View(g)
             t == View(g)'
             w == Wire(r)
  <1>0. /\ TypeOK /\ Connected /\ DecoderRests /\ RpcOf(g) /\ OnStream(g) /\ RunsLeft(g) /\ MayRun(g) /\ ReadsItsAnswer(g)
        /\ tpc \in {"sendHead", "sendBody"} /\ tpc' \notin {"exec", "sendHead"}
        /\ tpc' = "sendBody" => tpc = "sendHead" /\ resp' = resp
        /\ UNCHANGED <<lpc, need, attempt, answer, peer, up, chunk, stream>>
    BY DEF LinkInv, RpcInv, RpcOf, linkVars, SendHead, SendBody, SendFails
  <1>1. peer \in Sessions
    BY <1>0 DEF Connected, TypeOK, TcpTypeOK
  <1>2. Answering(peer)
    BY <1>0, <1>1, PendingTurns DEF TurnsOf, Arriving, Waiting
  <1>3. ~Pending' /\ ~PendingOf(g)'
    BY <1>0, <1>2 DEF Answering, Quiet, Pending, PendingOf, Coming
  <1>4. /\ Live(g)' = Live(g) /\ Reading(g)' = Reading(g)
        /\ Live(g) => g = peer /\ Reading(g)
        /\ RanLast(g)' = RanLast(g) /\ ran'[g] = ran[g]
    BY <1>0, <1>2 DEF Live, Reading, Connected, Answering, RanLast
  <1>5. /\ r \in Seq(Byte) /\ Len(r) \in Nat /\ hd \in Seq(Byte) /\ Len(hd) = 3
        /\ w \in Seq(Byte) /\ Len(w) = 3 + Len(r)
        /\ \A i \in 1 .. 3 : hd[i] = w[i]
        /\ \A i \in 1 .. Len(r) : r[i] = w[3 + i]
    <2>1. r \in Seq(Byte) /\ Len(r) \in Nat
      BY <1>0, LenProperties DEF TypeOK, ChannelTypeOK
    <2> HIDE DEF r
    <2>2. hd \in Seq(Byte) /\ Len(hd) = 3
      BY <2>1, HeadBytes
    <2> HIDE DEF hd
    <2>3. w = hd \o r
      BY DEF hd, Wire
    <2> HIDE DEF w
    <2>4. /\ w \in Seq(Byte) /\ Len(w) = Len(hd) + Len(r)
          /\ \A i \in 1 .. Len(hd) : w[i] = hd[i]
          /\ \A i \in 1 .. Len(r) : w[Len(hd) + i] = r[i]
      BY <2>1, <2>2, <2>3, Joined
    <2> QED
      BY <2>1, <2>2, <2>4
  <1> HIDE DEF hd, w
  <1>6. ASSUME NEW b \in Seq(Byte), PutDown(b), Live(g)
        PROVE  /\ s \in Seq(Byte) /\ t \in Seq(Byte) /\ Len(t) = Len(s) + Len(b)
               /\ Within(s, t, 0) /\ Within(b, t, Len(s))
               /\ s = IF tpc = "sendBody" THEN hd ELSE <<>>
    <2>1. /\ t \in Seq(Byte) /\ Len(t) = Len(s) + Len(b)
          /\ Within(s, t, 0) /\ Within(b, t, Len(s))
      BY <1>0, <1>4, <1>6, ViewPutDown
    <2>2. s = IF tpc = "sendBody" THEN hd ELSE <<>>
      BY <1>2, <1>4, <1>6 DEF Answering, hd
    <2>3. <<>> \in Seq(Byte)
      OBVIOUS
    <2> QED
      BY <1>5, <2>1, <2>2, <2>3
  <1> HIDE DEF s, t, r
  <1>7. ASSUME NEW n \in 0 .. 3, tpc = "sendHead", PutDown(SubSeq(hd, 1, n)), Live(g)
        PROVE  StartOf(t, w)
    <2> DEFINE b == SubSeq(hd, 1, n)
    <2>0. n \in Nat /\ n <= Len(hd)
      BY <1>5
    <2>1. b \in Seq(Byte) /\ Len(b) = n /\ \A i \in 1 .. n : b[i] = hd[i]
      BY <1>5, <2>0, FirstBytes
    <2>2. /\ s \in Seq(Byte) /\ t \in Seq(Byte) /\ Len(t) = Len(s) + Len(b)
          /\ Within(s, t, 0) /\ Within(b, t, Len(s)) /\ s = <<>>
      BY <1>6, <1>7, <2>1
    <2> HIDE DEF b
    <2>3. Len(s) = 0
      BY <2>2
    <2>4. /\ \A i \in 1 .. Len(s) : s[i] = w[i]
          /\ \A i \in 1 .. Len(b) : b[i] = w[Len(s) + i]
          /\ Len(s) + Len(b) <= Len(w)
      BY <1>5, <2>1, <2>3
    <2> QED
      BY <1>5, <2>1, <2>2, <2>4, StartGrows
  <1>8. ASSUME NEW n \in 0 .. Len(r), tpc = "sendBody", PutDown(SubSeq(r, 1, n)), Live(g)
        PROVE  StartOf(t, w)
    <2> DEFINE b == SubSeq(r, 1, n)
    <2>0. n \in Nat /\ n <= Len(r)
      BY <1>5
    <2>1. b \in Seq(Byte) /\ Len(b) = n /\ \A i \in 1 .. n : b[i] = r[i]
      BY <1>5, <2>0, FirstBytes
    <2>2. /\ s \in Seq(Byte) /\ t \in Seq(Byte) /\ Len(t) = Len(s) + Len(b)
          /\ Within(s, t, 0) /\ Within(b, t, Len(s)) /\ s = hd
      BY <1>6, <1>8, <2>1
    <2> HIDE DEF b
    <2>3. Len(s) = 3
      BY <1>5, <2>2
    <2>4. /\ \A i \in 1 .. Len(s) : s[i] = w[i]
          /\ Len(s) + Len(b) <= Len(w)
      <3>1. \A i \in 1 .. 3 : s[i] = w[i]
        BY <1>5, <2>2
      <3>2. 3 + n <= Len(w)
        BY <1>5, <2>0
      <3> QED
        BY <2>1, <2>3, <3>1, <3>2
    <2>5. ASSUME NEW i \in 1 .. Len(b) PROVE b[i] = w[Len(s) + i]
      <3>1. i \in 1 .. Len(r) /\ i \in 1 .. n
        BY <1>5, <2>0, <2>1
      <3> QED
        BY <1>5, <2>1, <2>3, <3>1
    <2> QED
      BY <1>5, <2>1, <2>2, <2>4, <2>5, StartGrows
  <1>9. Live(g) => StartOf(t, w)
    <2>1. CASE SendHead
      <3>1. SubSeq(hd, 1, 3) = hd /\ 3 \in 0 .. 3
        BY <1>5, SubSeqFull
      <3>2. PutDown(hd) /\ tpc = "sendHead"
        BY <2>1 DEF SendHead, hd, r
      <3>3. PutDown(SubSeq(hd, 1, 3))
        BY <3>1, <3>2
      <3> QED
        BY <1>7, <3>1, <3>2, <3>3
    <2>2. CASE SendBody
      <3>1. SubSeq(r, 1, Len(r)) = r /\ Len(r) \in 0 .. Len(r)
        BY <1>5, SubSeqFull
      <3>2. PutDown(r) /\ tpc = "sendBody"
        BY <2>2 DEF SendBody, r
      <3>3. PutDown(SubSeq(r, 1, Len(r)))
        BY <3>1, <3>2
      <3> QED
        BY <1>8, <3>1, <3>2, <3>3
    <2>3. ASSUME NEW n \in 0 .. N + 3, SendFails(n) PROVE Live(g) => StartOf(t, w)
      <3>1. n \in Nat
        BY FrameAssumption
      <3>2. CASE tpc = "sendHead"
        <4>1. n \in 0 .. 3 /\ PutDown(SubSeq(hd, 1, n))
          BY <2>3, <3>1, <3>2 DEF SendFails, hd, r
        <4> QED
          BY <1>7, <3>2, <4>1
      <3>3. CASE tpc = "sendBody"
        <4>1. n \in 0 .. Len(r) /\ PutDown(SubSeq(r, 1, n))
          BY <1>5, <2>3, <3>1, <3>3 DEF SendFails, r
        <4> QED
          BY <1>8, <3>3, <4>1
      <3> QED
        BY <1>0, <3>2, <3>3
    <2> QED
      BY <2>1, <2>2, <2>3
  <1>10. Live(g) => RanLast(g) /\ ran[g].resp = r
    BY <1>0 DEF ReadsItsAnswer, r
  <1>11. ~Live(g) => inbox'[g] = inbox[g] /\ t = s
    <2>1. ASSUME ~Live(g), NEW b \in Seq(Byte), PutDown(b) PROVE inbox'[g] = inbox[g]
      BY <1>0, <1>1, <2>1, PutDownBytes
    <2>2. ASSUME NEW n \in 0 .. N + 3, SendFails(n)
          PROVE  \E b \in Seq(Byte) : PutDown(b)
      <3>1. n \in Nat
        BY FrameAssumption
      <3>2. n <= 3 => SubSeq(hd, 1, n) \in Seq(Byte)
        BY <1>5, <3>1, FirstBytes
      <3>3. n <= Len(r) => SubSeq(r, 1, n) \in Seq(Byte)
        BY <1>5, <3>1, FirstBytes
      <3> QED
        BY <2>2, <3>2, <3>3 DEF SendFails, hd, r
    <2>3. \E b \in Seq(Byte) : PutDown(b)
      BY <1>5, <2>2 DEF SendHead, SendBody, hd, r
    <2>4. ~Live(g) => inbox'[g] = inbox[g]
      BY <2>1, <2>3
    <2> QED
      BY <1>0, <2>4 DEF s, t, View
  <1>12. ReadsItsAnswer(g)'
    <2>1. Reading(g)' /\ t # <<>> => RanLast(g)' /\ StartOf(t, Wire(ran'[g].resp))
      <3>1. CASE Live(g)
        BY <1>4, <1>9, <1>10, <3>1 DEF w
      <3>2. CASE ~Live(g)
        BY <1>0, <1>4, <1>11, <3>2 DEF ReadsItsAnswer, s
      <3> QED
        BY <3>1, <3>2
    <2>2. tpc' \in {"sendHead", "sendBody"} /\ Live(g)' => RanLast(g)' /\ ran'[g].resp = resp'
      BY <1>0, <1>4, <1>10 DEF r
    <2> QED
      BY <1>0, <1>4, <2>1, <2>2 DEF ReadsItsAnswer, t
  <1>13. OnStream(g)'
    BY <1>0, <1>4, <1>11 DEF OnStream
  <1>14. RunsLeft(g)'
    <2>1. Unwritten(g)' = Unwritten(g) /\ WrittenOnce(g)' = WrittenOnce(g) /\ ~PendingLast(g)'
      BY <1>0, <1>3, <1>4 DEF Unwritten, WrittenOnce, PendingLast
    <2> QED
      BY <1>0, <1>4, <2>1 DEF RunsLeft
  <1>15. MayRun(g)'
    BY <1>3 DEF MayRun
  <1> QED
    BY <1>12, <1>13, <1>14, <1>15 DEF RpcOf
\* All other steps of the firmware leave the sessions alone.
LEMMA ServeRpc ==
  ASSUME AnswersFit, LinkInv, LinkInv', RpcInv, Serve \/ ServeFails,
         NEW g \in Sessions, Numbered(g)'
  PROVE  RpcOf(g)'
  <1>0. /\ TypeOK /\ Connected /\ DecoderRests /\ RpcOf(g) /\ OnStream(g)
        /\ UNCHANGED <<linkVars, asked, owed>>
        /\ UNCHANGED <<lpc, need, attempt, answer>>
    BY DEF LinkInv, RpcInv, RpcOf, Serve, ServeFails, history, linkVars
  <1>1. CASE RunCommand
    BY <1>0, <1>1, RunRpc
  <1>2. CASE (SendHead \/ SendBody \/ \E n \in 0 .. N + 3 : SendFails(n)) /\ UNCHANGED ran
    BY <1>0, <1>2, SendRpc
  <1>3. ASSUME ran' = ran, inbox' = inbox, tpc' \notin {"sendHead", "sendBody"},
               PendingOf(g)' => PendingOf(g), Live(g)' => Live(g), OnStream(g)'
        PROVE  RpcOf(g)'
    <2>1. View(g)' = View(g)
      BY <1>0, <1>3 DEF View
    <2> QED
      BY <1>0, <1>3, <2>1, RpcKept
  <1>4. ASSUME stream' = stream, peer' = peer, inbox' = inbox
        PROVE  OnStream(g)' /\ Live(g)' = Live(g)
    BY <1>0, <1>4 DEF OnStream, Live, Reading
  <1>5. CASE Accepted /\ UNCHANGED ran
    <2>1. /\ UNCHANGED <<stream, peer, inbox, up, chunk>> /\ tpc = "accept" /\ tpc' = "recv"
      BY <1>5 DEF Accepted, tcpVars
    <2>2. PendingOf(g)' => PendingOf(g)
      BY <2>1 DEF PendingOf, Pending, Coming
    <2> QED
      BY <1>3, <1>4, <1>5, <2>1, <2>2
  <1>6. ASSUME NEW n \in 1 .. CHUNK, Read(n), ran' = ran PROVE RpcOf(g)'
    <2>1. /\ UNCHANGED <<stream, peer, inbox>> /\ tpc = "recv" /\ tpc' = "feed" /\ n <= Len(up) /\ n \in Nat /\ n > 0
      BY <1>6, ChannelAssumption DEF Read
    <2>2. up # <<>>
      BY <2>1
    <2>3. Coming # <<>>
      BY <1>0, <2>2, NothingComing
    <2>4. PendingOf(g)' => PendingOf(g)
      BY <2>1, <2>3 DEF PendingOf, Pending
    <2> QED
      BY <1>3, <1>4, <1>6, <2>1, <2>4
  <1>7. CASE FeedByte /\ UNCHANGED ran
    <2>1. /\ UNCHANGED <<stream, peer, inbox>> /\ tpc = "feed" /\ tpc' \in {"feed", "recv", "exec", "finish"}
          /\ chunk # <<>>
      BY <1>0, <1>7 DEF FeedByte, tcpVars, Connected
    <2>2. Coming # <<>>
      BY <1>0, <2>1, NothingComing
    <2>3. PendingOf(g)' => PendingOf(g)
      BY <2>1, <2>2 DEF PendingOf, Pending
    <2> QED
      BY <1>3, <1>4, <1>7, <2>1, <2>3
  <1>8. CASE (RecvEof \/ RecvFails \/ AcceptFails) /\ UNCHANGED ran
    <2>1. /\ UNCHANGED <<stream, peer, inbox>> /\ tpc' = "finish"
      BY <1>8 DEF RecvEof, RecvFails, AcceptFails, tcpVars
    <2>2. ~PendingOf(g)'
      BY <2>1 DEF PendingOf, Pending
    <2> QED
      BY <1>3, <1>4, <1>8, <2>1, <2>2
  <1>9. CASE Finish /\ UNCHANGED ran
    <2>1. /\ inbox' = inbox /\ peer' = Nobody /\ tpc' = "accept"
          /\ stream' = [h \in Sessions |-> IF h = peer /\ Live(h) THEN "dead" ELSE stream[h]]
      BY <1>9 DEF Finish, Abort
    <2>2. ~PendingOf(g)' /\ (Live(g)' => Live(g)) /\ (stream'[g] = stream[g] \/ (stream[g] = "live" /\ stream'[g] = "dead"))
      BY <2>1 DEF PendingOf, Pending, Live
    <2>3. OnStream(g)'
      BY <1>0, <2>1, <2>2, TcpAssumption DEF OnStream, Reading
    <2> QED
      BY <1>3, <1>9, <2>1, <2>2, <2>3
  <1> QED
    BY <1>1, <1>2, <1>5, <1>6, <1>7, <1>8, <1>9 DEF Serve, ServeFails, history

\* Every step keeps the accounts of requests, runs and responses.
LEMMA RpcStep ==
  ASSUME AnswersFit, LinkInv, LinkInv', RpcInv, ~MidFrameLoss, [Next]_vars
  PROVE  RpcInv'
  <1>1. DecoderRests'
    BY DecoderStep DEF RpcInv
  <1>2. ASSUME NEW g \in Sessions PROVE RpcOf(g)'
    <2>0. Numbered(g)' /\ RpcOf(g) /\ OnStream(g)
      BY NumberedStep DEF RpcInv, RpcOf
    <2>1. ASSUME NEW h \in Sessions, HostStep(h) PROVE RpcOf(g)'
      <3>1. CASE g = h
        BY <2>0, <2>1, <3>1, HostRpcOwn
      <3>2. CASE g # h
        BY <2>0, <2>1, <3>2, HostRpcOther
      <3> QED
        BY <3>1, <3>2
    <2>2. ASSUME NEW h \in Sessions, Detach(h), UNCHANGED <<channelVars, history>> PROVE RpcOf(g)'
      <3>1. /\ UNCHANGED <<lpc, need, attempt, answer, peer, up, chunk, tpc, resp, asked, owed, ran>>
            /\ lpc[h] = "idle" /\ TypeOK
        BY <2>2 DEF Detach, channelVars, history, linkVars, LinkInv
      <3>2. /\ stream'[h] = "none" /\ inbox'[h] = <<>>
            /\ \A f \in Sessions \ {h} : stream'[f] = stream[f] /\ inbox'[f] = inbox[f]
        BY <2>2, <3>1, Dropped DEF Detach
      <3>3. Reading(g)' => View(g)' = View(g)
        BY <3>1, <3>2 DEF Reading, View
      <3>4. OnStream(g)' /\ (Live(g)' => Live(g)) /\ PendingOf(g)' = PendingOf(g)
        BY <2>0, <3>1, <3>2 DEF OnStream, Reading, Live, PendingOf, Pending, Coming
      <3> QED
        BY <2>0, <3>1, <3>3, <3>4, RpcKept
    <2>3. CASE Vanish \/ ListenStep \/ UNCHANGED vars
      <3>1. /\ UNCHANGED <<lpc, need, attempt, answer, peer, up, chunk, tpc, resp, asked, owed, ran, stream, inbox>>
        BY <2>3 DEF Vanish, HostVanishes, ListenStep, StartAccept, Listen, vars, tcpVars, channelVars, history, linkVars
      <3>2. View(g)' = View(g) /\ OnStream(g)' /\ Live(g)' = Live(g) /\ PendingOf(g)' = PendingOf(g)
        BY <2>0, <3>1 DEF View, OnStream, Reading, Live, PendingOf, Pending, Coming
      <3> QED
        BY <2>0, <3>1, <3>2, RpcKept
    <2>4. CASE Serve \/ ServeFails
      BY <2>0, <2>4, ServeRpc
    <2> QED
      BY <2>0, <2>1, <2>2, <2>3, <2>4, AskRpc DEF Next
  <1> QED
    BY <1>1, <1>2 DEF RpcInv
\* Nothing has been asked, sent or run at the start.
LEMMA RpcStart ==
  ASSUME Init
  PROVE  RpcInv
  <1> USE DEF Init, TcpInit, LinkInit, ChannelInit
  <1>1. DecoderRests
    BY DEF DecoderRests, NewDeframer
  <1>2. ASSUME NEW h \in Sessions PROVE RpcOf(h)
    <2>1. asked[h] = <<>> /\ ran[h] = NoRun /\ lpc[h] = "idle" /\ stream[h] = "none" /\ inbox[h] = <<>>
          /\ peer # h /\ tpc = "accept"
      BY TcpAssumption
    <2>2. Numbered(h)
      BY <2>1, SystemAssumption DEF Numbered, NoRun
    <2>3. OnStream(h) /\ ~Reading(h) /\ ~Unwritten(h) /\ ~WrittenOnce(h) /\ ~PendingOf(h)
      BY <2>1 DEF OnStream, Reading, Unwritten, WrittenOnce, PendingOf
    <2>4. RunsLeft(h) /\ MayRun(h)
      BY <2>3 DEF RunsLeft, MayRun
    <2>5. ReadsItsAnswer(h)
      <3>1. Len(ran[h].resp) <= MAX_FRAME
        BY <2>1, LinkAssumption DEF NoRun
      <3> QED
        BY <2>1, <2>3, <3>1 DEF ReadsItsAnswer
    <2> QED
      BY <2>2, <2>3, <2>4, <2>5 DEF RpcOf
  <1> QED
    BY <1>1, <1>2 DEF RpcInv

\* The inductive invariant of the refinement.
LEMMA RpcInvariant ==
  ASSUME AnswersFit, ~MidFrameLoss
  PROVE  Spec => [](LinkInv /\ RpcInv)
  <1>1. Init => RpcInv
    BY RpcStart
  <1>2. LinkInv /\ LinkInv' /\ RpcInv /\ [Next]_vars => RpcInv'
    BY RpcStep
  <1> QED
    BY <1>1, <1>2, LinkInvariant, PTL DEF Spec

-----------------------------------------------------------------------------
\* The abstract state that a step changes when it changes one session.
LEMMA AbstractBusy ==
  ASSUME LinkInv, LinkInv', NEW h \in Sessions, \A g \in Sessions \ {h} : lpc'[g] = lpc[g]
  PROVE  [g \in Sessions |-> Busy(g)]' = [[g \in Sessions |-> Busy(g)] EXCEPT ![h] = Busy(h)']
  BY DEF Busy

\* What the steps of a session do to the abstract state.
LEMMA HostMaps ==
  ASSUME LinkInv, LinkInv', RpcInv, ~MidFrameLoss, NEW h \in Sessions, HostStep(h)
  PROVE  [Rpc!Next]_(Rpc!vars)
  <1>0. /\ UNCHANGED <<asked, ran>> /\ OnStream(h)
        /\ answer \in [Sessions -> [ok : BOOLEAN, resp : Seq(Byte)]]
        /\ answer' \in [Sessions -> [ok : BOOLEAN, resp : Seq(Byte)]]
        /\ \A g \in Sessions \ {h} : lpc'[g] = lpc[g] /\ answer'[g] = answer[g]
    BY HostPending, HostOthers DEF RpcInv, RpcOf, LinkInv, TypeOK, LinkTypeOK
  <1> DEFINE busy == [g \in Sessions |-> Busy(g)]
  <1>1. busy' = [busy EXCEPT ![h] = Busy(h)'] /\ busy[h] = Busy(h)
    BY <1>0, AbstractBusy
  <1>2. ASSUME Busy(h)' = Busy(h), answer'[h] = answer[h] PROVE UNCHANGED Rpc!vars
    <2>1. busy' = busy
      BY <1>0, <1>2 DEF Busy
    <2>2. answer' = answer
      BY <1>0, <1>2
    <2> QED
      BY <1>0, <2>1, <2>2 DEF Rpc!vars
  <1>3. CASE Retries(h) \/ ReadsOn(h)
    BY <1>2, <1>3 DEF Retries, ReadsOn, Busy, Reading
  <1>4. CASE Connect(h) \/ Write(h)
    <2>1. Busy(h) /\ Busy(h)' /\ answer' = answer
      BY <1>4 DEF Connect, Write, Goto, Busy, LinkInv, TypeOK, LinkTypeOK
    <2> QED
      BY <1>2, <2>1
  <1>5. CASE Quits(h)
    <2>1. Busy(h) /\ ~Busy(h)' /\ answer'[h] = Rpc!Err
      BY <1>5 DEF Quits, Busy, Err, Rpc!Err
    <2>2. answer' = [answer EXCEPT ![h] = Rpc!Err]
      BY <1>0, <2>1
    <2>3. busy' = [busy EXCEPT ![h] = FALSE] /\ busy[h]
      <3>1. Busy(h)' = FALSE
        BY <2>1 DEF Busy
      <3> QED
        BY <1>1, <2>1, <3>1
    <2>4. Rpc!Fail(h)
      BY <1>0, <2>2, <2>3 DEF Rpc!Fail
    <2> QED
      BY <2>4 DEF Rpc!Next
  <1>6. CASE ReadPayload(h)
    <2>1. /\ RanLast(h) /\ Reading(h) /\ lpc'[h] = "idle" /\ answer' = [answer EXCEPT ![h] = Ok(ran[h].resp)]
      BY <1>6, ReplyIsTheAnswer
    <2>2. Busy(h) /\ ~Busy(h)' /\ answer' = [answer EXCEPT ![h] = Rpc!Ok(ran[h].resp)]
      BY <2>1 DEF Busy, Reading, Ok, Rpc!Ok
    <2>3. busy' = [busy EXCEPT ![h] = FALSE] /\ busy[h]
      <3>1. Busy(h)' = FALSE
        BY <2>2 DEF Busy
      <3> QED
        BY <1>1, <2>2, <3>1
    <2>4. Rpc!Reply(h)
      BY <1>0, <2>1, <2>2, <2>3 DEF Rpc!Reply, RanLast
    <2> QED
      BY <2>4 DEF Rpc!Next
  <1> QED
    BY <1>0, <1>3, <1>4, <1>5, <1>6, HostKinds

\* The firmware's run of a command is a run of the call.
LEMMA RunMaps ==
  ASSUME AnswersFit, LinkInv, RpcInv, RunCommand, UNCHANGED <<linkVars, asked, owed>>
  PROVE  Rpc!Next
  <1>0. /\ TypeOK /\ Connected /\ DecoderRests /\ tpc = "exec" /\ resp' \in Responses(frame)
        /\ UNCHANGED <<lpc, answer>>
    BY DEF LinkInv, RpcInv, RunCommand, Exec, linkVars
  <1>1. peer \in Sessions
    BY <1>0 DEF Connected, TypeOK, TcpTypeOK
  <1>2. Pending /\ PendingOf(peer) /\ Numbered(peer) /\ MayRun(peer)
    BY <1>0, <1>1, TcpAssumption DEF Pending, PendingOf, RpcInv, RpcOf
  <1>3. owed \in 1 .. Len(asked[peer]) /\ frame = Kept(asked[peer][owed])
    BY <1>0, <1>1, <1>2, PendingTurns DEF TurnsOf, Arriving, Waiting, Answering
  <1>4. /\ owed > ran[peer].no \/ (owed = ran[peer].no /\ ran[peer].times = 1)
        /\ ~(owed = Len(asked[peer]) /\ ~Busy(peer) /\ answer[peer].ok)
    BY <1>2 DEF MayRun
  <1>5. owed \in 1 .. MaxReq
    <2>1. Len(asked[peer]) \in Nat /\ LINK_REQUESTS \in Nat
      BY <1>0, <1>1, LenProperties DEF TypeOK, LinkTypeOK
    <2> QED
      BY <1>2, <1>3, <2>1, SystemAssumption DEF Numbered
  <1>6. ~Rpc!Answered(peer, owed)
    BY <1>1, <1>4 DEF Rpc!Answered
  <1> DEFINE times == IF owed = ran[peer].no THEN 2 ELSE 1
             run == [no |-> owed, resp |-> resp', cmd |-> frame, times |-> times]
  <1>7. ran' = [ran EXCEPT ![peer] = run]
    <2>1. (IF ran[peer].no = owed THEN ran[peer].times + 1 ELSE 1) = times
      <3>1. ran[peer].no \in Nat /\ owed \in Nat
        BY <1>0, <1>1 DEF TypeOK
      <3> QED
        BY <1>4, <3>1
    <2> HIDE DEF times
    <2> QED
      BY <2>1 DEF RunCommand
  <1>8. UNCHANGED <<asked, [h \in Sessions |-> Busy(h)], answer>>
    BY <1>0 DEF Busy
  <1>9. Rpc!RunCall(peer, owed)
    BY <1>0, <1>3, <1>4, <1>6, <1>7, <1>8 DEF Rpc!RunCall
  <1> QED
    BY <1>1, <1>5, <1>9 DEF Rpc!Next

\* Every step of the link is a step of the abstract specification, or none.
LEMMA RpcMaps ==
  ASSUME AnswersFit, LinkInv, LinkInv', RpcInv, ~MidFrameLoss, [Next]_vars
  PROVE  [Rpc!Next]_(Rpc!vars)
  <1>1. CASE UNCHANGED <<asked, lpc, ran, answer>>
    BY <1>1 DEF Rpc!vars, Busy
  <1>2. ASSUME NEW h \in Sessions, NEW p \in Requests, Ask(h, p),
               UNCHANGED <<channelVars, owed, ran, clean, failed>>
        PROVE  [Rpc!Next]_(Rpc!vars)
    <2>1. CASE RequestTooLarge(h, p) /\ UNCHANGED asked
      BY <1>1, <1>2, <2>1 DEF RequestTooLarge, linkVars
    <2>2. CASE LINK_REQUESTS < MaxReq /\ Request(h, p) /\ asked' = [asked EXCEPT ![h] = Append(@, p)]
      <3>1. /\ lpc[h] = "idle" /\ Len(p) <= MAX_FRAME /\ answer' = answer
            /\ \A g \in Sessions \ {h} : lpc'[g] = lpc[g]
            /\ lpc'[h] # "idle"
        BY <2>2 DEF Request, Goto, LinkInv, TypeOK, LinkTypeOK
      <3> DEFINE busy == [g \in Sessions |-> Busy(g)]
      <3>2. busy' = [busy EXCEPT ![h] = TRUE] /\ ~busy[h]
        BY <3>1, AbstractBusy DEF Busy
      <3>3. Len(asked[h]) < MaxReq
        <4>1. Len(asked[h]) \in Nat /\ LINK_REQUESTS \in Nat /\ Len(asked[h]) <= LINK_REQUESTS
          BY LenProperties DEF LinkInv, TypeOK, LinkTypeOK, RpcInv, RpcOf, Numbered
        <4> QED
          BY <2>2, <4>1, SystemAssumption
      <3>4. Rpc!Call(h, p)
        BY <1>2, <2>2, <3>1, <3>2, <3>3 DEF Rpc!Call
      <3>5. p \in {q \in Requests : Len(q) <= MAX_FRAME}
        BY <3>1
      <3> QED
        BY <3>4, <3>5 DEF Rpc!Next
    <2> QED
      BY <1>2, <2>1, <2>2 DEF Ask
  <1>3. CASE Serve
    <2>1. CASE RunCommand
      BY <1>3, <2>1, RunMaps DEF Serve
    <2>2. CASE ~RunCommand
      BY <1>1, <1>3, <2>2 DEF Serve, linkVars
    <2> QED
      BY <2>1, <2>2
  <1>4. CASE ServeFails \/ Vanish \/ ListenStep \/ UNCHANGED vars
    BY <1>1, <1>4 DEF ServeFails, Vanish, ListenStep, vars, linkVars, history
  <1>5. ASSUME NEW h \in Sessions, Detach(h), UNCHANGED <<channelVars, history>>
        PROVE  [Rpc!Next]_(Rpc!vars)
    BY <1>1, <1>5 DEF Detach, linkVars, history
  <1> QED
    BY <1>2, <1>3, <1>4, <1>5, HostMaps DEF Next

\* Whatever happens to the connections between two frames, a command runs at
\* most twice, in request order and not after it was answered, and request()
\* returns the response of its last run (request, try_request, serve).
THEOREM LinkImplementsRpc == AnswersFit /\ ~MidFrameLoss => (Spec => ImplementsRpc)
  <1> SUFFICES ASSUME AnswersFit, ~MidFrameLoss PROVE Spec => ImplementsRpc
    OBVIOUS
  <1>1. Init => Rpc!Init
    <2> SUFFICES ASSUME Init PROVE Rpc!Init
      OBVIOUS
    <2>1. [h \in Sessions |-> Busy(h)] = [h \in Sessions |-> FALSE]
      BY DEF Init, LinkInit, Busy
    <2> QED
      BY <2>1 DEF Init, LinkInit, Rpc!Init, Err, Rpc!Err
  <1>2. LinkInv /\ LinkInv' /\ RpcInv /\ [Next]_vars => [Rpc!Next]_(Rpc!vars)
    BY RpcMaps
  <1> QED
    BY <1>1, <1>2, RpcInvariant, PTL DEF Spec, ImplementsRpc, Rpc!Spec
-----------------------------------------------------------------------------
\* The sessions whose last request is in its first or in its second attempt.
Trying(n) == {h \in Sessions : Busy(h) /\ attempt[h] = n}

\* A request in its first attempt has not been counted as retried, one in its
\* second attempt has not failed.
CountInv ==
  /\ IsFiniteSet(Trying(1)) /\ IsFiniteSet(Trying(2))
  /\ LINK_ERRORS <= failed
  /\ failed + Cardinality(Trying(2)) <= LINK_RETRIES
  /\ LINK_RETRIES + Cardinality(Trying(1)) <= LINK_REQUESTS
  /\ \A h \in Sessions : lpc[h] = "reconnect" => attempt[h] = 2

\* A step that neither starts nor ends an attempt.
LEMMA CountKept ==
  ASSUME CountInv, UNCHANGED <<attempt, failed, LINK_REQUESTS, LINK_RETRIES, LINK_ERRORS>>,
         \A g \in Sessions : Busy(g)' = Busy(g) /\ (lpc'[g] = "reconnect" => lpc[g] = "reconnect")
  PROVE  CountInv'
  <1>1. Trying(1)' = Trying(1) /\ Trying(2)' = Trying(2)
    BY DEF Trying
  <1> QED
    BY <1>1 DEF CountInv

\* A first attempt starts.
LEMMA CountAsk ==
  ASSUME TypeOK, CountInv, NEW h \in Sessions, NEW p \in Requests, Request(h, p), failed' = failed
  PROVE  CountInv'
  <1>1. /\ ~Busy(h) /\ Busy(h)' /\ attempt'[h] = 1
        /\ \A g \in Sessions \ {h} : lpc'[g] = lpc[g] /\ attempt'[g] = attempt[g]
        /\ LINK_REQUESTS' = LINK_REQUESTS + 1 /\ UNCHANGED <<LINK_RETRIES, LINK_ERRORS>>
        /\ lpc'[h] # "reconnect"
    BY DEF Request, Goto, Busy, TypeOK, LinkTypeOK
  <1>2. Trying(1)' = Trying(1) \cup {h} /\ Trying(2)' = Trying(2) /\ h \notin Trying(1)
    BY <1>1 DEF Trying, Busy
  <1>3. /\ IsFiniteSet(Trying(1)')
        /\ Cardinality(Trying(1)') = Cardinality(Trying(1)) + 1
        /\ Cardinality(Trying(1)) \in Nat
    BY <1>2, FS_AddElement, FS_CardinalityType DEF CountInv
  <1>4. \A g \in Sessions : lpc'[g] = "reconnect" => attempt'[g] = 2
    BY <1>1 DEF CountInv
  <1>5. Cardinality(Trying(2)') = Cardinality(Trying(2)) /\ IsFiniteSet(Trying(2)')
    BY <1>2 DEF CountInv
  <1>6. LINK_ERRORS' <= failed' /\ failed' + Cardinality(Trying(2)') <= LINK_RETRIES'
    BY <1>1, <1>5 DEF CountInv
  <1>7. LINK_RETRIES' + Cardinality(Trying(1)') <= LINK_REQUESTS'
    <2>1. LINK_RETRIES + Cardinality(Trying(1)) <= LINK_REQUESTS
      BY DEF CountInv
    <2>2. LINK_RETRIES \in Nat /\ LINK_REQUESTS \in Nat
      BY DEF TypeOK, LinkTypeOK
    <2>3. LINK_REQUESTS' = LINK_REQUESTS + 1 /\ LINK_RETRIES' = LINK_RETRIES
      BY <1>1
    <2> QED
      BY <1>3, <2>1, <2>2, <2>3
  <1> QED
    BY <1>3, <1>4, <1>5, <1>6, <1>7 DEF CountInv

\* The steps of a session.
LEMMA CountHost ==
  ASSUME TypeOK, CountInv, NEW h \in Sessions, HostStep(h)
  PROVE  CountInv'
  <1>0. /\ LINK_REQUESTS' = LINK_REQUESTS
        /\ lpc \in [Sessions -> PCs] /\ attempt \in [Sessions -> 1 .. 2]
        /\ answer \in [Sessions -> [ok : BOOLEAN, resp : Seq(Byte)]]
        /\ failed' = IF Busy(h) /\ lpc'[h] = "idle" /\ ~answer'[h].ok THEN failed + 1 ELSE failed
        /\ failed \in Nat /\ LINK_REQUESTS \in Nat /\ LINK_RETRIES \in Nat /\ LINK_ERRORS \in Nat
    BY DEF HostStep, Send, Receive, Write, WriteFails, Connect, ConnectFails, ReconnectFails, ReadFails,
         ReadMagic, SkipByte, ReadLen, ReadPayload, FailTry, TypeOK, LinkTypeOK
  <1>1. /\ Cardinality(Trying(1)) \in Nat /\ Cardinality(Trying(2)) \in Nat
        /\ IsFiniteSet(Trying(1)) /\ IsFiniteSet(Trying(2))
    BY FS_CardinalityType DEF CountInv
  <1>2. ASSUME NEW n \in 1 .. 2, attempt[h] = n, Busy(h), lpc'[h] = "idle", attempt' = attempt,
               \A g \in Sessions \ {h} : lpc'[g] = lpc[g],
               LINK_RETRIES' = LINK_RETRIES,
               \/ failed' = failed /\ LINK_ERRORS' = LINK_ERRORS
               \/ n = 2 /\ failed' = failed + 1 /\ LINK_ERRORS' \in {LINK_ERRORS, LINK_ERRORS + 1}
        PROVE  CountInv'
    <2>1. /\ Trying(n)' = Trying(n) \ {h} /\ h \in Trying(n)
          /\ \A m \in (1 .. 2) \ {n} : Trying(m)' = Trying(m)
      BY <1>2 DEF Trying, Busy
    <2>2. IsFiniteSet(Trying(n)') /\ Cardinality(Trying(n)') = Cardinality(Trying(n)) - 1
      BY <1>1, <1>2, <2>1, FS_RemoveElement
    <2>3. \A g \in Sessions : lpc'[g] = "reconnect" => attempt'[g] = 2
      BY <1>2 DEF CountInv
    <2>4. CASE n = 1
      <3>1. /\ IsFiniteSet(Trying(1)') /\ Cardinality(Trying(1)') = Cardinality(Trying(1)) - 1
            /\ Trying(2)' = Trying(2) /\ failed' = failed /\ LINK_ERRORS' = LINK_ERRORS
        BY <1>2, <2>1, <2>2, <2>4
      <3> QED
        BY <1>0, <1>1, <1>2, <2>3, <3>1 DEF CountInv
    <2>5. CASE n = 2
      <3>1. /\ IsFiniteSet(Trying(2)') /\ Cardinality(Trying(2)') = Cardinality(Trying(2)) - 1
            /\ Trying(1)' = Trying(1)
        BY <2>1, <2>2, <2>5
      <3>2. /\ failed' \in {failed, failed + 1}
            /\ LINK_ERRORS' <= failed'
        BY <1>0, <1>2 DEF CountInv
      <3> QED
        BY <1>0, <1>1, <1>2, <2>3, <3>1, <3>2 DEF CountInv
    <2> QED
      BY <2>4, <2>5
  <1>3. ASSUME FailTry(h), Busy(h) PROVE CountInv'
    <2>1. CASE attempt[h] = 1
      <3>1. /\ lpc' = [lpc EXCEPT ![h] = "reconnect"] /\ attempt' = [attempt EXCEPT ![h] = 2]
            /\ LINK_RETRIES' = LINK_RETRIES + 1 /\ LINK_ERRORS' = LINK_ERRORS
        BY <1>3, <2>1 DEF FailTry, Goto
      <3>2. /\ lpc'[h] = "reconnect" /\ attempt'[h] = 2
            /\ \A g \in Sessions \ {h} : lpc'[g] = lpc[g] /\ attempt'[g] = attempt[g]
        BY <1>0, <3>1
      <3>3. failed' = failed
        BY <1>0, <3>2
      <3>4. Trying(1)' = Trying(1) \ {h} /\ Trying(2)' = Trying(2) \cup {h} /\ h \in Trying(1) /\ h \notin Trying(2)
        BY <1>3, <2>1, <3>2 DEF Trying, Busy
      <3>5. /\ IsFiniteSet(Trying(1)') /\ Cardinality(Trying(1)') = Cardinality(Trying(1)) - 1
            /\ IsFiniteSet(Trying(2)') /\ Cardinality(Trying(2)') = Cardinality(Trying(2)) + 1
        BY <1>1, <3>4, FS_AddElement, FS_RemoveElement
      <3>6. \A g \in Sessions : lpc'[g] = "reconnect" => attempt'[g] = 2
        BY <3>2 DEF CountInv
      <3> QED
        BY <1>0, <1>1, <3>1, <3>3, <3>5, <3>6 DEF CountInv
    <2>2. CASE attempt[h] = 2
      <3>1. /\ lpc' = [lpc EXCEPT ![h] = "idle"] /\ attempt' = attempt /\ answer' = [answer EXCEPT ![h] = Err]
            /\ LINK_RETRIES' = LINK_RETRIES /\ LINK_ERRORS' = LINK_ERRORS + 1
        BY <1>3, <2>2 DEF FailTry, Goto, Return
      <3>2. /\ lpc'[h] = "idle" /\ ~answer'[h].ok /\ \A g \in Sessions \ {h} : lpc'[g] = lpc[g]
        BY <1>0, <3>1 DEF Err
      <3>3. failed' = failed + 1
        BY <1>0, <1>3, <3>2
      <3> QED
        BY <1>2, <1>3, <2>2, <3>1, <3>2, <3>3
    <2> QED
      BY <1>0, <2>1, <2>2
  <1>4. ASSUME NEW late \in BOOLEAN, ReconnectFails(h, late) PROVE CountInv'
    <2>1. /\ lpc[h] = "reconnect" /\ Busy(h) /\ attempt[h] = 2
          /\ lpc' = [lpc EXCEPT ![h] = "idle"] /\ attempt' = attempt /\ answer' = [answer EXCEPT ![h] = Err]
          /\ UNCHANGED <<LINK_RETRIES, LINK_ERRORS>>
      BY <1>4 DEF ReconnectFails, Goto, Return, CountInv, Busy
    <2>2. /\ lpc'[h] = "idle" /\ ~answer'[h].ok /\ \A g \in Sessions \ {h} : lpc'[g] = lpc[g]
      BY <1>0, <2>1 DEF Err
    <2>3. failed' = failed + 1
      BY <1>0, <2>1, <2>2
    <2> QED
      BY <1>2, <2>1, <2>2, <2>3
  <1>5. CASE ReadPayload(h)
    <2>1. /\ lpc[h] = "payload" /\ Busy(h) /\ attempt' = attempt
          /\ lpc' = [lpc EXCEPT ![h] = "idle"]
          /\ answer' = [answer EXCEPT ![h] = Ok(SubSeq(inbox[h], 1, need[h]))]
          /\ UNCHANGED <<LINK_RETRIES, LINK_ERRORS>>
      BY <1>5 DEF ReadPayload, Goto, Return, Busy
    <2>2. /\ lpc'[h] = "idle" /\ answer'[h].ok /\ \A g \in Sessions \ {h} : lpc'[g] = lpc[g]
      BY <1>0, <2>1 DEF Ok
    <2>3. failed' = failed
      BY <1>0, <2>2
    <2> QED
      BY <1>0, <1>2, <2>1, <2>2, <2>3
  <1>6. ASSUME NEW pc \in PCs \ {"idle", "reconnect"}, lpc' = [lpc EXCEPT ![h] = pc], Busy(h),
               UNCHANGED <<attempt, answer, LINK_RETRIES, LINK_ERRORS>>
        PROVE  CountInv'
    <2>1. /\ lpc'[h] = pc /\ \A g \in Sessions \ {h} : lpc'[g] = lpc[g]
      BY <1>0, <1>6
    <2>2. failed' = failed
      BY <1>0, <2>1
    <2>3. \A g \in Sessions : Busy(g)' = Busy(g) /\ (lpc'[g] = "reconnect" => lpc[g] = "reconnect")
      BY <1>6, <2>1 DEF Busy
    <2> QED
      BY <1>0, <1>6, <2>2, <2>3, CountKept
  <1>7. CASE Connect(h)
    BY <1>6, <1>7 DEF Connect, Goto, Busy, PCs
  <1>8. CASE Write(h)
    BY <1>6, <1>8 DEF Write, Goto, Busy, PCs
  <1>9. CASE ReadMagic(h)
    BY <1>6, <1>9 DEF ReadMagic, Goto, Busy, PCs
  <1>10. CASE SkipByte(h) /\ ~FailTry(h)
    <2>1. lpc[h] = "magic" /\ UNCHANGED <<lpc, attempt, answer, LINK_RETRIES, LINK_ERRORS>>
      BY <1>10 DEF SkipByte
    <2>2. lpc' = [lpc EXCEPT ![h] = "magic"]
      BY <1>0, <2>1
    <2> QED
      BY <1>6, <2>1, <2>2 DEF Busy, PCs
  <1>11. CASE ReadLen(h) /\ ~FailTry(h)
    BY <1>6, <1>11 DEF ReadLen, Goto, Busy, PCs
  <1>12. ASSUME FailTry(h), Send(h) \/ ReadFails(h) \/ SkipByte(h) \/ ReadLen(h) \/ \E late \in BOOLEAN : ConnectFails(h, late)
         PROVE  CountInv'
    BY <1>3, <1>12 DEF Busy, Send, Write, WriteFails, ReadFails, Reading, SkipByte, ReadLen, ConnectFails
  <1> QED
    BY <1>4, <1>5, <1>7, <1>8, <1>9, <1>10, <1>11, <1>12
       DEF HostStep, Send, Receive, WriteFails, ReadFails, ConnectFails

\* For any number of sessions and wherever connections are cut: no request
\* fails without having been retried, none is retried twice, and only failed
\* requests are counted as errors (metrics.rs, request()).
THEOREM LinkCountersAddUp == AnswersFit => (Spec => []CountersAddUp)
  <1> SUFFICES ASSUME AnswersFit PROVE Spec => []CountersAddUp
    OBVIOUS
  <1>1. Init => CountInv
    <2> SUFFICES ASSUME Init PROVE CountInv
      OBVIOUS
    <2>1. Trying(1) = {} /\ Trying(2) = {}
      BY DEF Init, LinkInit, Trying, Busy
    <2>2. /\ IsFiniteSet(Trying(1)) /\ IsFiniteSet(Trying(2))
          /\ Cardinality(Trying(1)) = 0 /\ Cardinality(Trying(2)) = 0
      BY <2>1, FS_EmptySet
    <2> QED
      BY <2>2 DEF Init, LinkInit, CountInv
  <1>2. LinkInv /\ CountInv /\ [Next]_vars => CountInv'
    <2> SUFFICES ASSUME TypeOK, CountInv, [Next]_vars PROVE CountInv'
      BY DEF LinkInv
    <2>1. ASSUME NEW h \in Sessions, NEW p \in Requests, Ask(h, p), failed' = failed PROVE CountInv'
      <3>1. CASE RequestTooLarge(h, p)
        BY <2>1, <3>1, CountKept DEF RequestTooLarge, linkVars, Busy
      <3> QED
        BY <2>1, <3>1, CountAsk DEF Ask
    <2>2. CASE UNCHANGED <<linkVars, failed>>
      BY <2>2, CountKept DEF linkVars, Busy
    <2>3. ASSUME NEW h \in Sessions, Detach(h), UNCHANGED history PROVE UNCHANGED <<linkVars, failed>>
      BY <2>3 DEF Detach, history
    <2> QED
      BY <2>1, <2>2, <2>3, CountHost
         DEF Next, Serve, ServeFails, Vanish, ListenStep, vars, history
  <1>3. LinkInv /\ CountInv => CountersAddUp
    <2> SUFFICES ASSUME TypeOK, CountInv PROVE CountersAddUp
      BY DEF LinkInv
    <2>1. Cardinality(Trying(1)) \in Nat
      BY FS_CardinalityType DEF CountInv
    <2>2. LINK_RETRIES <= LINK_REQUESTS
      BY <2>1 DEF CountInv, TypeOK, LinkTypeOK
    <2> QED
      BY <2>2 DEF CountInv, CountersAddUp, Trying
  <1> QED
    BY <1>1, <1>2, <1>3, LinkInvariant, PTL DEF Spec
=============================================================================
