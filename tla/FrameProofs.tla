---------------------------- MODULE FrameProofs ----------------------------
(***************************************************************************)
(* What the encoder writes and what the decoder makes of it, byte by byte, *)
(* for every buffer capacity and payload.                                  *)
(***************************************************************************)
EXTENDS Frame, SequenceTheorems, TLAPS

\* The length field survives its split into two bytes and their
\* reassembly (link.rs and tcp.rs against frame.rs).
LEMMA LengthRoundTrip ==
  ASSUME NEW len \in Nat, len < LenLimit
  PROVE  /\ len % 256 \in Byte
         /\ (len \div 256) % 256 \in Byte
         /\ AnnouncedLen(len % 256, (len \div 256) % 256) = len
  BY SMTT(30) DEF LenLimit, Byte, AnnouncedLen

\* The bytes of an encoded frame, one by one.
LEMMA WireBytes ==
  ASSUME NEW p \in Seq(Byte), Len(p) < LenLimit
  PROVE  /\ Len(Wire(p)) = Len(p) + 3
         /\ Wire(p)[1] = FRAME_MAGIC
         /\ Wire(p)[2] = Len(p) % 256
         /\ Wire(p)[3] = (Len(p) \div 256) % 256
         /\ \A i \in 1 .. Len(p) : Wire(p)[i + 3] = p[i]
  <1> DEFINE lo == Len(p) % 256
             hi == (Len(p) \div 256) % 256
             h == <<FRAME_MAGIC, lo, hi>>
  <1>1. Len(p) \in Nat
    BY LenProperties
  <1>2. /\ lo \in Byte
        /\ hi \in Byte
        /\ FRAME_MAGIC \in Byte
    <2>1. lo \in Byte /\ hi \in Byte
      BY <1>1, LengthRoundTrip
    <2>2. FRAME_MAGIC \in Byte
      BY DEF FRAME_MAGIC, Byte
    <2> QED
      BY <2>1, <2>2
  <1>3. Wire(p) = h \o p
    BY DEF Wire, FrameHead
  <1> HIDE DEF lo, hi
  <1>4. h \in Seq(Byte) /\ Len(h) = 3 /\ h[1] = FRAME_MAGIC /\ h[2] = lo /\ h[3] = hi
    BY <1>2
  <1> HIDE DEF h
  <1>5. /\ Len(h \o p) = Len(h) + Len(p)
        /\ \A i \in 1 .. Len(h) + Len(p) : (h \o p)[i] =
               IF i <= Len(h) THEN h[i] ELSE p[i - Len(h)]
    BY <1>4, ConcatProperties
  <1>6. Len(Wire(p)) = Len(p) + 3 /\ \A i \in 1 .. Len(p) : Wire(p)[i + 3] = p[i]
    BY <1>1, <1>3, <1>4, <1>5
  <1>7. Wire(p)[1] = FRAME_MAGIC /\ Wire(p)[2] = lo /\ Wire(p)[3] = hi
    BY <1>1, <1>3, <1>4, <1>5
  <1> QED
    BY <1>6, <1>7 DEF lo, hi

\* A prefix of a sequence grows by the element that follows it.
LEMMA PrefixGrows ==
  ASSUME NEW p \in Seq(Byte), NEW k \in Nat, k < Len(p)
  PROVE  /\ SubSeq(p, 1, k) \in Seq(Byte)
         /\ Append(SubSeq(p, 1, k), p[k + 1]) = SubSeq(p, 1, k + 1)
         /\ SubSeq(p, 1, k + 1) # <<>>
  <1>1. Len(p) \in Nat /\ \A i \in 1 .. k + 1 : p[i] \in Byte
    BY ElementOfSeq, LenProperties
  <1>2. /\ SubSeq(p, 1, k) \in Seq(Byte)
        /\ Len(SubSeq(p, 1, k)) = k
        /\ \A i \in 1 .. k : SubSeq(p, 1, k)[i] = p[i]
    BY <1>1, SubSeqProperties
  <1>3. /\ SubSeq(p, 1, k + 1) \in Seq(Byte)
        /\ Len(SubSeq(p, 1, k + 1)) = k + 1
        /\ \A i \in 1 .. k + 1 : SubSeq(p, 1, k + 1)[i] = p[i]
    BY <1>1, SubSeqProperties
  <1> DEFINE s == SubSeq(p, 1, k)
             t == SubSeq(p, 1, k + 1)
  <1> HIDE DEF s, t
  <1>4. /\ Append(s, p[k + 1]) \in Seq(Byte)
        /\ Len(Append(s, p[k + 1])) = k + 1
        /\ \A i \in 1 .. k : Append(s, p[k + 1])[i] = p[i]
        /\ Append(s, p[k + 1])[k + 1] = p[k + 1]
    BY <1>1, <1>2, AppendProperties DEF s
  <1>5. Append(s, p[k + 1]) = t
    BY <1>3, <1>4, SeqEqual DEF t
  <1> QED
    BY <1>2, <1>3, <1>5, EmptySeq DEF s, t

\* What reaches the handler is the prefix the buffer has room for.
LEMMA KeptIsPrefix ==
  ASSUME NEW p \in Seq(Byte)
  PROVE  Kept(p) = SubSeq(p, 1, IF Len(p) < N THEN Len(p) ELSE N)
  BY FrameAssumption, SubSeqFull, LenProperties DEF Kept

LEMMA KeptFits ==
  ASSUME NEW p \in Seq(Byte)
  PROVE  /\ Kept(p) \in Seq(Byte)
         /\ Kept(p) = <<>> <=> p = <<>>
  <1>1. CASE Len(p) <= N
    BY <1>1 DEF Kept
  <1>2. CASE ~(Len(p) <= N)
    <2>1. Len(p) \in Nat /\ N \in Nat \ {0} /\ N < Len(p) /\ N - 1 \in Nat /\ N - 1 < Len(p)
      BY <1>2, FrameAssumption, LenProperties
    <2>2. SubSeq(p, 1, (N - 1) + 1) # <<>> /\ \A i \in 1 .. N : p[i] \in Byte
      BY <2>1, PrefixGrows, ElementOfSeq
    <2>3. SubSeq(p, 1, N) \in Seq(Byte)
      BY <2>1, <2>2, SubSeqProperties
    <2>4. SubSeq(p, 1, N) # <<>> /\ p # <<>>
      BY <2>1, <2>2, EmptySeq
    <2> QED
      BY <1>2, <2>3, <2>4 DEF Kept
  <1> QED
    BY <1>1, <1>2

\* The decoder after off bytes of a frame it met at rest.
FedUpTo(d, p, off) ==
  /\ off = 0 => d.state = "Magic"
  /\ off = 1 => d.state = "LenLo"
  /\ off = 2 => d.state = "LenHi" /\ d.lo = Len(p) % 256
  /\ off > 2 => /\ d.state = "Payload"
                /\ d.fill = off - 3
                /\ d.left = Len(p) - d.fill
                /\ d.buf = SubSeq(p, 1, IF d.fill < N THEN d.fill ELSE N)

\* One byte more of the frame: the decoder moves on with it, and the last one
\* leaves it at rest and returns the payload, cut to the buffer.
LEMMA FeedNext ==
  ASSUME NEW p \in Seq(Byte), Len(p) < LenLimit, NEW d \in Deframers,
         NEW off \in Nat, off < Len(p) + 3, FedUpTo(d, p, off)
  PROVE  LET e == Feed(d, Wire(p)[off + 1])
             f == FrameOf(d, Wire(p)[off + 1])
         IN  /\ e \in Deframers
             /\ off + 1 < Len(p) + 3 =>
                  FedUpTo(e, p, off + 1) /\ f = <<>> /\ e.rejects = d.rejects
             /\ off + 1 = Len(p) + 3 =>
                  /\ e.state = "Magic" /\ f = Kept(p)
                  /\ e.rejects = IF p = <<>> THEN d.rejects ELSE 0
  <1> DEFINE L == Len(p)
             byte == Wire(p)[off + 1]
             e == Feed(d, byte)
             f == FrameOf(d, byte)
             Moves == /\ e \in Deframers
                      /\ off + 1 < L + 3 =>
                           FedUpTo(e, p, off + 1) /\ f = <<>> /\ e.rejects = d.rejects
                      /\ off + 1 = L + 3 =>
                           /\ e.state = "Magic" /\ f = Kept(p)
                           /\ e.rejects = IF p = <<>> THEN d.rejects ELSE 0
  <1> SUFFICES Moves
    OBVIOUS
  <1>1. L \in Nat /\ L < LenLimit /\ Len(Wire(p)) = L + 3 /\ (L = 0 <=> p = <<>>)
    BY WireBytes, LenProperties, EmptySeq
  <1>6. CASE off = 0
    <2>1. d.state = "Magic" /\ byte = FRAME_MAGIC
      BY <1>1, <1>6, WireBytes DEF FedUpTo
    <2>2. e = [d EXCEPT !.state = "LenLo"] /\ f = <<>>
      BY <2>1 DEF Feed, FeedMagic, FrameOf
    <2>3. e \in Deframers /\ e.state = "LenLo" /\ e.rejects = d.rejects
      BY <2>2 DEF Deframers, RxStates
    <2> QED
      BY <1>1, <1>6, <2>2, <2>3 DEF FedUpTo
  <1>7. CASE off = 1
    <2>1. d.state = "LenLo" /\ byte = L % 256 /\ byte \in Byte
      <3>1. byte = Wire(p)[2]
        BY <1>7
      <3>2. byte = L % 256
        BY <1>1, <3>1, WireBytes
      <3>3. byte \in Byte
        <4>1. L % 256 \in Byte
          BY <1>1, LengthRoundTrip
        <4> QED
          BY <3>2, <4>1, Zenon
      <3>4. d.state = "LenLo"
        BY <1>7 DEF FedUpTo
      <3> QED
        BY <3>2, <3>3, <3>4
    <2>2. e = [d EXCEPT !.state = "LenHi", !.lo = byte] /\ f = <<>>
      BY <2>1 DEF Feed, FeedLenLo, FrameOf
    <2>3. e \in Deframers /\ e.state = "LenHi" /\ e.lo = byte /\ e.rejects = d.rejects
      BY <2>1, <2>2 DEF Deframers, RxStates
    <2> QED
      BY <1>1, <1>7, <2>1, <2>2, <2>3 DEF FedUpTo
  <1>8. CASE off = 2
    <2> DEFINE hi == (L \div 256) % 256
    <2>1. /\ d.state = "LenHi"
          /\ byte = hi
          /\ AnnouncedLen(d.lo, byte) = L
      <3>1. byte = Wire(p)[3]
        BY <1>8
      <3>2. byte = hi
        BY <1>1, <3>1, WireBytes
      <3>3. d.state = "LenHi" /\ d.lo = L % 256
        BY <1>8 DEF FedUpTo
      <3>4. AnnouncedLen(d.lo, byte) = L
        BY <1>1, <3>2, <3>3, LengthRoundTrip
      <3> QED
        BY <3>2, <3>3, <3>4
    <2>2. /\ e = [d EXCEPT !.state = IF L = 0 THEN "Magic" ELSE "Payload",
                           !.lo = 0, !.left = L, !.fill = 0, !.buf = <<>>]
          /\ f = <<>>
      BY <2>1 DEF Feed, FeedLenHi, FrameOf
    <2>3. /\ e.state = IF L = 0 THEN "Magic" ELSE "Payload"
          /\ e.left = L /\ e.fill = 0 /\ e.buf = <<>> /\ e.rejects = d.rejects
      BY <2>2 DEF Deframers
    <2>4. e \in Deframers
      <3> DEFINE st == IF L = 0 THEN "Magic" ELSE "Payload"
                 empty == <<>>
      <3>1. st \in RxStates
        BY DEF RxStates
      <3>2. e = [d EXCEPT !.state = st, !.lo = 0, !.left = L, !.fill = 0, !.buf = empty]
        BY <2>2
      <3>3. L \in Nat /\ empty \in Seq(Byte) /\ 0 \in Byte /\ 0 \in Nat
        BY <1>1, EmptySeq DEF Byte
      <3> HIDE DEF st, L, empty, e
      <3> QED
        BY <3>1, <3>2, <3>3 DEF Deframers
    <2>5. CASE L = 0
      <3>1. Kept(p) = <<>>
        BY <1>1, <2>5, FrameAssumption DEF Kept
      <3> QED
        BY <1>1, <1>8, <2>2, <2>3, <2>4, <2>5, <3>1
    <2>6. CASE L > 0
      <3>1. SubSeq(p, 1, 0) = <<>> /\ 0 < N
        BY SubSeqEmpty, FrameAssumption
      <3> QED
        BY <1>1, <1>8, <2>2, <2>3, <2>4, <2>6, <3>1 DEF FedUpTo
    <2> QED
      BY <1>1, <2>5, <2>6
  <1>9. CASE off > 2
    <2> DEFINE k == d.fill
               m == IF k < N THEN k ELSE N
               m1 == IF k + 1 < N THEN k + 1 ELSE N
    <2>1. /\ d.state = "Payload" /\ k = off - 3 /\ d.left = L - k
          /\ d.buf = SubSeq(p, 1, m)
          /\ k \in Nat /\ k < L /\ N \in Nat \ {0}
      BY <1>1, <1>9, FrameAssumption DEF FedUpTo
    <2>2. byte = p[k + 1] /\ byte \in Byte
      <3>1. off + 1 = (k + 1) + 3 /\ k + 1 \in 1 .. L
        BY <1>1, <2>1
      <3>2. byte = p[k + 1]
        BY <1>1, <3>1, WireBytes
      <3> QED
        BY <1>1, <3>1, <3>2, ElementOfSeq
    <2>3. (IF k < N THEN Append(d.buf, byte) ELSE d.buf) = SubSeq(p, 1, m1)
      <3>1. CASE k < N
        <4>1. m = k /\ m1 = k + 1
          BY <2>1, <3>1
        <4>2. Append(SubSeq(p, 1, k), p[k + 1]) = SubSeq(p, 1, k + 1)
          BY <1>1, <2>1, PrefixGrows
        <4> QED
          BY <2>1, <2>2, <3>1, <4>1, <4>2
      <3>2. CASE ~(k < N)
        BY <2>1, <3>2
      <3> QED
        BY <3>1, <3>2
    <2>4. SubSeq(p, 1, m1) \in Seq(Byte)
      <3>1. m1 \in Nat /\ m1 <= L
        BY <2>1, <1>1
      <3>2. \A i \in 1 .. m1 : p[i] \in Byte
        BY <1>1, <3>1, ElementOfSeq
      <3> QED
        BY <3>1, <3>2, SubSeqProperties
    <2>5. e = FeedPayload(d, byte)
      BY <2>1 DEF Feed
    <2>6. e = [d EXCEPT !.state = IF d.left = 1 THEN "Magic" ELSE "Payload",
                        !.left = d.left - 1,
                        !.fill = d.fill + 1,
                        !.buf = SubSeq(p, 1, m1),
                        !.rejects = IF d.left = 1 THEN 0 ELSE d.rejects]
      BY <2>3, <2>5 DEF FeedPayload
    <2>7. d.left - 1 \in Nat /\ d.fill + 1 \in Nat /\ d.left - 1 = L - (k + 1)
      BY <1>1, <2>1
    <2>8. e \in Deframers
      <3> DEFINE st == IF d.left = 1 THEN "Magic" ELSE "Payload"
                 left == d.left - 1
                 fill == d.fill + 1
                 buf == SubSeq(p, 1, m1)
                 rejects == IF d.left = 1 THEN 0 ELSE d.rejects
      <3>1. st \in RxStates /\ left \in Nat /\ fill \in Nat /\ buf \in Seq(Byte)
        BY <2>4, <2>7 DEF RxStates
      <3>2. rejects \in Nat
        BY DEF Deframers
      <3>3. e = [d EXCEPT !.state = st, !.left = left, !.fill = fill, !.buf = buf, !.rejects = rejects]
        BY <2>6
      <3> HIDE DEF st, left, fill, buf, rejects, e
      <3> QED
        BY <3>1, <3>2, <3>3 DEF Deframers
    <2>9. /\ e.state = IF L - k = 1 THEN "Magic" ELSE "Payload"
          /\ e.left = L - (k + 1) /\ e.fill = k + 1 /\ e.buf = SubSeq(p, 1, m1)
          /\ e.rejects = IF L - k = 1 THEN 0 ELSE d.rejects
      BY <2>1, <2>6, <2>7 DEF Deframers
    <2>10. CASE L - k = 1
      <3>1. Kept(p) = SubSeq(p, 1, m1)
        <4>1. (IF L < N THEN L ELSE N) = m1
          BY <1>1, <2>1, <2>10
        <4>2. Kept(p) = SubSeq(p, 1, IF L < N THEN L ELSE N)
          BY <1>1, KeptIsPrefix
        <4> QED
          BY <4>1, <4>2
      <3>2. f = e.buf
        BY <2>1, <2>5, <2>10 DEF FrameOf
      <3>3. off + 1 = L + 3 /\ p # <<>>
        BY <1>1, <2>1, <2>10
      <3> HIDE DEF e, f
      <3> QED
        BY <1>1, <2>8, <2>9, <2>10, <3>1, <3>2, <3>3
    <2>11. CASE L - k # 1
      <3>1. f = <<>>
        BY <2>1, <2>11 DEF FrameOf
      <3>2. off + 1 < L + 3 /\ off + 1 > 2 /\ e.fill = (off + 1) - 3 /\ e.left = L - e.fill
        BY <1>1, <1>9, <2>1, <2>9, <2>11
      <3> HIDE DEF e, f
      <3> QED
        BY <1>1, <2>8, <2>9, <2>11, <3>1, <3>2 DEF FedUpTo
    <2> QED
      BY <2>10, <2>11
  <1> QED
    BY <1>6, <1>7, <1>8, <1>9
=============================================================================
