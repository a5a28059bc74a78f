------------------------- MODULE FrameStreamProofs -------------------------
(***************************************************************************)
(* For every buffer capacity, reject limit and set of payloads, the        *)
(* decoder returns exactly the frames that were written.                   *)
(***************************************************************************)
EXTENDS FrameStream, FrameProofs

\* The inductive strengthening: the number of bytes of the current frame that
\* have been fed determines the decoder's state.
InStep ==
  /\ deframer.rejects = stray
  /\ off > 0 => at <= Len(sent) /\ off < Len(sent[at]) + 3
  /\ FedUpTo(deframer, sent[at], off)

IInv == TypeOK /\ InStep /\ ExactDelivery

\* Every payload on the stream is a sequence of bytes a length can announce.
LEMMA SentPayload ==
  ASSUME TypeOK, NEW i \in 1 .. Len(sent)
  PROVE  sent[i] \in Seq(Byte) /\ Len(sent[i]) \in Nat /\ Len(sent[i]) < LenLimit
  BY StreamAssumption, ElementOfSeq, LenProperties DEF TypeOK

LEMMA InitInv == Init => IInv
  <1> SUFFICES ASSUME Init PROVE IInv
    OBVIOUS
  <1>1. TypeOK
    BY EmptySeq DEF Init, TypeOK, NewDeframer, Deframers, RxStates, Byte
  <1>2. InStep
    BY DEF Init, InStep, NewDeframer, FedUpTo
  <1>3. ExactDelivery
    BY DEF Init, ExactDelivery
  <1> QED
    BY <1>1, <1>2, <1>3 DEF IInv

\* Writing a frame extends the stream behind the cursor.
LEMMA WriteInv ==
  ASSUME IInv, NEW p \in Payloads, Write(p)
  PROVE  IInv'
  <1>1. /\ sent' = Append(sent, p)
        /\ UNCHANGED <<at, off, deframer, emitted, stray>>
    BY DEF Write
  <1>2. /\ sent' \in Seq(Payloads)
        /\ Len(sent) \in Nat
        /\ Len(sent') = Len(sent) + 1
        /\ \A i \in 1 .. Len(sent) : sent'[i] = sent[i]
    BY <1>1, AppendProperties, LenProperties DEF IInv, TypeOK
  <1>3. TypeOK'
    BY <1>1, <1>2 DEF IInv, TypeOK
  <1>4. InStep'
    <2>1. CASE off = 0
      BY <1>1, <2>1 DEF IInv, InStep, FedUpTo
    <2>2. CASE off > 0
      <3>1. at \in 1 .. Len(sent)
        BY <1>2, <2>2 DEF IInv, InStep, TypeOK
      <3>2. sent'[at'] = sent[at] /\ at' <= Len(sent')
        BY <1>1, <1>2, <3>1
      <3> QED
        BY <1>1, <2>2, <3>2 DEF IInv, InStep
    <2> QED
      BY <2>1, <2>2 DEF IInv, TypeOK
  <1>5. ExactDelivery'
    <2>1. \A j \in 1 .. at - 1 : sent'[j] = sent[j]
      BY <1>2 DEF IInv, TypeOK
    <2> QED
      BY <1>1, <2>1 DEF IInv, ExactDelivery
  <1> QED
    BY <1>3, <1>4, <1>5 DEF IInv

\* A stray byte is rejected and leaves the decoder at rest.
LEMMA StrayInv ==
  ASSUME IInv, NEW byte \in StrayBytes, Stray(byte)
  PROVE  IInv'
  <1>1. deframer \in Deframers /\ deframer.state = "Magic" /\ byte # FRAME_MAGIC
    BY StreamAssumption DEF IInv, TypeOK, InStep, Stray, FedUpTo
  <1>2. /\ deframer' = [deframer EXCEPT !.rejects = @ + 1]
        /\ emitted' = emitted
        /\ stray' = stray + 1
        /\ UNCHANGED <<sent, at, off>>
    BY <1>1 DEF Stray, FeedByte, Feed, FrameOf, FeedMagic
  <1>3. TypeOK'
    <2>1. deframer' \in Deframers
      BY <1>1, <1>2 DEF Deframers
    <2> QED
      BY <1>2, <2>1 DEF IInv, TypeOK
  <1>4. InStep'
    BY <1>1, <1>2 DEF IInv, InStep, Deframers, Stray, TypeOK, FedUpTo
  <1>5. ExactDelivery'
    BY <1>2 DEF IInv, ExactDelivery
  <1> QED
    BY <1>3, <1>4, <1>5 DEF IInv

\* The byte Deliver feeds is the one after the cursor.
LEMMA DeliverInv ==
  ASSUME IInv, Deliver
  PROVE  IInv'
  <1> DEFINE p == sent[at]
             L == Len(p)
             byte == Wire(p)[off + 1]
             d == deframer
  <1>1. /\ at \in 1 .. Len(sent) /\ Len(sent) \in Nat
        /\ p \in Seq(Byte) /\ L \in Nat /\ L < LenLimit
    <2>1. Len(sent) \in Nat /\ at \in 1 .. Len(sent)
      BY LenProperties DEF IInv, TypeOK, Deliver
    <2> QED
      BY <2>1, SentPayload DEF IInv
  <1>2. /\ d \in Deframers /\ off \in Nat /\ stray \in Nat /\ sent' = sent
        /\ Len(Wire(p)) = L + 3
        /\ d' = Feed(d, byte)
        /\ emitted' = IF FrameOf(d, byte) = <<>> THEN emitted
                      ELSE emitted \cup {<<at, FrameOf(d, byte)>>}
    BY <1>1, WireBytes DEF IInv, TypeOK, Deliver, FeedByte
  <1>3. off < L + 3 /\ FedUpTo(d, p, off) /\ d.rejects = stray
    BY <1>1, <1>2 DEF IInv, InStep
  <1>4. /\ d' \in Deframers
        /\ off + 1 < L + 3 =>
             FedUpTo(d', p, off + 1) /\ FrameOf(d, byte) = <<>> /\ d'.rejects = stray
        /\ off + 1 = L + 3 =>
             /\ d'.state = "Magic" /\ FrameOf(d, byte) = Kept(p)
             /\ d'.rejects = IF p = <<>> THEN stray ELSE 0
    BY <1>1, <1>2, <1>3, FeedNext
  <1>5. CASE off + 1 < L + 3
    <2>1. at' = at /\ off' = off + 1 /\ stray' = stray /\ emitted' = emitted
      BY <1>1, <1>2, <1>4, <1>5 DEF Deliver
    <2>2. InStep'
      BY <1>1, <1>2, <1>4, <1>5, <2>1 DEF InStep
    <2>3. ExactDelivery'
      BY <1>2, <2>1 DEF IInv, ExactDelivery
    <2>4. TypeOK'
      BY <1>2, <1>4, <2>1 DEF IInv, TypeOK
    <2> QED
      BY <2>2, <2>3, <2>4 DEF IInv
  <1>6. CASE off + 1 = L + 3
    <2>1. at' = at + 1 /\ off' = 0 /\ stray' = (IF p = <<>> THEN stray ELSE 0)
      BY <1>1, <1>2, <1>6 DEF Deliver
    <2>2. Kept(p) \in Seq(Byte) /\ (Kept(p) = <<>> <=> p = <<>>)
      BY <1>1, KeptFits
    <2>3. emitted' = IF p = <<>> THEN emitted ELSE emitted \cup {<<at, Kept(p)>>}
      BY <1>2, <1>4, <1>6, <2>2
    <2>4. InStep'
      BY <1>4, <1>6, <2>1 DEF InStep, FedUpTo
    <2>5. {j \in 1 .. at' - 1 : sent[j] # <<>>} =
            {j \in 1 .. at - 1 : sent[j] # <<>>} \cup (IF p = <<>> THEN {} ELSE {at})
      BY <1>1, <2>1
    <2>6. ExactDelivery'
      BY <1>2, <2>3, <2>5 DEF IInv, ExactDelivery
    <2>7. TypeOK'
      BY <1>1, <1>2, <1>4, <2>1, <2>2, <2>3 DEF IInv, TypeOK
    <2> QED
      BY <2>4, <2>6, <2>7 DEF IInv
  <1> QED
    BY <1>1, <1>2, <1>3, <1>5, <1>6

-----------------------------------------------------------------------------
\* The strengthened invariant holds throughout (Deframer::feed driven by the
\* encoder of link.rs and tcp.rs).
THEOREM InvHolds == Spec => []IInv
  <1>1. IInv /\ [Next]_vars => IInv'
    <2> SUFFICES ASSUME IInv, [Next]_vars
                 PROVE  IInv'
      OBVIOUS
    <2>1. CASE \E p \in Payloads : Write(p)
      BY <2>1, WriteInv
    <2>2. CASE Deliver
      BY <2>2, DeliverInv
    <2>3. CASE \E byte \in StrayBytes : Stray(byte)
      BY <2>3, StrayInv
    <2>4. CASE UNCHANGED vars
      BY <2>4 DEF vars, IInv, TypeOK, InStep, ExactDelivery
    <2> QED
      BY <2>1, <2>2, <2>3, <2>4 DEF Next
  <1> QED
    BY <1>1, InitInv, PTL DEF Spec

\* Every frame written is returned exactly once, cut to the buffer, and
\* nothing else is returned.
THEOREM FramesDelivered == Spec => []ExactDelivery
  <1>1. IInv => ExactDelivery
    BY DEF IInv
  <1> QED
    BY <1>1, InvHolds, PTL

\* The decoder gives up on a stream exactly after MAX_REJECTS + 1 stray
\* bytes without a frame.
THEOREM GarbageOnlyStray == Spec => []GarbageIsStray
  <1>1. IInv => GarbageIsStray
    BY DEF IInv, InStep, GarbageIsStray, IsGarbage
  <1> QED
    BY <1>1, InvHolds, PTL

\* Every variable keeps its type.
THEOREM TypeCorrect == Spec => []TypeOK
  <1>1. IInv => TypeOK
    BY DEF IInv
  <1> QED
    BY <1>1, InvHolds, PTL
=============================================================================
