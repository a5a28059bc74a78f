---------------------------- MODULE FrameStream ----------------------------
(***************************************************************************)
(* One uninterrupted byte stream from the encoder to the decoder: frames   *)
(* written back to back, stray bytes between them, and the decoder fed one *)
(* byte at a time.  It says what the framing promises on a stream that     *)
(* starts with the decoder at rest; LinkSystem says what happens to that   *)
(* promise when connections are cut.                                       *)
(*                                                                         *)
(* The stream is kept as the frames written so far and a cursor (the frame *)
(* being read and how many of its bytes have been fed).                    *)
(***************************************************************************)
EXTENDS Frame

CONSTANTS
  Payloads,   \* payloads the sender may write
  StrayBytes, \* stray bytes that may come between frames
  MaxSent,    \* bound: frames written
  MaxStray    \* bound: stray bytes fed between two frames

ASSUME StreamAssumption ==
  /\ \A p \in Payloads : p \in Seq(Byte) /\ Len(p) < LenLimit
  /\ StrayBytes \subseteq Byte \ {FRAME_MAGIC}
  /\ MaxSent \in Nat
  /\ MaxStray \in Nat

VARIABLES
  sent,       \* payloads written, in order
  at,         \* index of the frame the decoder reads next or is reading
  off,        \* bytes of that frame already fed
  deframer,
  emitted,    \* history: <<index of the frame being read, frame returned>>
  stray       \* history: stray bytes since the last frame returned

vars == <<sent, at, off, deframer, emitted, stray>>

Init ==
  /\ sent = <<>>
  /\ at = 1
  /\ off = 0
  /\ deframer = NewDeframer
  /\ emitted = {}
  /\ stray = 0

\* The sender writes a whole frame.
Write(p) ==
  /\ Len(sent) < MaxSent
  /\ sent' = Append(sent, p)
  /\ UNCHANGED <<at, off, deframer, emitted, stray>>

\* The decoder is fed a byte; the frame it returns, if any, is recorded.
FeedByte(byte) ==
  LET frame == FrameOf(deframer, byte)
  IN  /\ deframer' = Feed(deframer, byte)
      /\ emitted' = IF frame = <<>> THEN emitted ELSE emitted \cup {<<at, frame>>}

\* The next byte of the stream.
Deliver ==
  /\ at <= Len(sent)
  /\ FeedByte(Wire(sent[at])[off + 1])
  /\ IF off + 1 = Len(Wire(sent[at]))
       THEN /\ at' = at + 1
            /\ off' = 0
            /\ stray' = IF sent[at] = <<>> THEN stray ELSE 0
       ELSE /\ off' = off + 1
            /\ UNCHANGED <<at, stray>>
  /\ UNCHANGED sent

\* A stray byte between two frames.
Stray(byte) ==
  /\ off = 0
  /\ stray < MaxStray
  /\ FeedByte(byte)
  /\ stray' = stray + 1
  /\ UNCHANGED <<sent, at, off>>

Next ==
  \/ \E p \in Payloads : Write(p)
  \/ Deliver
  \/ \E byte \in StrayBytes : Stray(byte)

Spec == Init /\ [][Next]_vars

-----------------------------------------------------------------------------
\* Type invariant.
TypeOK ==
  /\ sent \in Seq(Payloads)
  /\ at \in 1 .. Len(sent) + 1
  /\ off \in Nat
  /\ deframer \in Deframers
  /\ emitted \subseteq (Nat \X Seq(Byte))
  /\ stray \in Nat

(***************************************************************************)
(* The decoder returns exactly one frame for every non-empty payload whose *)
(* last byte has been fed, cut to the buffer's capacity, and nothing else: *)
(* no frame for an empty payload, none early, none twice, none made of     *)
(* stray bytes or of magic bytes inside a payload (Deframer::feed).        *)
(***************************************************************************)
ExactDelivery ==
  emitted = {<<i, Kept(sent[i])>> : i \in {j \in 1 .. at - 1 : sent[j] # <<>>}}

(***************************************************************************)
(* The stream is declared garbage exactly when more than MAX_REJECTS stray *)
(* bytes arrived since the last frame was returned: an empty frame does    *)
(* not forgive them, and no byte of a frame is ever counted as stray.      *)
(***************************************************************************)
GarbageIsStray == IsGarbage(deframer) <=> stray > MAX_REJECTS
=============================================================================
