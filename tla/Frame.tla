------------------------------- MODULE Frame -------------------------------
(***************************************************************************)
(* The framing shared by esp-daplink-host (link.rs) and esp-daplink-target *)
(* (channel/frame.rs, channel/tcp.rs): a magic byte, a little-endian       *)
(* 16-bit length, the payload.  The encoder and the target's byte-driven   *)
(* decoder are pure operators; the modules that run them keep the decoder  *)
(* as a variable.                                                          *)
(***************************************************************************)
EXTENDS Naturals, Sequences

CONSTANTS
  N,            \* capacity of the decoder's buffer, Deframer<N> (1024 in the firmware)
  MAX_REJECTS   \* rejected bytes the decoder tolerates (128 in the firmware)

ASSUME FrameAssumption == N \in Nat \ {0} /\ MAX_REJECTS \in Nat

Byte == 0 .. 255

FRAME_MAGIC == 218   \* 0xDA

\* What a 16-bit length can announce.
LenLimit == 65536

(***************************************************************************)
(* The encoder.  Both ends write the magic, the low byte and the high byte *)
(* of the payload's length, then the payload.                              *)
(***************************************************************************)
FrameHead(len) == <<FRAME_MAGIC, len % 256, (len \div 256) % 256>>

Wire(payload) == FrameHead(Len(payload)) \o payload

\* The length two header bytes announce.
AnnouncedLen(lo, hi) == lo + 256 * hi

(***************************************************************************)
(* The decoder: Deframer<N>.  lo and left are the fields of the enum       *)
(* variants LenHi and Payload, 0 in the other states.  buf holds the bytes *)
(* buf[..min(fill, N)] of the array: what lies beyond is never read.       *)
(***************************************************************************)
RxStates == {"Magic", "LenLo", "LenHi", "Payload"}

Deframers == [state : RxStates, lo : Byte, left : Nat, fill : Nat,
              buf : Seq(Byte), rejects : Nat]

NewDeframer == [state |-> "Magic", lo |-> 0, left |-> 0, fill |-> 0,
                buf |-> <<>>, rejects |-> 0]

IsGarbage(d) == d.rejects > MAX_REJECTS

FeedMagic(d, byte) ==
  IF byte = FRAME_MAGIC THEN [d EXCEPT !.state = "LenLo"]
                        ELSE [d EXCEPT !.rejects = @ + 1]

FeedLenLo(d, byte) == [d EXCEPT !.state = "LenHi", !.lo = byte]

\* Mutant of FeedLenHi: fill is not reset, so a frame keeps what is left of
\* the one before it.
FeedLenHiKeepsFill(d, byte) ==
  LET len == AnnouncedLen(d.lo, byte)
  IN  [d EXCEPT !.state = IF len = 0 THEN "Magic" ELSE "Payload",
                !.lo = 0, !.left = len]

\* Mutant of FeedLenHi: an empty frame waits for a payload.
FeedLenHiNoZeroCheck(d, byte) ==
  [d EXCEPT !.state = "Payload", !.lo = 0, !.left = AnnouncedLen(d.lo, byte),
            !.fill = 0, !.buf = <<>>]

FeedLenHi(d, byte) ==
  LET len == AnnouncedLen(d.lo, byte)
  IN  [d EXCEPT !.state = IF len = 0 THEN "Magic" ELSE "Payload",
                !.lo = 0, !.left = len, !.fill = 0, !.buf = <<>>]

\* Mutant of FeedPayload: a completed frame does not forgive the bytes
\* rejected before it.
FeedPayloadKeepsRejects(d, byte) ==
  [d EXCEPT !.state = IF d.left = 1 THEN "Magic" ELSE "Payload",
            !.left = d.left - 1,
            !.fill = d.fill + 1,
            !.buf = IF d.fill < N THEN Append(d.buf, byte) ELSE d.buf]

FeedPayload(d, byte) ==
  [d EXCEPT !.state = IF d.left = 1 THEN "Magic" ELSE "Payload",
            !.left = d.left - 1,
            !.fill = d.fill + 1,
            !.buf = IF d.fill < N THEN Append(d.buf, byte) ELSE d.buf,
            !.rejects = IF d.left = 1 THEN 0 ELSE d.rejects]

\* The decoder after one byte.
Feed(d, byte) ==
  CASE d.state = "Magic"   -> FeedMagic(d, byte)
    [] d.state = "LenLo"   -> FeedLenLo(d, byte)
    [] d.state = "LenHi"   -> FeedLenHi(d, byte)
    [] d.state = "Payload" -> FeedPayload(d, byte)

\* What feed() returns for that byte: the frame it completes, or <<>> for
\* None.  No frame is empty, since a zero length goes straight back to Magic.
FrameOf(d, byte) ==
  IF d.state = "Payload" /\ d.left = 1 THEN FeedPayload(d, byte).buf ELSE <<>>

\* The part of a payload that reaches the command handler: the decoder keeps
\* the first N bytes and drops the others without reporting it.
Kept(payload) == IF Len(payload) <= N THEN payload ELSE SubSeq(payload, 1, N)
=============================================================================
