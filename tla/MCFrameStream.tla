--------------------------- MODULE MCFrameStream ---------------------------
(***************************************************************************)
(* FrameStream with three frames on the stream: an empty payload, one that *)
(* fits the buffer, one that fills it and starts with the magic byte, one  *)
(* that overflows it, and one of 258 bytes whose length needs the high     *)
(* byte.                                                                   *)
(***************************************************************************)
EXTENDS FrameStream

MCPayloads == {<<>>, <<5>>, <<FRAME_MAGIC, 1>>, <<1, FRAME_MAGIC, 0, 7>>,
               [i \in 1 .. 258 |-> i % 256]}

MCStrayBytes == {0, 7}
=============================================================================
