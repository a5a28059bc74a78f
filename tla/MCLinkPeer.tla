----------------------------- MODULE MCLinkPeer -----------------------------
(***************************************************************************)
(* One session; frames of at most two bytes; the peer's bytes make legal   *)
(* lengths (0, 1), illegal ones and bytes to skip.                         *)
(***************************************************************************)
EXTENDS LinkPeer

CONSTANT h1

OneSession == {h1}
MCRequests == {<<1>>, <<1, 1, 1>>}
MCBytes == {0, 1, 218}
=============================================================================
