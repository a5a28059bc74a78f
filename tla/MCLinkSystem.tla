---------------------------- MODULE MCLinkSystem ----------------------------
(***************************************************************************)
(* Small instances of LinkSystem.  The buffer holds two bytes, so that the *)
(* four-byte payload is cut; that payload contains a whole frame of its    *)
(* own; the five-byte payload is over MAX_FRAME.                           *)
(***************************************************************************)
EXTENDS LinkSystem

CONSTANTS h1, h2

OneSession == {h1}
TwoSessions == {h1, h2}

MCRequests == {<<>>, <<1>>, <<218, 1, 0, 1>>, <<1, 1, 1, 1, 1>>}
CutRequests == MCRequests \ {<<>>}
RpcRequests == MCRequests \ {<<218, 1, 0, 1>>}
FewRequests == {<<1>>, <<1, 1, 1, 1, 1>>}

\* Every answer starts with the command's identifier and a status byte
\* follows: success or failure.  An empty command would get 0xFF alone.
MCResponses(f) == IF f = <<>> THEN {<<255>>} ELSE {<<f[1], s>> : s \in {0, 255}}

\* Where only progress matters, one answer is enough.
OneResponse(f) == {<<f[1], 0>>}
=============================================================================
