------------------------------ MODULE SwdChip ------------------------------
(***************************************************************************)
(* The debugged chip's end of the SWD line, external: a serial wire debug  *)
(* port as swd.rs relies on it.  It acts on the rising clock edges.  It    *)
(* reads requests of eight bits, acknowledges those that are well formed,  *)
(* and moves to a defined state after a line reset whatever it was doing.  *)
(* A port that wakes up in JTAG mode has to be switched first.             *)
(***************************************************************************)
EXTENDS Naturals, Sequences, FiniteSets

CONSTANTS
  W,         \* bits of a data word (32)
  ResetOnes, \* ones in a row that make a line reset (50)
  Words      \* the data words registers may hold

Bit == 0 .. 1

ASSUME ChipAssumption ==
  /\ W \in Nat \ {0}
  /\ Words \subseteq [1 .. W -> Bit] /\ Words # {}
  /\ ResetOnes \in Nat /\ ResetOnes > W + 1 /\ ResetOnes > 7

Parity(bits) == Cardinality({i \in DOMAIN bits : bits[i] = 1}) % 2

\* 0xE79E, the lowest bit first.
SwitchBits == <<0, 1, 1, 1, 1, 0, 0, 1, 1, 1, 1, 0, 0, 1, 1, 1>>

\* The acknowledgements, lowest bit first.
AckBits == [ok |-> <<1, 0, 0>>, wait |-> <<0, 1, 0>>, fault |-> <<0, 0, 1>>]
Acks == DOMAIN AckBits

NoAccess == [ap |-> FALSE, rnw |-> TRUE, addr |-> 0]

ChipStates == {"jtag", "lost", "reset", "idle", "request", "turn", "drive", "back", "data"}

Chips ==
  [st : ChipStates,
   n : 0 .. 16,                \* bits recognised of the switch, zeros after a reset
   ones : 0 .. ResetOnes,      \* ones in a row
   bits : Seq(Bit),            \* bits received of a request or of a word
   send : Seq(Bit),            \* bits still to drive, the head is on the line
   access : [ap : BOOLEAN, rnw : BOOLEAN, addr : 0 .. 3],
   ack : Acks,
   posted : Words,             \* result of the last AP read
   did : Seq([ap : BOOLEAN, rnw : BOOLEAN, addr : 0 .. 3, word : Words])]  \* history

NewChip(st) ==
  [st |-> st, n |-> 0, ones |-> 0, bits |-> <<>>, send |-> <<>>, access |-> NoAccess,
   ack |-> "ok", posted |-> CHOOSE w \in Words : TRUE, did |-> <<>>]

Drives(c) == c.st = "drive"

Did(c, a, word) ==
  Append(c.did, [ap |-> a.ap, rnw |-> a.rnw, addr |-> a.addr, word |-> word])

WellFormed(b) == b[7] = 0 /\ b[8] = 1 /\ b[6] = Parity(SubSeq(b, 2, 5))

Access(b) == [ap |-> b[2] = 1, rnw |-> b[3] = 1, addr |-> b[4] + 2 * b[5]]

\* An AP read returns the result of the one before it and posts its own;
\* RDBUFF returns what was posted; other DP registers hold any word.
Held(c, a) == IF ~a.ap /\ a.addr = 3 THEN {c.posted} ELSE Words

Returned(c, a, held) == IF a.ap THEN c.posted ELSE held

Answers(c, a, ack) ==
  LET heard == [c EXCEPT !.st = "turn", !.access = a, !.ack = ack, !.send = AckBits[ack]]
  IN  IF ack # "ok" \/ ~a.rnw
        THEN {heard}
        ELSE {[heard EXCEPT
                 !.send = @ \o Returned(c, a, held) \o <<Parity(Returned(c, a, held))>>,
                 !.posted = IF a.ap THEN held ELSE @,
                 !.did = Did(c, a, held)] : held \in Held(c, a)}

\* A request is complete: answered, or met with silence.
Requested(c, b) ==
  IF WellFormed(b)
    THEN UNION {Answers([c EXCEPT !.bits = <<>>], Access(b), ack) : ack \in Acks}
    ELSE {[c EXCEPT !.st = "lost", !.bits = <<>>]}

\* A word written takes effect only with the right parity.
Written(c, b) ==
  LET word == SubSeq(b, 1, W)
  IN  {[c EXCEPT !.st = "idle", !.bits = <<>>,
                 !.did = IF Parity(word) = b[W + 1] /\ word \in Words
                           THEN Did(c, c.access, word) ELSE @]}

\* The bit b is on the line at a rising edge, the port not in JTAG mode.
Sample(c, b) ==
  CASE c.st = "lost"    -> {c}
    [] c.st = "reset"   -> {[c EXCEPT !.st = IF b = 1 THEN "lost" ELSE IF c.n = 1 THEN "idle" ELSE "reset",
                                      !.n = IF b = 0 /\ c.n = 0 THEN 1 ELSE 0]}
    [] c.st = "idle"    -> {IF b = 1 THEN [c EXCEPT !.st = "request", !.bits = <<1>>] ELSE c}
    [] c.st = "request" -> IF Len(c.bits) = 7 THEN Requested(c, Append(c.bits, b))
                                              ELSE {[c EXCEPT !.bits = Append(@, b)]}
    [] c.st = "data"    -> IF Len(c.bits) = W THEN Written(c, Append(c.bits, b))
                                              ELSE {[c EXCEPT !.bits = Append(@, b)]}

\* In JTAG mode only the switch sequence behind a reset is understood.
SampleJtag(c, b) ==
  LET n == IF (c.n > 0 \/ c.ones = ResetOnes) /\ b = SwitchBits[c.n + 1] THEN c.n + 1 ELSE 0
  IN  {[c EXCEPT !.n = IF n = 16 THEN 0 ELSE n,
                 !.st = IF n = 16 THEN "lost" ELSE "jtag"]}

\* The states the chip may be in after a rising edge with b on the line.
Edge(c, b) ==
  LET ones == IF b = 0 THEN 0 ELSE IF c.ones = ResetOnes THEN ResetOnes ELSE c.ones + 1
  IN  CASE c.st = "turn"  -> {[c EXCEPT !.st = "drive", !.ones = 0]}
        [] c.st = "drive" -> {[c EXCEPT !.send = Tail(@),
                                        !.st = IF Len(c.send) = 1 THEN "back" ELSE "drive"]}
        [] c.st = "back"  -> {[c EXCEPT !.st = IF c.ack = "ok" /\ ~c.access.rnw THEN "data" ELSE "idle"]}
        [] c.st = "jtag"  -> {[d EXCEPT !.ones = ones] : d \in SampleJtag(c, b)}
        [] OTHER          -> IF ones = ResetOnes
                               THEN {[c EXCEPT !.st = "reset", !.n = 0, !.ones = ones, !.bits = <<>>]}
                               ELSE Sample([c EXCEPT !.ones = ones], b)
=============================================================================
