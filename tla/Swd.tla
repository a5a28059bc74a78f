-------------------------------- MODULE Swd --------------------------------
(***************************************************************************)
(* probe/transport/swd.rs over probe/io: every Transport operation as the  *)
(* clock cycles it makes on the SWD line, with the chip of SwdChip at the  *)
(* other end.  One step is one clock cycle: the pin changes before the     *)
(* rising edge, the edge, the pin changes after it.  The line is pulled    *)
(* up, and noise may flip what is sampled in a cycle.                      *)
(***************************************************************************)
EXTENDS SwdChip

CONSTANTS
  LINE_ONES,   \* cycles of Io::line_reset (60)
  IDLE,        \* cycles of idle() (8)
  Accesses,    \* register accesses the commands make: [kind, addr, word]
  Sequences,   \* what DAP_SWJ_Sequence sends: [count, bits]
  MaxOps,      \* bound: operations
  MaxNoise     \* bound: flipped samples

Kinds == {"read_dp", "write_dp", "read_ap", "write_ap"}

ASSUME SwdAssumption ==
  /\ LINE_ONES \in Nat /\ LINE_ONES >= ResetOnes
  /\ LINE_ONES >= W + 21   \* whatever a chip was doing when init() begins has ended by then
  /\ ResetOnes > 16        \* the switch sequence is not taken for a reset
  /\ Accesses \subseteq [kind : Kinds, addr : 0 .. 3, word : Words]
  /\ IDLE \in Nat \ {0, 1}
  /\ Sequences \subseteq [count : Nat, bits : Seq(Bit)]
  /\ MaxOps \in Nat /\ MaxNoise \in Nat

VARIABLES
  out,      \* the firmware's output driver is enabled on SWDIO
  level,    \* the level it drives when it is
  driving,  \* Swd.driving
  todo,     \* clock cycles the operation has still to make
  got,      \* bits it has read since it last looked at them
  phase,    \* what it does once todo is empty, "idle" between operations
  op,       \* the operation
  cur,      \* the transfer it is making
  pins,     \* Swd.last_pins: the reset pin's bit
  result,   \* what the last transfer returned
  chip,
  ops,      \* operations started
  noise,    \* samples flipped
  noisy,    \* history: samples flipped since init() last started
  misled,   \* history: one of them was taken while the chip waited for a start bit
  trusted   \* history: init() has run and every acknowledgement since was readable

host == <<out, level, driving, todo, got, phase, op, cur, pins, result>>
faults == <<noise, noisy, misled>>
vars == <<host, chip, ops, faults, trusted>>

Errors == {"wait", "fault", "unknown", "parity"}

\* Clock cycles.
Out(bit) == [do |-> "write", bit |-> bit]
OutAll(bits) == [i \in DOMAIN bits |-> Out(bits[i])]
In == [do |-> "read", bit |-> 0]

Ins(n) == [i \in 1 .. n |-> In]
Turn == [do |-> "turn", bit |-> 0]
Ones(n) == [i \in 1 .. n |-> Out(1)]
IdleCycles == [i \in 1 .. IDLE |-> Out(0)]

BitOf(flag) == IF flag THEN 1 ELSE 0

\* Mutant of Request: the address bits in the other order.
RequestSwapped(t) ==
  LET payload == <<BitOf(t.ap), BitOf(t.rnw), t.addr \div 2, t.addr % 2>>
  IN  <<1>> \o payload \o <<Parity(payload), 0, 1>>

\* make_request(): start, payload, parity, stop, park.
Request(t) ==
  LET payload == <<BitOf(t.ap), BitOf(t.rnw), t.addr % 2, t.addr \div 2>>
  IN  <<1>> \o payload \o <<Parity(payload), 0, 1>>

TransferOf(o) == [ap |-> o.kind \in {"read_ap", "write_ap"},
                  rnw |-> o.kind \in {"read_dp", "read_ap"},
                  addr |-> o.addr, word |-> o.word]

Rdbuff(word) == [ap |-> FALSE, rnw |-> TRUE, addr |-> 3, word |-> word]

NoResult == [st |-> "ok", word |-> <<>>]

Init ==
  /\ out = TRUE /\ level = 1 /\ driving = TRUE
  /\ todo = <<>> /\ got = <<>> /\ phase = "idle"
  /\ op = [kind |-> "init"]
  /\ \E word \in Words : cur = Rdbuff(word)
  /\ pins = TRUE
  /\ result = NoResult
  /\ chip \in {NewChip(st) : st \in {"jtag", "lost", "idle"}}
  /\ ops = 0 /\ noise = 0 /\ noisy = 0 /\ misled = FALSE
  /\ trusted = FALSE

-----------------------------------------------------------------------------
\* Mutant of StartTransfer: the line is not handed over.
StartTransferNoTurn(t) ==
  /\ cur' = t
  /\ todo' = OutAll(Request(t)) \o Ins(3)
  /\ got' = <<>>
  /\ phase' = "ack"

\* The beginning of transfer(): the request, then the line is handed over.
StartTransfer(t) ==
  /\ cur' = t
  /\ todo' = OutAll(Request(t)) \o <<Turn>> \o Ins(3)
  /\ got' = <<>>
  /\ phase' = "ack"

StartOp(o) ==
  /\ phase = "idle" /\ todo = <<>>
  /\ ops < MaxOps
  /\ ops' = ops + 1
  /\ op' = o
  /\ chip' = [chip EXCEPT !.did = <<>>]
  /\ result' = NoResult
  /\ UNCHANGED <<driving, level, noise>>

\* read_dp(), write_dp(), read_ap(), write_ap().
DoAccess(o) ==
  /\ StartOp(o)
  /\ StartTransfer(TransferOf(o))
  /\ UNCHANGED <<out, pins, noisy, misled, trusted>>

\* Mutant of InitLine: one line reset, and the switch behind it.
InitLineOnce ==
  /\ StartOp([kind |-> "init"])
  /\ out' = TRUE
  /\ todo' = Ones(LINE_ONES) \o OutAll(SwitchBits) \o IdleCycles
  /\ phase' = "end"
  /\ noisy' = 0 /\ misled' = FALSE /\ trusted' = FALSE
  /\ UNCHANGED <<got, cur, pins>>

\* init(): line reset, switch from JTAG, line reset, idle cycles.
InitLine ==
  /\ StartOp([kind |-> "init"])
  /\ out' = TRUE
  /\ todo' = Ones(LINE_ONES) \o OutAll(SwitchBits) \o Ones(LINE_ONES) \o IdleCycles
  /\ phase' = "end"
  /\ noisy' = 0 /\ misled' = FALSE /\ trusted' = FALSE
  /\ UNCHANGED <<got, cur, pins>>

\* swj_sequence(): the bits there are, count at most.  The host may leave the
\* chip anywhere with it.
SwjSequence(s) ==
  LET sent == SubSeq(s.bits, 1, IF s.count < Len(s.bits) THEN s.count ELSE Len(s.bits))
  IN  /\ StartOp([kind |-> "sequence"])
      /\ todo' = OutAll(sent)
      /\ phase' = "end"
      /\ trusted' = (trusted /\ \A i \in DOMAIN sent : sent[i] = 0)
      /\ UNCHANGED <<out, got, cur, pins, noisy, misled>>

\* swj_pins(): notes the level of the reset pin if it is selected.  No pin is
\* attached (set_reset of an Io without one), so the chip sees nothing.
SwjPins(selected, high) ==
  /\ StartOp([kind |-> "pins"])
  /\ pins' = IF selected THEN high ELSE pins
  /\ UNCHANGED <<out, todo, got, phase, cur, noisy, misled, trusted>>

-----------------------------------------------------------------------------
\* What the chip and the firmware see of the line in this cycle.
Enabled(c) == out /\ ~(c.do = "turn" /\ driving)

Line(c) ==
  IF Drives(chip) THEN Head(chip.send)
  ELSE IF Enabled(c) THEN (IF c.do = "write" THEN c.bit ELSE level) ELSE 1

\* Mutant of Collect: the first bit read becomes the highest.
CollectBackwards(bits, b) == <<b>> \o bits

\* read_u32(): the first bit read is the lowest.
Collect(bits, b) == Append(bits, b)

\* write_bit(), read_bit(), or turnaround(), in which the firmware lets go of
\* the line before the edge and takes it back after it.
Cycle(flip) ==
  /\ todo # <<>>
  /\ noise + flip <= MaxNoise
  /\ LET c == Head(todo)
         b == (Line(c) + flip) % 2
     IN  /\ level' = IF c.do = "write" THEN c.bit ELSE level
         /\ driving' = IF c.do = "turn" THEN ~driving ELSE driving
         /\ out' = IF c.do = "turn" THEN ~driving ELSE out
         /\ got' = IF c.do = "read" THEN Collect(got, b) ELSE got
         /\ chip' \in Edge(chip, b)
  /\ todo' = Tail(todo)
  /\ noise' = noise + flip /\ noisy' = noisy + flip
  /\ misled' = (misled \/ (flip = 1 /\ chip.st \in {"jtag", "lost", "reset", "idle"}))
  /\ UNCHANGED <<phase, op, cur, pins, result, ops, trusted>>

\* The acknowledgement is bad: the line is taken back at once.
FailTransfer(error) ==
  /\ todo' = <<Turn>> \o IdleCycles
  /\ phase' = "end"
  /\ result' = [st |-> error, word |-> <<>>]
  /\ trusted' = (trusted /\ error # "unknown")

\* transfer() looks at the three bits of the acknowledgement.
ReadAck ==
  /\ phase = "ack" /\ todo = <<>>
  /\ got' = <<>>
  /\ \/ /\ got = AckBits.ok /\ cur.rnw
        /\ todo' = Ins(W + 1) \o <<Turn>>
        /\ phase' = "data"
        /\ UNCHANGED <<result, trusted>>
     \/ /\ got = AckBits.ok /\ ~cur.rnw
        /\ todo' = <<Turn>> \o OutAll(cur.word) \o <<Out(Parity(cur.word))>> \o IdleCycles
        /\ phase' = "end"
        /\ result' = [st |-> "ok", word |-> cur.word]
        /\ UNCHANGED trusted
     \/ got = AckBits.wait /\ FailTransfer("wait")
     \/ got = AckBits.fault /\ FailTransfer("fault")
     \/ got \notin {AckBits[a] : a \in Acks} /\ FailTransfer("unknown")
  /\ UNCHANGED <<out, level, driving, op, cur, pins, chip, ops, faults>>

\* Mutant of ReadData: the parity bit is not compared.
ReadDataNoParity ==
  /\ phase = "data" /\ todo = <<>>
  /\ got' = <<>>
  /\ result' = [st |-> "ok", word |-> SubSeq(got, 1, W)]
  /\ todo' = IdleCycles
  /\ phase' = "end"
  /\ UNCHANGED <<out, level, driving, op, cur, pins, chip, ops, faults, trusted>>

\* A word has been read.  With a wrong parity transfer() returns at once,
\* without idle cycles.
ReadData ==
  /\ phase = "data" /\ todo = <<>>
  /\ got' = <<>>
  /\ IF got[W + 1] = Parity(SubSeq(got, 1, W))
       THEN /\ result' = [st |-> "ok", word |-> SubSeq(got, 1, W)]
            /\ todo' = IdleCycles
            /\ phase' = "end"
       ELSE /\ result' = [st |-> "parity", word |-> <<>>]
            /\ phase' = "idle"
            /\ UNCHANGED todo
  /\ UNCHANGED <<out, level, driving, op, cur, pins, chip, ops, faults, trusted>>

\* read_ap(): the AP read was acknowledged, its word is fetched from RDBUFF.
FetchPosted ==
  /\ phase = "end" /\ todo = <<>>
  /\ op.kind = "read_ap" /\ cur.ap /\ result.st = "ok"
  /\ StartTransfer(Rdbuff(cur.word))
  /\ UNCHANGED <<out, level, driving, op, pins, result, chip, ops, faults, trusted>>

\* The operation returns; init() notes that it drives the line.
EndOp ==
  /\ phase = "end" /\ todo = <<>>
  /\ ~(op.kind = "read_ap" /\ cur.ap /\ result.st = "ok")
  /\ phase' = "idle"
  /\ driving' = (driving \/ op.kind = "init")
  /\ trusted' = (trusted \/ op.kind = "init")
  /\ UNCHANGED <<out, level, todo, got, op, cur, pins, result, chip, ops, faults>>

\* The chip loses power, or is replaced, between two operations.
ChipRestarts ==
  /\ phase = "idle" /\ todo = <<>>
  /\ chip.st # "jtag"
  /\ chip' = NewChip("jtag")
  /\ trusted' = FALSE
  /\ UNCHANGED <<host, ops, faults>>

\* The bound on operations is reached.
Done == phase = "idle" /\ ops = MaxOps /\ UNCHANGED vars

Next ==
  \/ \E o \in Accesses : DoAccess(o)
  \/ InitLine
  \/ \E s \in Sequences : SwjSequence(s)
  \/ \E selected, high \in BOOLEAN : SwjPins(selected, high)
  \/ \E flip \in Bit : Cycle(flip)
  \/ ReadAck \/ ReadData \/ FetchPosted \/ EndOp
  \/ ChipRestarts
  \/ Done

Spec == Init /\ [][Next]_vars
-----------------------------------------------------------------------------
AtRest == phase = "idle" /\ todo = <<>>

\* At most one sample was flipped since init(), and not between requests.
OneFlip == noisy <= 1 /\ ~misled

(***************************************************************************)
(* Whatever an operation met, it leaves the line with the firmware, its    *)
(* driver enabled: the next request is really sent.  init() brings the     *)
(* chip to the start of a request from any state it may be in: in JTAG     *)
(* mode, lost, or half way through a word the firmware no longer waits     *)
(* for.  From then on firmware and chip are in step whenever an operation  *)
(* has ended, also when it failed, after a wrong parity without any idle   *)
(* cycle, and also with one flipped sample, until an acknowledgement was   *)
(* unreadable.                                                             *)
(***************************************************************************)
InStep ==
  AtRest =>
    /\ out /\ driving
    /\ trusted /\ OneFlip => chip.st = "idle"

(***************************************************************************)
(* The two ends never drive the line against each other, except after an   *)
(* acknowledgement the firmware could not read, when the chip may be in a  *)
(* data phase that the firmware does not wait for: one flipped sample in a *)
(* request or a word is not enough, nor is a request that follows a wrong  *)
(* parity at once.  A flip between requests is: it makes the chip hear a   *)
(* start bit too early or too late, and answer while the request is still  *)
(* being sent (turnaround, transfer).                                      *)
(***************************************************************************)
NoFight == out /\ Drives(chip) /\ OneFlip => ~trusted

Ended == AtRest /\ trusted /\ OneFlip /\ op.kind \in Kinds

(***************************************************************************)
(* The chip performs nothing but what the firmware asked for: with one     *)
(* flipped sample no other register is accessed, no other word written and *)
(* no access performed twice, while every acknowledgement was readable.    *)
(***************************************************************************)
OnlyTheRequest ==
  trusted /\ OneFlip /\ op.kind \in Kinds =>
    LET t == TransferOf(op)
    IN  /\ Len(chip.did) <= 2
        /\ \A i \in DOMAIN chip.did :
             LET d == chip.did[i]
             IN  IF i = 1 THEN d.ap = t.ap /\ d.rnw = t.rnw /\ d.addr = t.addr
                               /\ (~t.rnw => d.word = t.word)
                 ELSE op.kind = "read_ap" /\ ~d.ap /\ d.rnw /\ d.addr = 3

(***************************************************************************)
(* A read that succeeds returns the word the register held when the chip   *)
(* performed it, for an AP read the word behind the posted result, with up *)
(* to one flipped sample (transfer's parity check, read_ap's RDBUFF).      *)
(***************************************************************************)
ReadIsTrue ==
  Ended /\ result.st = "ok" /\ TransferOf(op).rnw =>
    /\ Len(chip.did) = IF op.kind = "read_ap" THEN 2 ELSE 1
    /\ result.word = chip.did[1].word

(***************************************************************************)
(* WAIT and FAULT mean that the transfer they answer was not performed: a  *)
(* retry repeats nothing.  Only an AP read whose RDBUFF read they answer   *)
(* was (exec_transfer relies on it).                                       *)
(***************************************************************************)
RefusalIsTrue ==
  Ended /\ result.st \in {"wait", "fault"} =>
    Len(chip.did) = IF op.kind = "read_ap" /\ ~cur.ap THEN 1 ELSE 0
=============================================================================
