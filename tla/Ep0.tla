-------------------------------- MODULE Ep0 --------------------------------
(***************************************************************************)
(* The control endpoint: usbip.rs ep0_control() over the hand-counted      *)
(* tables of descriptors.rs.  Of a string descriptor only the header and   *)
(* the length are kept.                                                    *)
(***************************************************************************)
EXTENDS Integers, SequencesExt

EPIPE == 32

VENDOR_LEN == 11
PRODUCT_LEN == 24
SERIAL_LEN == 18
INTERFACE_LEN == 12

DEVICE_DESCRIPTOR ==
  <<18, 1, 0, 2, 0, 0, 0, 64, 9, 18, 1, 0, 0, 2, 1, 2, 3, 1>>

\* Mutant of CONFIG_DESCRIPTOR: an endpoint was added, the total length not.
CONFIG_DESCRIPTOR_MISCOUNTED ==
  <<9, 2, 25, 0, 1, 1, 0, 128, 250>> \o <<9, 4, 0, 0, 2, 255, 0, 0, 4>>
    \o <<7, 5, 1, 2, 0, 2, 0>> \o <<7, 5, 129, 2, 0, 2, 0>>

\* Configuration, interface, EP1 OUT, EP1 IN.
CONFIG_DESCRIPTOR ==
  <<9, 2, 32, 0, 1, 1, 0, 128, 250>> \o <<9, 4, 0, 0, 2, 255, 0, 0, 4>>
    \o <<7, 5, 1, 2, 0, 2, 0>> \o <<7, 5, 129, 2, 0, 2, 0>>

StringDescriptor(len) ==
  [i \in 1 .. 2 + 2 * len |-> CASE i = 1 -> (2 + 2 * len) % 256 [] i = 2 -> 3 [] OTHER -> 0]

\* string_descriptor(): a set of at most one answer.
String(index) ==
  CASE index = 0 -> {<<4, 3, 9, 4>>}
    [] index = 1 -> {StringDescriptor(VENDOR_LEN)}
    [] index = 2 -> {StringDescriptor(PRODUCT_LEN)}
    [] index = 3 -> {StringDescriptor(SERIAL_LEN)}
    [] index = 4 -> {StringDescriptor(INTERFACE_LEN)}
    [] OTHER -> {}

\* The payloads the table of ep0_control() has for an IN request.
Payload(s) ==
  CASE s.type = 128 /\ s.request = 0 -> {<<0, 0>>}
    [] s.type = 128 /\ s.request = 6 /\ s.high = 1 -> {DEVICE_DESCRIPTOR}
    [] s.type = 128 /\ s.request = 6 /\ s.high = 2 -> {CONFIG_DESCRIPTOR}
    [] s.type = 128 /\ s.request = 6 /\ s.high = 3 -> String(s.low)
    [] s.type = 128 /\ s.request = 8 -> {<<1>>}
    [] s.type \in {129, 130} /\ s.request = 0 -> {<<0, 0>>}
    [] s.type = 128 /\ s.request = 10 -> {<<0>>}
    [] OTHER -> {}

Ok(data) == [status |-> 0, data |-> data]
Stall == [status |-> EPIPE, data |-> <<>>]

\* Mutant of Cut: the whole payload whatever was asked for.
CutNot(data, length) == data

Cut(data, length) == IF Len(data) <= length THEN data ELSE SubSeq(data, 1, length)

\* ep0_control(): the direction bit decides between the two tables.
Ep0Control(s) ==
  IF s.type >= 128
    THEN IF Payload(s) = {} THEN Stall
         ELSE Ok(Cut(CHOOSE p \in Payload(s) : TRUE, s.length))
    ELSE IF s.request \in {1, 3, 9, 11} THEN Ok(<<>>) ELSE Stall

Setup(type, request, high, low, length) ==
  [type |-> type, request |-> request, high |-> high, low |-> low, length |-> length]

GetDescriptor(kind, index, length) == Setup(128, 6, kind, index, length)

-----------------------------------------------------------------------------
\* What the USB core expects of a configuration: descriptors laid end to end,
\* as long together as announced; an interface with the endpoints it
\* announces; one bulk endpoint for each direction.
Starts[d \in Seq(0 .. 255), i \in Nat] ==
  IF i > Len(d) THEN {i} ELSE IF d[i] < 2 THEN {} ELSE {i} \cup Starts[d, i + d[i]]

Total(d) == d[3] + 256 * d[4]

GoodConfig(d) ==
  LET starts == Starts[d, 1] \ {Len(d) + 1}
      ends == {d[i + 2] : i \in {j \in starts : d[j + 1] = 5 /\ d[j + 3] = 2}}
  IN  /\ Len(d) + 1 \in Starts[d, 1]
      /\ Len(d) = Total(d)
      /\ \E i \in starts : d[i + 1] = 4 /\ d[i + 4] = 2
      /\ \E a, b \in ends : a < 128 /\ b = a + 128 /\ a > 0
=============================================================================
