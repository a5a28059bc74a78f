----------------------------- MODULE SwdProofs -----------------------------
(***************************************************************************)
(* Proofs about Swd: its five invariants hold for every width of a word,   *)
(* every length of the line reset and of the idle cycles within the        *)
(* assumptions, every set of accesses and any number of operations and     *)
(* flips.                                                                  *)
(*                                                                         *)
(* The argument, in the order of the module: what one flipped bit does to  *)
(* a word, a request and an acknowledgement (Near); what the chip may be   *)
(* in the middle of, kept by every edge (ChipOK); init(), cycle by cycle   *)
(* (Settling); the cycles an operation is made of, counted from its end;   *)
(* one transfer, cycle by cycle, at the chip (Hearing, AnswerIs, Sending,  *)
(* Taking); the firmware's half of the invariant (Host); both ends in step *)
(* (Lockstep); and that every action keeps all of it (Inv).                *)
(***************************************************************************)
EXTENDS Swd, FiniteSetTheorems, SequenceTheorems, TLAPS

\* s is what was taken for the start of t: at most one bit flipped, none if m = 0.
Near(s, t, m) ==
  /\ Len(s) <= Len(t)
  /\ m = 0 => \A i \in 1 .. Len(s) : s[i] = t[i]
  /\ \A i, j \in 1 .. Len(s) : s[i] # t[i] /\ s[j] # t[j] => i = j

\* A word as it goes over the line, and what a request asks for.
Coded(w) == Append(w, Parity(w))
AccessOf(t) == [ap |-> t.ap, rnw |-> t.rnw, addr |-> t.addr]
Transfers == [ap : BOOLEAN, rnw : BOOLEAN, addr : 0 .. 3, word : Words]

-----------------------------------------------------------------------------
\* The head and the tail of a sequence that is not empty.
LEMMA Shifted ==
  ASSUME NEW S, NEW s \in Seq(S), s # <<>>
  PROVE  /\ Len(s) \in Nat \ {0} /\ Head(s) = s[1] /\ s[1] \in S
         /\ Tail(s) \in Seq(S) /\ Len(Tail(s)) = Len(s) - 1
         /\ \A i \in 1 .. Len(s) - 1 : Tail(s)[i] = s[i + 1]
  OBVIOUS

\* One element more.
LEMMA Appended ==
  ASSUME NEW S, NEW s \in Seq(S), NEW e \in S
  PROVE  /\ Append(s, e) \in Seq(S)
         /\ Len(s) \in Nat /\ Len(Append(s, e)) = Len(s) + 1
         /\ Append(s, e)[Len(s) + 1] = e
         /\ \A i \in 1 .. Len(s) : Append(s, e)[i] = s[i]
  OBVIOUS

\* Two sequences one behind the other.
LEMMA Joined ==
  ASSUME NEW S, NEW s \in Seq(S), NEW t \in Seq(S)
  PROVE  /\ s \o t \in Seq(S) /\ Len(s \o t) = Len(s) + Len(t)
         /\ \A i \in 1 .. Len(s) : (s \o t)[i] = s[i]
         /\ \A i \in 1 .. Len(t) : (s \o t)[Len(s) + i] = t[i]
  OBVIOUS

\* The middle of a sequence.
LEMMA Middle ==
  ASSUME NEW S, NEW s \in Seq(S), NEW m \in Nat \ {0}, NEW n \in Nat, m <= n, n <= Len(s)
  PROVE  /\ SubSeq(s, m, n) \in Seq(S) /\ Len(SubSeq(s, m, n)) = n - m + 1
         /\ SubSeq(s, m, n) \in [1 .. n - m + 1 -> S]
         /\ \A i \in 1 .. n - m + 1 : SubSeq(s, m, n)[i] = s[m + i - 1]
  <1>1. \A i \in m .. n : s[i] \in S
    OBVIOUS
  <1>2. /\ SubSeq(s, m, n) \in Seq(S)
        /\ Len(SubSeq(s, m, n)) = IF m <= n THEN n - m + 1 ELSE 0
        /\ \A i \in 1 .. n - m + 1 : SubSeq(s, m, n)[i] = s[m + i - 1]
    BY <1>1, SubSeqProperties
  <1>3. Len(SubSeq(s, m, n)) = n - m + 1
    BY <1>2
  <1>4. SubSeq(s, m, n) \in [1 .. n - m + 1 -> S]
    BY <1>2, <1>3, LenProperties
  <1> QED
    BY <1>2, <1>3, <1>4

\* A word is a sequence of W bits.
LEMMA WordIsBits ==
  ASSUME NEW w \in Words
  PROVE  w \in Seq(Bit) /\ Len(w) = W /\ w \in [1 .. W -> Bit]
  <1>1. w \in [1 .. W -> Bit] /\ W \in Nat
    BY ChipAssumption
  <1> QED
    BY <1>1

-----------------------------------------------------------------------------
\* Parity is a bit.
LEMMA ParityIsBit ==
  ASSUME NEW n \in Nat, NEW s \in [1 .. n -> Bit]
  PROVE  /\ Parity(s) \in Bit
         /\ IsFiniteSet({i \in 1 .. n : s[i] = 1})
         /\ Cardinality({i \in 1 .. n : s[i] = 1}) \in Nat
         /\ Parity(s) = Cardinality({i \in 1 .. n : s[i] = 1}) % 2
  <1> DEFINE ones == {i \in 1 .. n : s[i] = 1}
  <1>1. IsFiniteSet(1 .. n)
    BY FS_Interval
  <1>2. IsFiniteSet(ones)
    <2>1. ones \in SUBSET (1 .. n)
      OBVIOUS
    <2> QED
      BY <1>1, <2>1, FS_Subset
  <1>3. Cardinality(ones) \in Nat
    BY <1>2, FS_CardinalityType
  <1>4. Parity(s) = Cardinality(ones) % 2
    <2>1. DOMAIN s = 1 .. n
      OBVIOUS
    <2> QED
      BY <2>1 DEF Parity
  <1>5. Cardinality(ones) % 2 \in 0 .. 1
    BY <1>3
  <1> QED
    BY <1>2, <1>3, <1>4, <1>5 DEF Bit

\* A one more makes the other parity.
LEMMA ParityOneMore ==
  ASSUME NEW n \in Nat, NEW s \in [1 .. n -> Bit], NEW t \in [1 .. n -> Bit], NEW k \in 1 .. n,
         s[k] = 1, t[k] = 0, \A i \in 1 .. n : i # k => s[i] = t[i]
  PROVE  Parity(s) # Parity(t)
  <1> DEFINE ones(f) == {i \in 1 .. n : f[i] = 1}
  <1>1. ones(s) = ones(t) \cup {k} /\ k \notin ones(t)
    OBVIOUS
  <1>2. IsFiniteSet(ones(t)) /\ Cardinality(ones(t)) \in Nat /\ Parity(t) = Cardinality(ones(t)) % 2
    BY ParityIsBit
  <1>3. Parity(s) = Cardinality(ones(s)) % 2
    BY ParityIsBit
  <1>4. Cardinality(ones(s)) = Cardinality(ones(t)) + 1
    <2>1. Cardinality(ones(t) \cup {k}) = IF k \in ones(t) THEN Cardinality(ones(t)) ELSE Cardinality(ones(t)) + 1
      BY <1>2, FS_AddElement
    <2> QED
      BY <1>1, <2>1
  <1>5. \A c \in Nat : (c + 1) % 2 # c % 2
    OBVIOUS
  <1> QED
    BY <1>2, <1>3, <1>4, <1>5

\* One flipped bit changes the parity.
LEMMA ParityFlipped ==
  ASSUME NEW n \in Nat, NEW s \in [1 .. n -> Bit], NEW t \in [1 .. n -> Bit], NEW k \in 1 .. n,
         s[k] # t[k], \A i \in 1 .. n : i # k => s[i] = t[i]
  PROVE  Parity(s) # Parity(t)
  <1>1. (s[k] = 1 /\ t[k] = 0) \/ (s[k] = 0 /\ t[k] = 1)
    <2>1. s[k] \in Bit /\ t[k] \in Bit
      OBVIOUS
    <2> QED
      BY <2>1 DEF Bit
  <1>2. CASE s[k] = 1 /\ t[k] = 0
    BY <1>2, ParityOneMore
  <1>3. CASE s[k] = 0 /\ t[k] = 1
    <2>1. \A i \in 1 .. n : i # k => t[i] = s[i]
      OBVIOUS
    <2> QED
      BY <1>3, <2>1, ParityOneMore
  <1> QED
    BY <1>1, <1>2, <1>3

\* The same for the four bits a request carries.
LEMMA FourFlipped ==
  ASSUME NEW s \in [1 .. 4 -> Bit], NEW t \in [1 .. 4 -> Bit], NEW k \in 1 .. 4,
         s[k] # t[k], \A i \in 1 .. 4 : i # k => s[i] = t[i]
  PROVE  Parity(s) # Parity(t)
  <1>1. 4 \in Nat
    OBVIOUS
  <1> QED
    BY <1>1, ParityFlipped

\* A word on the line.
LEMMA CodedWord ==
  ASSUME NEW w \in Words
  PROVE  /\ Coded(w) \in Seq(Bit) /\ Len(Coded(w)) = W + 1
         /\ Coded(w)[W + 1] = Parity(w) /\ Parity(w) \in Bit
         /\ \A i \in 1 .. W : Coded(w)[i] = w[i]
  <1>1. w \in Seq(Bit) /\ Len(w) = W /\ w \in [1 .. W -> Bit] /\ W \in Nat
    BY WordIsBits, ChipAssumption
  <1>2. Parity(w) \in Bit
    BY <1>1, ParityIsBit
  <1> QED
    BY <1>1, <1>2, Appended DEF Coded

\* With a right parity, what was taken for a word is the word.
LEMMA NearWord ==
  ASSUME NEW w \in Words, NEW s \in Seq(Bit), Len(s) = W + 1, NEW m, Near(s, Coded(w), m),
         s[W + 1] = Parity(SubSeq(s, 1, W))
  PROVE  SubSeq(s, 1, W) = w
  <1> DEFINE v == SubSeq(s, 1, W)
  <1>1. W \in Nat \ {0} /\ w \in [1 .. W -> Bit]
    BY ChipAssumption, WordIsBits
  <1>2. v \in [1 .. W -> Bit] /\ \A i \in 1 .. W : v[i] = s[i]
    BY <1>1, Middle
  <1>3. ASSUME NEW k \in 1 .. W, v[k] # w[k] PROVE FALSE
    <2>1. \A i \in 1 .. W + 1 : i # k => s[i] = Coded(w)[i]
      BY <1>1, <1>2, <1>3, CodedWord DEF Near
    <2>2. \A i \in 1 .. W : i # k => v[i] = w[i]
      BY <1>1, <1>2, <2>1, CodedWord
    <2>3. s[W + 1] = Parity(w)
      BY <1>1, <2>1, CodedWord
    <2>4. Parity(v) # Parity(w)
      BY <1>1, <1>2, <1>3, <2>2, ParityFlipped
    <2> QED
      BY <2>3, <2>4
  <1> QED
    BY <1>1, <1>2, <1>3

\* Without flips a word has the right parity.
LEMMA SameWord ==
  ASSUME NEW w \in Words, NEW s \in Seq(Bit), Len(s) = W + 1, Near(s, Coded(w), 0)
  PROVE  SubSeq(s, 1, W) = w /\ s[W + 1] = Parity(w)
  <1>1. W \in Nat \ {0} /\ w \in [1 .. W -> Bit]
    BY ChipAssumption, WordIsBits
  <1> DEFINE v == SubSeq(s, 1, W)
  <1>2. v \in [1 .. W -> Bit] /\ \A i \in 1 .. W : v[i] = s[i]
    BY <1>1, Middle
  <1>3. \A i \in 1 .. W + 1 : s[i] = Coded(w)[i]
    BY <1>1 DEF Near
  <1>4. \A i \in 1 .. W : v[i] = w[i]
    BY <1>1, <1>2, <1>3, CodedWord
  <1>5. v = w
    BY <1>1, <1>2, <1>4
  <1> QED
    BY <1>1, <1>3, <1>5, CodedWord

\* A bit more of what is taken for t.
LEMMA NearGrows ==
  ASSUME NEW s \in Seq(Bit), NEW t \in Seq(Bit), NEW m \in Bit, NEW flip \in Bit, m + flip <= 1,
         Near(s, t, m), Len(s) < Len(t), NEW b, b = (t[Len(s) + 1] + flip) % 2
  PROVE  /\ Near(Append(s, b), t, m + flip) /\ b \in Bit
         /\ Append(s, b) \in Seq(Bit) /\ Len(Append(s, b)) = Len(s) + 1
  <1>1. t[Len(s) + 1] \in Bit /\ b \in Bit /\ (flip = 0 => b = t[Len(s) + 1]) /\ Len(s) \in Nat
    BY DEF Bit
  <1>2. /\ Append(s, b) \in Seq(Bit) /\ Len(Append(s, b)) = Len(s) + 1
        /\ Append(s, b)[Len(s) + 1] = b
        /\ \A i \in 1 .. Len(s) : Append(s, b)[i] = s[i]
    BY <1>1, Appended
  <1>3. CASE flip = 0
    BY <1>1, <1>2, <1>3 DEF Near, Bit
  <1>4. CASE flip = 1
    <2>1. m = 0
      BY <1>4 DEF Bit
    <2>2. \A i \in 1 .. Len(s) : Append(s, b)[i] = t[i]
      BY <1>2, <2>1 DEF Near
    <2> QED
      BY <1>1, <1>2, <1>4, <2>1, <2>2 DEF Near
  <1> QED
    BY <1>1, <1>2, <1>3, <1>4 DEF Bit

-----------------------------------------------------------------------------
\* The eight bits of a request.
LEMMA RequestBits ==
  ASSUME NEW t \in Transfers
  PROVE  /\ Request(t) \in Seq(Bit) /\ Len(Request(t)) = 8
         /\ Request(t)[1] = 1
         /\ Request(t)[2] = BitOf(t.ap) /\ Request(t)[3] = BitOf(t.rnw)
         /\ Request(t)[4] = t.addr % 2 /\ Request(t)[5] = t.addr \div 2
         /\ Request(t)[6] = Parity(<<BitOf(t.ap), BitOf(t.rnw), t.addr % 2, t.addr \div 2>>)
         /\ Request(t)[7] = 0 /\ Request(t)[8] = 1
         /\ <<BitOf(t.ap), BitOf(t.rnw), t.addr % 2, t.addr \div 2>> \in [1 .. 4 -> Bit]
  <1> DEFINE payload == <<BitOf(t.ap), BitOf(t.rnw), t.addr % 2, t.addr \div 2>>
             q == Parity(payload)
  <1>1. t.ap \in BOOLEAN /\ t.rnw \in BOOLEAN /\ t.addr \in 0 .. 3
    BY DEF Transfers
  <1>2. BitOf(t.ap) \in Bit /\ BitOf(t.rnw) \in Bit /\ t.addr % 2 \in Bit /\ t.addr \div 2 \in Bit
    BY <1>1 DEF BitOf, Bit
  <1> HIDE DEF Bit
  <1>3. payload \in Seq(Bit) /\ Len(payload) = 4 /\ payload \in [1 .. 4 -> Bit]
    BY <1>2
  <1>4. q \in Bit
    BY <1>3, ParityIsBit
  <1>5. 0 \in Bit /\ 1 \in Bit
    BY DEF Bit
  <1>6. << 1 >> \in Seq(Bit) /\ <<q, 0, 1>> \in Seq(Bit) /\ Len(<< 1 >>) = 1 /\ Len(<<q, 0, 1>>) = 3
    BY <1>4, <1>5
  <1> DEFINE start == << 1 >>
             check == <<q, 0, 1>>
  <1> HIDE DEF payload, q
  <1>16. start[1] = 1 /\ check[1] = q /\ check[2] = 0 /\ check[3] = 1
    OBVIOUS
  <1>17. start \in Seq(Bit) /\ Len(start) = 1 /\ check \in Seq(Bit) /\ Len(check) = 3
    BY <1>6 DEF payload, q
  <1> HIDE DEF start, check
  <1> DEFINE front == start \o payload
             whole == front \o check
  <1>7. /\ front \in Seq(Bit) /\ Len(front) = Len(start) + Len(payload)
        /\ \A i \in 1 .. Len(start) : front[i] = start[i]
        /\ \A i \in 1 .. Len(payload) : front[Len(start) + i] = payload[i]
    <2>1. start \in Seq(Bit) /\ payload \in Seq(Bit)
      BY <1>3, <1>17
    <2> QED
      BY <2>1, Joined
  <1> HIDE DEF front
  <1>8. /\ whole \in Seq(Bit) /\ Len(whole) = Len(front) + Len(check)
        /\ \A i \in 1 .. Len(front) : whole[i] = front[i]
        /\ \A i \in 1 .. Len(check) : whole[Len(front) + i] = check[i]
    <2>1. front \in Seq(Bit) /\ check \in Seq(Bit)
      BY <1>7, <1>17
    <2> QED
      BY <2>1, Joined
  <1> HIDE DEF whole
  <1>9. Request(t) = whole
    BY DEF Request, payload, q, start, check, front, whole
  <1>10. /\ payload[1] = BitOf(t.ap) /\ payload[2] = BitOf(t.rnw)
         /\ payload[3] = t.addr % 2 /\ payload[4] = t.addr \div 2
    BY DEF payload
  <1>11. front[1] = start[1] /\ Len(front) = 5 /\ \A i \in 1 .. 4 : front[1 + i] = payload[i]
    BY <1>3, <1>7, <1>17
  <1>12. Len(whole) = 8 /\ whole[1] = 1 /\ whole[6] = q /\ whole[7] = 0 /\ whole[8] = 1
    <2>1. \A i \in 1 .. 3 : whole[5 + i] = check[i]
      BY <1>8, <1>11, <1>17
    <2>2. whole[6] = check[1] /\ whole[7] = check[2] /\ whole[8] = check[3]
      BY <2>1
    <2>3. Len(whole) = 8 /\ whole[1] = front[1]
      BY <1>8, <1>11, <1>17
    <2> QED
      BY <1>11, <1>16, <2>2, <2>3
  <1>13. payload = <<BitOf(t.ap), BitOf(t.rnw), t.addr % 2, t.addr \div 2>> /\ q = Parity(payload)
    BY DEF payload, q
  <1>14. \A i \in 2 .. 5 : whole[i] = front[i]
    BY <1>8, <1>11
  <1>15. whole[2] = payload[1] /\ whole[3] = payload[2] /\ whole[4] = payload[3] /\ whole[5] = payload[4]
    BY <1>11, <1>14
  <1> QED
    BY <1>3, <1>8, <1>9, <1>10, <1>12, <1>13, <1>15

\* A request that was heard with at most one flip is refused or is the request sent.
LEMMA NearRequest ==
  ASSUME NEW t \in Transfers, NEW b \in Seq(Bit), Len(b) = 8, NEW m, Near(b, Request(t), m)
  PROVE  /\ WellFormed(b) => Access(b) = AccessOf(t)
         /\ m = 0 => WellFormed(b)
  <1> DEFINE p == SubSeq(b, 2, 5)
             q == <<BitOf(t.ap), BitOf(t.rnw), t.addr % 2, t.addr \div 2>>
  <1>1. p \in [1 .. 4 -> Bit] /\ p[1] = b[2] /\ p[2] = b[3] /\ p[3] = b[4] /\ p[4] = b[5]
    <2>1. /\ p \in [1 .. 5 - 2 + 1 -> Bit] /\ \A i \in 1 .. 5 - 2 + 1 : p[i] = b[2 + i - 1]
      BY Middle
    <2> QED
      BY <2>1
  <1>2. q \in [1 .. 4 -> Bit] /\ Request(t)[6] = Parity(q)
    BY RequestBits
  <1>3. q[1] = BitOf(t.ap) /\ q[2] = BitOf(t.rnw) /\ q[3] = t.addr % 2 /\ q[4] = t.addr \div 2
    OBVIOUS
  <1>4. \A i \in 1 .. 4 : Request(t)[i + 1] = q[i] /\ p[i] = b[i + 1]
    BY <1>1, <1>3, RequestBits
  <1> HIDE DEF p, q
  <1>5. CASE p = q
    <2>1. b[2] = BitOf(t.ap) /\ b[3] = BitOf(t.rnw) /\ b[4] = t.addr % 2 /\ b[5] = t.addr \div 2
      BY <1>1, <1>3, <1>5
    <2>2. t.ap \in BOOLEAN /\ t.rnw \in BOOLEAN /\ t.addr \in 0 .. 3
      BY DEF Transfers
    <2>3. (b[2] = 1) = t.ap /\ (b[3] = 1) = t.rnw
      BY <2>1, <2>2 DEF BitOf
    <2>4. b[4] + 2 * b[5] = t.addr
      BY <2>1, <2>2
    <2>5. Access(b) = AccessOf(t)
      BY <2>3, <2>4 DEF Access, AccessOf
    <2>6. ASSUME m = 0 PROVE WellFormed(b)
      <3>1. \A i \in 1 .. 8 : b[i] = Request(t)[i]
        BY <2>6 DEF Near
      <3>2. Request(t)[7] = 0 /\ Request(t)[8] = 1
        BY RequestBits
      <3>3. b[6] = Parity(q) /\ b[7] = 0 /\ b[8] = 1
        BY <3>1, <3>2, <1>2
      <3> QED
        BY <1>5, <3>3 DEF WellFormed, p
    <2> QED
      BY <2>5, <2>6
  <1>6. CASE p # q
    <2>1. PICK k \in 1 .. 4 : p[k] # q[k]
      BY <1>1, <1>2, <1>6
    <2>2. b[k + 1] # Request(t)[k + 1]
      BY <1>4, <2>1
    <2>3. \A i \in 1 .. 8 : i # k + 1 => b[i] = Request(t)[i]
      <3>1. \A i, j \in 1 .. 8 : b[i] # Request(t)[i] /\ b[j] # Request(t)[j] => i = j
        BY DEF Near
      <3>2. k + 1 \in 1 .. 8
        OBVIOUS
      <3> QED
        BY <2>2, <3>1, <3>2
    <2>4. \A i \in 1 .. 4 : i # k => p[i] = q[i]
      BY <1>4, <2>3
    <2>5. Parity(p) # Parity(q)
      <3>1. p \in [1 .. 4 -> Bit] /\ q \in [1 .. 4 -> Bit]
        BY <1>1, <1>2
      <3> QED
        BY <2>1, <2>4, <3>1, FourFlipped
    <2>6. b[6] = Parity(q)
      BY <1>2, <2>3
    <2>7. ~WellFormed(b)
      BY <2>5, <2>6 DEF WellFormed, p
    <2>8. m # 0
      BY <2>2, RequestBits DEF Near
    <2> QED
      BY <2>7, <2>8
  <1> QED
    BY <1>5, <1>6

EightOnes == <<1, 1, 1, 1, 1, 1, 1, 1>>

\* Eight ones are no request, and no flip makes one of them.
LEMMA OnesAreNoRequest ==
  ASSUME NEW b \in Seq(Bit), Len(b) = 8, NEW m, Near(b, EightOnes, m)
  PROVE  ~WellFormed(b)
  <1> SUFFICES ASSUME b[7] = 0, b[6] = Parity(SubSeq(b, 2, 5)) PROVE FALSE
    BY DEF WellFormed
  <1> DEFINE p == SubSeq(b, 2, 5)
  <1>1. \A i \in 1 .. 8 : EightOnes[i] = 1
    BY DEF EightOnes
  <1>2. \A i \in 1 .. 8 : i # 7 => b[i] = 1
    BY <1>1 DEF Near
  <1>3. p \in [1 .. 4 -> Bit] /\ \A i \in 1 .. 4 : p[i] = 1
    <2>1. /\ p \in [1 .. 5 - 2 + 1 -> Bit] /\ \A i \in 1 .. 5 - 2 + 1 : p[i] = b[2 + i - 1]
      BY Middle
    <2> QED
      BY <1>2, <2>1
  <1>4. {i \in 1 .. 4 : p[i] = 1} = 1 .. 4
    BY <1>3
  <1>5. Cardinality(1 .. 4) = 4
    <2>1. Cardinality(1 .. 4) = IF 1 > 4 THEN 0 ELSE 4 - 1 + 1
      <3>1. 1 \in Int /\ 4 \in Int
        OBVIOUS
      <3> QED
        BY <3>1, FS_Interval
    <2> QED
      BY <2>1
  <1>6. Parity(p) = 4 % 2
    BY <1>3, <1>4, <1>5, ParityIsBit
  <1> QED
    BY <1>2, <1>6

\* The acknowledgements differ in two bits from each other.
LEMMA AckFacts ==
  /\ Acks = {"ok", "wait", "fault"}
  /\ \A a \in Acks : AckBits[a] \in Seq(Bit) /\ Len(AckBits[a]) = 3
  /\ \A a \in Acks : AckBits[a] # <<1, 1, 1>>
  /\ AckBits["ok"] = <<1, 0, 0>> /\ AckBits["wait"] = <<0, 1, 0>> /\ AckBits["fault"] = <<0, 0, 1>>
  /\ AckBits.ok = AckBits["ok"] /\ AckBits.wait = AckBits["wait"] /\ AckBits.fault = AckBits["fault"]
  <1>1. Acks = {"ok", "wait", "fault"}
    BY DEF Acks, AckBits
  <1>2. AckBits["ok"] = <<1, 0, 0>> /\ AckBits["wait"] = <<0, 1, 0>> /\ AckBits["fault"] = <<0, 0, 1>>
    BY DEF AckBits
  <1>3. <<1, 0, 0>> \in Seq(Bit) /\ <<0, 1, 0>> \in Seq(Bit) /\ <<0, 0, 1>> \in Seq(Bit)
    BY DEF Bit
  <1>4. AckBits.ok = AckBits["ok"] /\ AckBits.wait = AckBits["wait"] /\ AckBits.fault = AckBits["fault"]
    BY DEF AckBits
  <1>7. Len(<<1, 0, 0>>) = 3 /\ Len(<<0, 1, 0>>) = 3 /\ Len(<<0, 0, 1>>) = 3
    OBVIOUS
  <1>5. ASSUME NEW a \in Acks PROVE AckBits[a] \in Seq(Bit) /\ Len(AckBits[a]) = 3
    <2>1. CASE a = "ok"
      BY <1>2, <1>3, <1>7, <2>1
    <2>2. CASE a = "wait"
      BY <1>2, <1>3, <1>7, <2>2
    <2>3. CASE a = "fault"
      BY <1>2, <1>3, <1>7, <2>3
    <2> QED
      BY <1>1, <2>1, <2>2, <2>3
  <1>6. \A a \in Acks : AckBits[a] # <<1, 1, 1>>
    BY <1>1, <1>2
  <1> QED
    BY <1>1, <1>2, <1>4, <1>5, <1>6

\* An acknowledgement that was read with at most one flip is the one sent, or none.
LEMMA NearAck ==
  ASSUME NEW a \in Acks, NEW b \in Acks, NEW m, Near(AckBits[b], AckBits[a], m)
  PROVE  a = b
  <1>1. \A i, j \in 1 .. 3 : AckBits[b][i] # AckBits[a][i] /\ AckBits[b][j] # AckBits[a][j] => i = j
    BY AckFacts DEF Near
  <1> SUFFICES ASSUME a # b PROVE FALSE
    OBVIOUS
  <1>2. \E i, j \in 1 .. 3 : i # j /\ AckBits[b][i] # AckBits[a][i] /\ AckBits[b][j] # AckBits[a][j]
    <2>1. CASE (a = "ok" /\ b = "wait") \/ (a = "wait" /\ b = "ok")
      <3>1. AckBits[b][1] # AckBits[a][1] /\ AckBits[b][2] # AckBits[a][2]
        BY <2>1, AckFacts
      <3> QED
        BY <3>1
    <2>2. CASE (a = "ok" /\ b = "fault") \/ (a = "fault" /\ b = "ok")
      <3>1. AckBits[b][1] # AckBits[a][1] /\ AckBits[b][3] # AckBits[a][3]
        BY <2>2, AckFacts
      <3> QED
        BY <3>1
    <2>3. CASE (a = "wait" /\ b = "fault") \/ (a = "fault" /\ b = "wait")
      <3>1. AckBits[b][2] # AckBits[a][2] /\ AckBits[b][3] # AckBits[a][3]
        BY <2>3, AckFacts
      <3> QED
        BY <3>1
    <2> QED
      BY <2>1, <2>2, <2>3, AckFacts
  <1> QED
    BY <1>1, <1>2

-----------------------------------------------------------------------------
\* What a chip may be in the middle of, whatever the line has done to it.
ReadTail(c) == IF c.ack = "ok" /\ c.access.rnw THEN W + 1 ELSE 0
WriteTail(c) == IF c.ack = "ok" /\ ~c.access.rnw THEN W + 1 ELSE 0

ChipOK(c) ==
  /\ c \in Chips
  /\ c.n <= 15
  /\ c.st = "reset" => c.n <= 1
  /\ c.st = "request" => Len(c.bits) \in 1 .. 7
  /\ c.st = "data" => Len(c.bits) \in 0 .. W
  /\ c.st \in {"turn", "drive", "back"} => c.bits = <<>>
  /\ c.st \in {"turn", "drive"} => Len(c.send) \in 1 .. 3 + ReadTail(c)
  /\ c.ones = ResetOnes => c.st \in {"jtag", "reset", "lost"}

Done1 == [ap : BOOLEAN, rnw : BOOLEAN, addr : 0 .. 3, word : Words]

\* What only a transfer changes.
Same(c, d) == d.access = c.access /\ d.ack = c.ack /\ d.posted = c.posted /\ d.did = c.did

OnesAfter(c, b) == IF b = 0 THEN 0 ELSE IF c.ones = ResetOnes THEN ResetOnes ELSE c.ones + 1

IsReset(c, d) == d.st = "reset" /\ d.n = 0 /\ d.ones = ResetOnes /\ d.bits = <<>> /\ d.send = c.send /\ Same(c, d)

\* The fields of a chip.
LEMMA ChipFields ==
  ASSUME NEW c \in Chips
  PROVE  /\ c.st \in ChipStates /\ c.n \in 0 .. 16 /\ c.ones \in 0 .. ResetOnes
         /\ c.bits \in Seq(Bit) /\ c.send \in Seq(Bit)
         /\ c.access \in [ap : BOOLEAN, rnw : BOOLEAN, addr : 0 .. 3]
         /\ c.ack \in Acks /\ c.posted \in Words /\ c.did \in Seq(Done1)
         /\ DOMAIN c = {"st", "n", "ones", "bits", "send", "access", "ack", "posted", "did"}
  BY DEF Chips, Done1

LEMMA OnesType ==
  ASSUME NEW c \in Chips, NEW b \in Bit
  PROVE  /\ OnesAfter(c, b) \in 0 .. ResetOnes
         /\ OnesAfter(c, b) <= c.ones + 1
  BY ChipAssumption DEF Chips, OnesAfter

LEMMA FromTurn ==
  ASSUME NEW c \in Chips, c.st = "turn", NEW b \in Bit, NEW d \in Edge(c, b)
  PROVE  /\ d \in Chips /\ d.st = "drive" /\ d.n = c.n /\ d.ones = 0
         /\ d.bits = c.bits /\ d.send = c.send /\ Same(c, d)
  <1>1. d = [c EXCEPT !.st = "drive", !.ones = 0]
    BY Zenon DEF Edge
  <1>2. "drive" \in ChipStates /\ 0 \in 0 .. ResetOnes
    BY ChipAssumption DEF ChipStates
  <1> QED
    BY <1>1, <1>2 DEF Chips, Same

LEMMA FromDrive ==
  ASSUME NEW c \in Chips, c.st = "drive", Len(c.send) >= 1, NEW b \in Bit, NEW d \in Edge(c, b)
  PROVE  /\ d \in Chips /\ d.st = (IF Len(c.send) = 1 THEN "back" ELSE "drive") /\ d.n = c.n
         /\ d.ones = c.ones /\ d.bits = c.bits /\ d.send = Tail(c.send) /\ Same(c, d)
  <1>1. d = [c EXCEPT !.send = Tail(@), !.st = IF Len(c.send) = 1 THEN "back" ELSE "drive"]
    BY Zenon DEF Edge
  <1>2. "drive" \in ChipStates /\ "back" \in ChipStates
    BY DEF ChipStates
  <1>3. Tail(c.send) \in Seq(Bit)
    <2>1. c.send \in Seq(Bit) /\ c.send # <<>>
      BY ChipFields
    <2> QED
      BY <2>1, Shifted
  <1> QED
    BY <1>1, <1>2, <1>3 DEF Chips, Same

LEMMA FromBack ==
  ASSUME NEW c \in Chips, c.st = "back", NEW b \in Bit, NEW d \in Edge(c, b)
  PROVE  /\ d \in Chips /\ d.st = (IF c.ack = "ok" /\ ~c.access.rnw THEN "data" ELSE "idle")
         /\ d.n = c.n /\ d.ones = c.ones /\ d.bits = c.bits /\ d.send = c.send /\ Same(c, d)
  <1>1. d = [c EXCEPT !.st = IF c.ack = "ok" /\ ~c.access.rnw THEN "data" ELSE "idle"]
    BY Zenon DEF Edge
  <1>2. "data" \in ChipStates /\ "idle" \in ChipStates
    BY DEF ChipStates
  <1> QED
    BY <1>1, <1>2 DEF Chips, Same

\* How much of the switch sequence has been recognised with one more bit.
Recognised(c, b) ==
  IF (c.n > 0 \/ c.ones = ResetOnes) /\ b = SwitchBits[c.n + 1] THEN c.n + 1 ELSE 0

LEMMA FromJtag ==
  ASSUME NEW c \in Chips, c.st = "jtag", c.n \in 0 .. 15, NEW b \in Bit, NEW d \in Edge(c, b)
  PROVE  /\ Recognised(c, b) \in 0 .. 16
         /\ d \in Chips /\ d.st = (IF Recognised(c, b) = 16 THEN "lost" ELSE "jtag")
         /\ d.n = (IF Recognised(c, b) = 16 THEN 0 ELSE Recognised(c, b))
         /\ d.ones = OnesAfter(c, b) /\ d.bits = c.bits /\ d.send = c.send /\ Same(c, d)
  <1> DEFINE n == Recognised(c, b)
             e == [c EXCEPT !.n = IF n = 16 THEN 0 ELSE n, !.st = IF n = 16 THEN "lost" ELSE "jtag"]
  <1>1. SampleJtag(c, b) = {e}
    BY Zenon DEF SampleJtag, Recognised
  <1>2. Edge(c, b) = {[f EXCEPT !.ones = OnesAfter(c, b)] : f \in SampleJtag(c, b)}
    BY Zenon DEF Edge, OnesAfter
  <1>3. d = [e EXCEPT !.ones = OnesAfter(c, b)]
    BY <1>1, <1>2
  <1>4. "lost" \in ChipStates /\ "jtag" \in ChipStates
    BY DEF ChipStates
  <1>5. n \in 0 .. 16
    <2>1. c.n \in 0 .. 15
      BY DEF Chips
    <2> QED
      BY <2>1 DEF Recognised
  <1> HIDE DEF n
  <1> DEFINE m == IF n = 16 THEN 0 ELSE n
             st == IF n = 16 THEN "lost" ELSE "jtag"
  <1>8. m \in 0 .. 16 /\ st \in ChipStates
    BY <1>4, <1>5
  <1>9. e = [c EXCEPT !.n = m, !.st = st]
    OBVIOUS
  <1> HIDE DEF m, st, e
  <1>6. /\ e \in Chips /\ e.ones = c.ones /\ e.bits = c.bits /\ e.send = c.send /\ Same(c, e)
        /\ e.st = st /\ e.n = m
    BY <1>8, <1>9 DEF Chips, Same
  <1>7. /\ d \in Chips /\ d.ones = OnesAfter(c, b) /\ d.bits = e.bits /\ d.send = e.send /\ Same(e, d)
        /\ d.st = e.st /\ d.n = e.n
    BY <1>3, <1>6, OnesType DEF Chips, Same
  <1> QED
    BY <1>5, <1>6, <1>7 DEF n, m, st, Same

Listening == {"lost", "reset", "idle", "request", "data"}

\* A port out of JTAG mode: a line reset, or the bit is sampled.
LEMMA FromListening ==
  ASSUME NEW c \in Chips, c.st \in Listening, NEW b \in Bit, NEW d \in Edge(c, b)
  PROVE  \/ OnesAfter(c, b) = ResetOnes /\ IsReset(c, d) /\ d \in Chips
         \/ /\ OnesAfter(c, b) # ResetOnes
            /\ \E e \in Chips :
                 /\ d \in Sample(e, b)
                 /\ e.st = c.st /\ e.n = c.n /\ e.ones = OnesAfter(c, b)
                 /\ e.bits = c.bits /\ e.send = c.send /\ Same(c, e)
  <1> DEFINE ones == OnesAfter(c, b)
             e == [c EXCEPT !.ones = ones]
  <1>1. /\ ones = ResetOnes => Edge(c, b) = {[c EXCEPT !.st = "reset", !.n = 0, !.ones = ones, !.bits = <<>>]}
        /\ ones # ResetOnes => Edge(c, b) = Sample(e, b)
    BY Zenon DEF Edge, OnesAfter, Listening
  <1>2. ones \in 0 .. ResetOnes
    BY OnesType
  <1>3. "reset" \in ChipStates /\ <<>> \in Seq(Bit) /\ 0 \in 0 .. 16
    BY DEF ChipStates
  <1>4. CASE ones = ResetOnes
    <2>1. d = [c EXCEPT !.st = "reset", !.n = 0, !.ones = ones, !.bits = <<>>]
      BY <1>1, <1>4
    <2> QED
      BY <1>2, <1>3, <1>4, <2>1 DEF Chips, Same, IsReset
  <1>5. CASE ones # ResetOnes
    <2>1. d \in Sample(e, b)
      BY <1>1, <1>5
    <2>2. /\ e \in Chips /\ e.st = c.st /\ e.n = c.n /\ e.ones = ones
          /\ e.bits = c.bits /\ e.send = c.send /\ Same(c, e)
      BY <1>2 DEF Chips, Same
    <2> QED
      BY <1>5, <2>1, <2>2
  <1> QED
    BY <1>4, <1>5

LEMMA FromLost ==
  ASSUME NEW c \in Chips, c.st = "lost", NEW b \in Bit, NEW d \in Edge(c, b)
  PROVE  \/ OnesAfter(c, b) = ResetOnes /\ IsReset(c, d) /\ d \in Chips
         \/ /\ OnesAfter(c, b) # ResetOnes
            /\ d \in Chips /\ d.st = "lost" /\ d.n = c.n /\ d.ones = OnesAfter(c, b)
            /\ d.bits = c.bits /\ d.send = c.send /\ Same(c, d)
  <1>1. c.st \in Listening
    BY DEF Listening
  <1>2. CASE OnesAfter(c, b) = ResetOnes
    BY <1>1, <1>2, FromListening
  <1>3. CASE OnesAfter(c, b) # ResetOnes
    <2>1. PICK e \in Chips :
            /\ d \in Sample(e, b)
            /\ e.st = c.st /\ e.n = c.n /\ e.ones = OnesAfter(c, b)
            /\ e.bits = c.bits /\ e.send = c.send /\ Same(c, e)
      BY <1>1, <1>3, FromListening
    <2>2. e.st = "lost"
      BY <2>1
    <2>3. d = e
      BY <2>1, <2>2, Zenon DEF Sample
    <2> QED
      BY <1>3, <2>1, <2>3
  <1> QED
    BY <1>2, <1>3

LEMMA FromReset ==
  ASSUME NEW c \in Chips, c.st = "reset", NEW b \in Bit, NEW d \in Edge(c, b)
  PROVE  \/ OnesAfter(c, b) = ResetOnes /\ IsReset(c, d) /\ d \in Chips
         \/ /\ OnesAfter(c, b) # ResetOnes
            /\ d \in Chips /\ d.ones = OnesAfter(c, b)
            /\ d.st = (IF b = 1 THEN "lost" ELSE IF c.n = 1 THEN "idle" ELSE "reset")
            /\ d.n = (IF b = 0 /\ c.n = 0 THEN 1 ELSE 0)
            /\ d.bits = c.bits /\ d.send = c.send /\ Same(c, d)
  <1>1. c.st \in Listening
    BY DEF Listening
  <1>2. CASE OnesAfter(c, b) = ResetOnes
    BY <1>1, <1>2, FromListening
  <1>3. CASE OnesAfter(c, b) # ResetOnes
    <2>1. PICK e \in Chips :
            /\ d \in Sample(e, b)
            /\ e.st = c.st /\ e.n = c.n /\ e.ones = OnesAfter(c, b)
            /\ e.bits = c.bits /\ e.send = c.send /\ Same(c, e)
      BY <1>1, <1>3, FromListening
    <2>2. e.st = "reset"
      BY <2>1
    <2> DEFINE st == IF b = 1 THEN "lost" ELSE IF e.n = 1 THEN "idle" ELSE "reset"
               n == IF b = 0 /\ e.n = 0 THEN 1 ELSE 0
    <2>3. Sample(e, b) = {[e EXCEPT !.st = st, !.n = n]}
      BY <2>2, Zenon DEF Sample
    <2>4. d = [e EXCEPT !.st = st, !.n = n]
      BY <2>1, <2>3
    <2>5. st \in ChipStates /\ n \in 0 .. 16
      BY DEF ChipStates
    <2> HIDE DEF st, n
    <2>6. /\ d \in Chips /\ d.st = st /\ d.n = n /\ d.ones = e.ones
          /\ d.bits = e.bits /\ d.send = e.send /\ Same(e, d)
      BY <2>4, <2>5 DEF Chips, Same
    <2> QED
      BY <1>3, <2>1, <2>6 DEF Same, st, n
  <1> QED
    BY <1>2, <1>3

LEMMA FromIdle ==
  ASSUME NEW c \in Chips, c.st = "idle", NEW b \in Bit, NEW d \in Edge(c, b)
  PROVE  \/ OnesAfter(c, b) = ResetOnes /\ IsReset(c, d) /\ d \in Chips
         \/ /\ OnesAfter(c, b) # ResetOnes
            /\ d \in Chips /\ d.n = c.n /\ d.ones = OnesAfter(c, b) /\ d.send = c.send /\ Same(c, d)
            /\ b = 1 => d.st = "request" /\ d.bits = << 1 >>
            /\ b = 0 => d.st = "idle"
  <1>1. c.st \in Listening
    BY DEF Listening
  <1>2. CASE OnesAfter(c, b) = ResetOnes
    BY <1>1, <1>2, FromListening
  <1>3. CASE OnesAfter(c, b) # ResetOnes
    <2>1. PICK e \in Chips :
            /\ d \in Sample(e, b)
            /\ e.st = c.st /\ e.n = c.n /\ e.ones = OnesAfter(c, b)
            /\ e.bits = c.bits /\ e.send = c.send /\ Same(c, e)
      BY <1>1, <1>3, FromListening
    <2>2. e.st = "idle"
      BY <2>1
    <2>3. Sample(e, b) = {IF b = 1 THEN [e EXCEPT !.st = "request", !.bits = << 1 >>] ELSE e}
      BY <2>2, Zenon DEF Sample
    <2>4. CASE b = 1
      <3>1. d = [e EXCEPT !.st = "request", !.bits = << 1 >>]
        BY <2>1, <2>3, <2>4
      <3>2. "request" \in ChipStates /\ << 1 >> \in Seq(Bit)
        BY DEF ChipStates, Bit
      <3>3. /\ d \in Chips /\ d.st = "request" /\ d.bits = << 1 >> /\ d.n = e.n /\ d.ones = e.ones
            /\ d.send = e.send /\ Same(e, d)
        BY <3>1, <3>2 DEF Chips, Same
      <3> QED
        BY <1>3, <2>1, <2>4, <3>3 DEF Same
    <2>5. CASE b # 1
      <3>1. d = e
        BY <2>1, <2>3, <2>5
      <3> QED
        BY <1>3, <2>1, <2>2, <2>5, <3>1
    <2> QED
      BY <2>4, <2>5
  <1> QED
    BY <1>2, <1>3

\* How a transfer ends up in the history.
Acked(a, word) == [ap |-> a.ap, rnw |-> a.rnw, addr |-> a.addr, word |-> word]

\* The answer to a request: the bits to send and what is noted of an access.
IsAnswer(c, d, a) ==
  /\ d.st = "turn" /\ d.bits = <<>> /\ d.access = a /\ d.ack \in Acks
  /\ \/ ~(d.ack = "ok" /\ a.rnw) /\ d.send = AckBits[d.ack] /\ d.posted = c.posted /\ d.did = c.did
     \/ /\ d.ack = "ok" /\ a.rnw
        /\ \E held \in Words :
             /\ ~a.ap /\ a.addr = 3 => held = c.posted
             /\ d.posted = IF a.ap THEN held ELSE c.posted
             /\ d.did = Append(c.did, Acked(a, held))
             /\ d.send = AckBits["ok"] \o Coded(IF a.ap THEN c.posted ELSE held)

LEMMA AccessType ==
  ASSUME NEW b \in Seq(Bit), Len(b) = 8
  PROVE  Access(b) \in [ap : BOOLEAN, rnw : BOOLEAN, addr : 0 .. 3]
  <1>1. b[4] \in 0 .. 1 /\ b[5] \in 0 .. 1
    <2>1. b[4] \in Bit /\ b[5] \in Bit
      OBVIOUS
    <2> QED
      BY <2>1 DEF Bit
  <1>2. b[4] + 2 * b[5] \in 0 .. 3
    BY <1>1
  <1> QED
    BY <1>2 DEF Access

\* A well formed request gets one of the three answers.
LEMMA Answered ==
  ASSUME NEW c \in Chips, NEW a \in [ap : BOOLEAN, rnw : BOOLEAN, addr : 0 .. 3], NEW ack \in Acks,
         c.bits = <<>>, NEW d \in Answers(c, a, ack)
  PROVE  d \in Chips /\ IsAnswer(c, d, a) /\ d.n = c.n /\ d.ones = c.ones
  <1> DEFINE heard == [c EXCEPT !.st = "turn", !.access = a, !.ack = ack, !.send = AckBits[ack]]
  <1>1. "turn" \in ChipStates /\ AckBits[ack] \in Seq(Bit)
    BY AckFacts DEF ChipStates
  <1>2. /\ heard \in Chips /\ heard.st = "turn" /\ heard.access = a /\ heard.ack = ack
        /\ heard.send = AckBits[ack] /\ heard.bits = <<>> /\ heard.n = c.n /\ heard.ones = c.ones
        /\ heard.posted = c.posted /\ heard.did = c.did
    BY <1>1 DEF Chips
  <1> HIDE DEF heard
  <1>3. CASE ack # "ok" \/ ~a.rnw
    <2>1. d = heard
      BY <1>3 DEF Answers, heard
    <2> QED
      BY <1>2, <1>3, <2>1 DEF IsAnswer
  <1>4. CASE ack = "ok" /\ a.rnw
    <2>1. PICK held \in Held(c, a) :
            d = [heard EXCEPT
                   !.send = @ \o Returned(c, a, held) \o <<Parity(Returned(c, a, held))>>,
                   !.posted = IF a.ap THEN held ELSE @,
                   !.did = Did(c, a, held)]
      BY <1>4 DEF Answers, heard
    <2> DEFINE w == Returned(c, a, held)
               posted == IF a.ap THEN held ELSE c.posted
               did == Did(c, a, held)
               send == AckBits[ack] \o w \o <<Parity(w)>>
    <2>2. held \in Words /\ (~a.ap /\ a.addr = 3 => held = c.posted)
      BY ChipFields DEF Held
    <2>3. w \in Words /\ w = IF a.ap THEN c.posted ELSE held
      BY <2>2, ChipFields DEF Returned
    <2>4. posted \in Words
      BY <2>2, ChipFields
    <2>5. did = Append(c.did, Acked(a, held)) /\ did \in Seq(Done1)
      <3>1. Acked(a, held) \in Done1
        BY <2>2 DEF Acked, Done1
      <3> QED
        BY <3>1, ChipFields, Appended DEF Did, Acked
    <2>6. send = AckBits["ok"] \o Coded(w) /\ send \in Seq(Bit)
      <3>1. w \in Seq(Bit) /\ Parity(w) \in Bit
        BY <2>3, WordIsBits, CodedWord
      <3>2. <<Parity(w)>> \in Seq(Bit) /\ AckBits[ack] \in Seq(Bit)
        BY <1>1, <3>1
      <3> HIDE DEF w
      <3>3. AckBits[ack] \o w \o <<Parity(w)>> = AckBits[ack] \o (w \o <<Parity(w)>>)
        <4> DEFINE z == <<Parity(w)>>
        <4>1. w \in Seq(Bit) /\ z \in Seq(Bit) /\ AckBits[ack] \in Seq(Bit)
          BY <3>1, <3>2
        <4> HIDE DEF z
        <4>2. \A s, t, u \in Seq(Bit) : s \o t \o u = s \o (t \o u)
          BY ConcatAssociative
        <4>3. AckBits[ack] \o w \o z = AckBits[ack] \o (w \o z)
          BY <4>1, <4>2
        <4> QED
          BY <4>3 DEF z
      <3>4. Coded(w) = w \o <<Parity(w)>>
        BY <3>1, <3>2 DEF Coded
      <3>5. Coded(w) \in Seq(Bit)
        BY <2>3, CodedWord
      <3>6. AckBits[ack] \o Coded(w) \in Seq(Bit)
        BY <3>2, <3>5, Joined
      <3> QED
        BY <1>4, <3>3, <3>4, <3>6
    <2>7. d = [heard EXCEPT !.send = send, !.posted = posted, !.did = did]
      BY <1>2, <2>1
    <2> HIDE DEF w, posted, did, send
    <2>8. /\ d \in Chips /\ d.send = send /\ d.posted = posted /\ d.did = did
          /\ d.st = "turn" /\ d.access = a /\ d.ack = ack
          /\ d.bits = <<>> /\ d.n = c.n /\ d.ones = c.ones
      BY <1>2, <2>4, <2>5, <2>6, <2>7 DEF Chips, Done1
    <2>9. posted = IF a.ap THEN held ELSE c.posted
      BY DEF posted
    <2> QED
      BY <1>4, <2>2, <2>3, <2>5, <2>6, <2>8, <2>9 DEF IsAnswer
  <1> QED
    BY <1>3, <1>4

LEMMA FromRequest ==
  ASSUME NEW c \in Chips, c.st = "request", Len(c.bits) \in 1 .. 7, NEW b \in Bit, NEW d \in Edge(c, b)
  PROVE  /\ d \in Chips
         /\ \/ OnesAfter(c, b) = ResetOnes /\ IsReset(c, d)
            \/ /\ OnesAfter(c, b) # ResetOnes /\ d.ones = OnesAfter(c, b) /\ d.n = c.n
               /\ \/ /\ Len(c.bits) < 7
                     /\ d.st = "request" /\ d.bits = Append(c.bits, b) /\ d.send = c.send /\ Same(c, d)
                  \/ /\ Len(c.bits) = 7 /\ ~WellFormed(Append(c.bits, b))
                     /\ d.st = "lost" /\ d.bits = <<>> /\ Same(c, d)
                  \/ /\ Len(c.bits) = 7 /\ WellFormed(Append(c.bits, b))
                     /\ IsAnswer(c, d, Access(Append(c.bits, b)))
  <1>1. c.st \in Listening
    BY DEF Listening
  <1>2. CASE OnesAfter(c, b) = ResetOnes
    BY <1>1, <1>2, FromListening
  <1>3. CASE OnesAfter(c, b) # ResetOnes
    <2>1. PICK e \in Chips :
            /\ d \in Sample(e, b)
            /\ e.st = c.st /\ e.n = c.n /\ e.ones = OnesAfter(c, b)
            /\ e.bits = c.bits /\ e.send = c.send /\ Same(c, e)
      BY <1>1, <1>3, FromListening
    <2>2. e.st = "request"
      BY <2>1
    <2> DEFINE bits == Append(e.bits, b)
    <2>3. bits \in Seq(Bit) /\ Len(bits) = Len(c.bits) + 1 /\ Len(c.bits) \in Nat
      BY <2>1, ChipFields, Appended
    <2>4. CASE Len(c.bits) # 7
      <3>1. Sample(e, b) = {[e EXCEPT !.bits = Append(@, b)]}
        BY <2>1, <2>2, <2>4, Zenon DEF Sample
      <3>2. d = [e EXCEPT !.bits = bits]
        BY <2>1, <3>1
      <3> HIDE DEF bits
      <3>3. d \in Chips /\ d.bits = bits /\ d.st = e.st /\ d.n = e.n /\ d.ones = e.ones /\ d.send = e.send /\ Same(e, d)
        BY <2>3, <3>2 DEF Chips, Same
      <3>4. Len(c.bits) < 7
        <4>1. \A k \in 1 .. 7 : k # 7 => k < 7
          OBVIOUS
        <4> QED
          BY <2>4, <4>1
      <3>5. bits = Append(c.bits, b)
        BY <2>1 DEF bits
      <3> QED
        BY <1>3, <2>1, <2>2, <3>3, <3>4, <3>5 DEF Same
    <2>5. CASE Len(c.bits) = 7
      <3>1. d \in Requested(e, bits)
        <4>1. Sample(e, b) = Requested(e, Append(e.bits, b))
          BY <2>1, <2>2, <2>5, Zenon DEF Sample
        <4> QED
          BY <2>1, <4>1
      <3>2. bits = Append(c.bits, b)
        BY <2>1
      <3> HIDE DEF bits
      <3>3. CASE ~WellFormed(bits)
        <4>1. d = [e EXCEPT !.st = "lost", !.bits = <<>>]
          BY <3>1, <3>3 DEF Requested
        <4>2. "lost" \in ChipStates /\ <<>> \in Seq(Bit)
          BY DEF ChipStates
        <4>3. d \in Chips /\ d.st = "lost" /\ d.bits = <<>> /\ d.n = e.n /\ d.ones = e.ones /\ Same(e, d)
          BY <4>1, <4>2 DEF Chips, Same
        <4> QED
          BY <1>3, <2>1, <2>5, <3>2, <3>3, <4>3 DEF Same
      <3>4. CASE WellFormed(bits)
        <4> DEFINE f == [e EXCEPT !.bits = <<>>]
        <4>1. PICK ack \in Acks : d \in Answers(f, Access(bits), ack)
          BY <3>1, <3>4 DEF Requested
        <4>2. f \in Chips /\ f.bits = <<>> /\ f.n = e.n /\ f.ones = e.ones /\ f.posted = e.posted /\ f.did = e.did
          <5>1. <<>> \in Seq(Bit)
            OBVIOUS
          <5> QED
            BY <5>1 DEF Chips
        <4>3. Access(bits) \in [ap : BOOLEAN, rnw : BOOLEAN, addr : 0 .. 3]
          <5>1. bits \in Seq(Bit) /\ Len(bits) = 8
            <6>1. Append(e.bits, b) \in Seq(Bit) /\ Len(Append(e.bits, b)) = Len(e.bits) + 1
              BY ChipFields, Appended
            <6> QED
              BY <2>1, <2>5, <6>1 DEF bits
          <5> QED
            BY <5>1, AccessType
        <4> HIDE DEF f
        <4>4. d \in Chips /\ IsAnswer(f, d, Access(bits)) /\ d.n = f.n /\ d.ones = f.ones
          BY <4>1, <4>2, <4>3, Answered
        <4>5. IsAnswer(c, d, Access(bits))
          BY <2>1, <4>2, <4>4 DEF IsAnswer, Same
        <4> QED
          BY <1>3, <2>1, <2>5, <3>2, <3>4, <4>2, <4>4, <4>5
      <3> QED
        BY <3>3, <3>4
    <2> QED
      BY <2>4, <2>5
  <1> QED
    BY <1>2, <1>3

LEMMA FromData ==
  ASSUME NEW c \in Chips, c.st = "data", Len(c.bits) \in 0 .. W, NEW b \in Bit, NEW d \in Edge(c, b)
  PROVE  /\ d \in Chips
         /\ \/ OnesAfter(c, b) = ResetOnes /\ IsReset(c, d)
            \/ /\ OnesAfter(c, b) # ResetOnes /\ d.ones = OnesAfter(c, b) /\ d.n = c.n /\ d.send = c.send
               /\ d.access = c.access /\ d.ack = c.ack /\ d.posted = c.posted
               /\ \/ /\ Len(c.bits) < W
                     /\ d.st = "data" /\ d.bits = Append(c.bits, b) /\ d.did = c.did
                  \/ /\ Len(c.bits) = W /\ d.st = "idle" /\ d.bits = <<>>
                     /\ \/ d.did = c.did
                        \/ LET word == SubSeq(Append(c.bits, b), 1, W)
                           IN  /\ Parity(word) = Append(c.bits, b)[W + 1]
                               /\ d.did = Append(c.did, Acked(c.access, word))
  <1>1. c.st \in Listening /\ W \in Nat \ {0}
    BY ChipAssumption DEF Listening
  <1>2. CASE OnesAfter(c, b) = ResetOnes
    BY <1>1, <1>2, FromListening
  <1>3. CASE OnesAfter(c, b) # ResetOnes
    <2>1. PICK e \in Chips :
            /\ d \in Sample(e, b)
            /\ e.st = c.st /\ e.n = c.n /\ e.ones = OnesAfter(c, b)
            /\ e.bits = c.bits /\ e.send = c.send /\ Same(c, e)
      BY <1>1, <1>3, FromListening
    <2>2. e.st = "data"
      BY <2>1
    <2> DEFINE bits == Append(e.bits, b)
    <2>3. bits \in Seq(Bit) /\ Len(bits) = Len(c.bits) + 1 /\ Len(c.bits) \in Nat /\ bits = Append(c.bits, b)
      BY <2>1, ChipFields, Appended
    <2>4. CASE Len(c.bits) # W
      <3>1. Sample(e, b) = {[e EXCEPT !.bits = Append(@, b)]}
        BY <2>1, <2>2, <2>4, Zenon DEF Sample
      <3>2. d = [e EXCEPT !.bits = bits]
        BY <2>1, <3>1
      <3> HIDE DEF bits
      <3>3. d \in Chips /\ d.bits = bits /\ d.st = e.st /\ d.n = e.n /\ d.ones = e.ones /\ d.send = e.send /\ Same(e, d)
        BY <2>3, <3>2 DEF Chips, Same
      <3>4. Len(c.bits) < W
        BY <1>1, <2>3, <2>4
      <3> QED
        BY <1>3, <2>1, <2>2, <2>3, <3>3, <3>4 DEF Same
    <2>5. CASE Len(c.bits) = W
      <3>1. d \in Written(e, bits)
        <4>1. Sample(e, b) = Written(e, Append(e.bits, b))
          BY <2>1, <2>2, <2>5, Zenon DEF Sample
        <4> QED
          BY <2>1, <4>1
      <3> HIDE DEF bits
      <3> DEFINE word == SubSeq(bits, 1, W)
                 did == IF Parity(word) = bits[W + 1] /\ word \in Words THEN Did(e, e.access, word) ELSE e.did
      <3>2. d = [e EXCEPT !.st = "idle", !.bits = <<>>, !.did = did]
        BY <3>1 DEF Written
      <3>3. \/ did = e.did
            \/ Parity(word) = bits[W + 1] /\ word \in Words /\ did = Append(e.did, Acked(e.access, word))
        BY DEF Did, Acked
      <3>4. did \in Seq(Done1)
        <4>1. e.access \in [ap : BOOLEAN, rnw : BOOLEAN, addr : 0 .. 3] /\ e.did \in Seq(Done1)
          BY ChipFields
        <4>2. word \in Words => Acked(e.access, word) \in Done1
          BY <4>1 DEF Acked, Done1
        <4> QED
          BY <3>3, <4>1, <4>2, Appended
      <3>5. "idle" \in ChipStates /\ <<>> \in Seq(Bit)
        BY DEF ChipStates
      <3> HIDE DEF did
      <3>6. /\ d \in Chips /\ d.st = "idle" /\ d.bits = <<>> /\ d.did = did /\ d.n = e.n /\ d.ones = e.ones
            /\ d.send = e.send /\ d.access = e.access /\ d.ack = e.ack /\ d.posted = e.posted
        BY <3>2, <3>4, <3>5 DEF Chips, Done1
      <3>7. \/ d.did = c.did
            \/ Parity(word) = bits[W + 1] /\ d.did = Append(c.did, Acked(c.access, word))
        BY <2>1, <3>3, <3>6 DEF Same
      <3> QED
        BY <1>3, <2>1, <2>3, <2>5, <3>6, <3>7 DEF Same
    <2> QED
      BY <2>4, <2>5
  <1> QED
    BY <1>2, <1>3

\* The bits of an answer.
LEMMA AnswerBits ==
  ASSUME NEW c \in Chips, NEW a \in [ap : BOOLEAN, rnw : BOOLEAN, addr : 0 .. 3], NEW d, IsAnswer(c, d, a)
  PROVE  /\ Len(d.send) = 3 + ReadTail(d)
         /\ \A i \in 1 .. 3 : d.send[i] = AckBits[d.ack][i]
         /\ d.ack = "ok" /\ a.rnw =>
              \E held \in Words :
                /\ ~a.ap /\ a.addr = 3 => held = c.posted
                /\ d.posted = IF a.ap THEN held ELSE c.posted
                /\ d.did = Append(c.did, Acked(a, held))
                /\ ~a.ap => \A i \in 1 .. W + 1 : d.send[3 + i] = Coded(held)[i]
         /\ ~(d.ack = "ok" /\ a.rnw) => d.posted = c.posted /\ d.did = c.did
  <1>1. d.access = a /\ d.ack \in Acks
    BY DEF IsAnswer
  <1>2. AckBits[d.ack] \in Seq(Bit) /\ Len(AckBits[d.ack]) = 3
    BY <1>1, AckFacts
  <1>3. CASE ~(d.ack = "ok" /\ a.rnw)
    <2>1. d.send = AckBits[d.ack] /\ d.posted = c.posted /\ d.did = c.did
      BY <1>3 DEF IsAnswer
    <2>2. ReadTail(d) = 0
      BY <1>1, <1>3 DEF ReadTail
    <2>3. Len(d.send) = 3 + 0
      BY <1>2, <2>1
    <2> QED
      BY <1>3, <2>1, <2>2, <2>3
  <1>4. CASE d.ack = "ok" /\ a.rnw
    <2>1. PICK held \in Words :
             /\ ~a.ap /\ a.addr = 3 => held = c.posted
             /\ d.posted = IF a.ap THEN held ELSE c.posted
             /\ d.did = Append(c.did, Acked(a, held))
             /\ d.send = AckBits["ok"] \o Coded(IF a.ap THEN c.posted ELSE held)
      BY <1>4 DEF IsAnswer
    <2> DEFINE w == IF a.ap THEN c.posted ELSE held
               x == Coded(w)
               y == AckBits["ok"]
    <2>2. w \in Words
      BY ChipFields
    <2>3. x \in Seq(Bit) /\ Len(x) = W + 1
      BY <2>2, CodedWord
    <2>4. y \in Seq(Bit) /\ Len(y) = 3 /\ y = AckBits[d.ack]
      BY <1>2, <1>4
    <2>5. d.send = y \o x
      BY <2>1
    <2>6. ~a.ap => x = Coded(held)
      OBVIOUS
    <2> HIDE DEF x, y, w
    <2>7. /\ Len(y \o x) = Len(y) + Len(x)
          /\ \A i \in 1 .. Len(y) : (y \o x)[i] = y[i]
          /\ \A i \in 1 .. Len(x) : (y \o x)[Len(y) + i] = x[i]
      <3>1. x \in Seq(Bit) /\ y \in Seq(Bit)
        BY <2>3, <2>4
      <3> QED
        BY <3>1, Joined
    <2>8. /\ Len(d.send) = 3 + (W + 1)
          /\ \A i \in 1 .. 3 : d.send[i] = y[i]
          /\ \A i \in 1 .. W + 1 : d.send[3 + i] = x[i]
      BY <2>3, <2>4, <2>5, <2>7
    <2>9. ReadTail(d) = W + 1
      BY <1>1, <1>4 DEF ReadTail
    <2>10. ~a.ap => \A i \in 1 .. W + 1 : d.send[3 + i] = Coded(held)[i]
      BY <2>6, <2>8
    <2>11. /\ ~a.ap /\ a.addr = 3 => held = c.posted
           /\ d.posted = IF a.ap THEN held ELSE c.posted
           /\ d.did = Append(c.did, Acked(a, held))
      BY <2>1
    <2>12. Len(d.send) = 3 + ReadTail(d) /\ \A i \in 1 .. 3 : d.send[i] = AckBits[d.ack][i]
      BY <2>4, <2>8, <2>9
    <2> QED
      BY <1>4, <2>10, <2>11, <2>12
  <1> QED
    BY <1>3, <1>4

LEMMA TailTypes ==
  ASSUME NEW c
  PROVE  ReadTail(c) \in {0, W + 1} /\ WriteTail(c) \in {0, W + 1} /\ (ReadTail(c) = 0 \/ WriteTail(c) = 0)
         /\ W \in Nat \ {0}
  BY ChipAssumption DEF ReadTail, WriteTail

\* The line may do what it likes: the chip is in the middle of something sensible.
LEMMA ChipKept ==
  ASSUME NEW c, ChipOK(c), NEW b \in Bit, NEW d \in Edge(c, b)
  PROVE  ChipOK(d)
  <1>1. /\ c \in Chips /\ c.n \in 0 .. 15 /\ c.ones \in 0 .. ResetOnes /\ W \in Nat \ {0}
        /\ ResetOnes \in Nat /\ ResetOnes > 7
        /\ c.bits \in Seq(Bit) /\ c.send \in Seq(Bit)
    BY ChipFields, ChipAssumption DEF ChipOK
  <1>2. ASSUME IsReset(c, d), d \in Chips PROVE ChipOK(d)
    BY <1>2 DEF IsReset, ChipOK
  <1>3. CASE c.st = "turn"
    <2>1. /\ d \in Chips /\ d.st = "drive" /\ d.n = c.n /\ d.ones = 0
          /\ d.bits = c.bits /\ d.send = c.send /\ Same(c, d)
      BY <1>1, <1>3, FromTurn
    <2>2. ReadTail(d) = ReadTail(c)
      BY <2>1 DEF Same, ReadTail
    <2> QED
      BY <1>1, <1>3, <2>1, <2>2 DEF ChipOK
  <1>4. CASE c.st = "drive"
    <2>1. Len(c.send) \in 1 .. 3 + ReadTail(c) /\ c.bits = <<>> /\ c.ones # ResetOnes
      BY <1>4 DEF ChipOK
    <2>2. Len(c.send) >= 1 /\ c.send # <<>>
      BY <1>1, <2>1
    <2>3. /\ d \in Chips /\ d.st = (IF Len(c.send) = 1 THEN "back" ELSE "drive") /\ d.n = c.n
          /\ d.ones = c.ones /\ d.bits = c.bits /\ d.send = Tail(c.send) /\ Same(c, d)
      BY <1>1, <1>4, <2>2, FromDrive
    <2>4. ReadTail(d) = ReadTail(c) /\ ReadTail(c) \in Nat
      BY <2>3, TailTypes DEF Same, ReadTail
    <2>5. Len(d.send) = Len(c.send) - 1
      BY <1>1, <2>2, <2>3, Shifted
    <2>6. d.st = "drive" => Len(d.send) \in 1 .. 3 + ReadTail(d)
      <3>1. \A k \in Nat : \A r \in Nat : k \in 1 .. 3 + r /\ k # 1 => k - 1 \in 1 .. 3 + r
        OBVIOUS
      <3>2. Len(c.send) \in Nat
        BY <2>1, <2>4
      <3>3. Len(c.send) # 1 => Len(c.send) - 1 \in 1 .. 3 + ReadTail(c)
        BY <2>1, <2>4, <3>1, <3>2
      <3> QED
        BY <2>3, <2>4, <2>5, <3>3
    <2> QED
      BY <1>1, <1>4, <2>1, <2>3, <2>6 DEF ChipOK
  <1>5. CASE c.st = "back"
    <2>1. /\ d \in Chips /\ d.st = (IF c.ack = "ok" /\ ~c.access.rnw THEN "data" ELSE "idle")
          /\ d.n = c.n /\ d.ones = c.ones /\ d.bits = c.bits /\ d.send = c.send /\ Same(c, d)
      BY <1>1, <1>5, FromBack
    <2>2. c.bits = <<>> /\ c.ones # ResetOnes
      BY <1>5 DEF ChipOK
    <2>3. Len(d.bits) = 0
      BY <2>1, <2>2
    <2> QED
      BY <1>1, <1>5, <2>1, <2>2, <2>3 DEF ChipOK
  <1>6. CASE c.st = "jtag"
    <2>1. /\ d \in Chips /\ Recognised(c, b) \in 0 .. 16
          /\ d.st = (IF Recognised(c, b) = 16 THEN "lost" ELSE "jtag")
          /\ d.n = (IF Recognised(c, b) = 16 THEN 0 ELSE Recognised(c, b))
      BY <1>1, <1>6, FromJtag
    <2> QED
      BY <2>1 DEF ChipOK
  <1>7. CASE c.st = "lost"
    <2>1. \/ IsReset(c, d) /\ d \in Chips
          \/ d \in Chips /\ d.st = "lost" /\ d.n = c.n
      BY <1>1, <1>7, FromLost
    <2> QED
      BY <1>1, <1>2, <2>1 DEF ChipOK
  <1>8. CASE c.st = "reset"
    <2>1. \/ IsReset(c, d) /\ d \in Chips
          \/ /\ d \in Chips /\ d.ones = OnesAfter(c, b) /\ OnesAfter(c, b) # ResetOnes
             /\ d.st = (IF b = 1 THEN "lost" ELSE IF c.n = 1 THEN "idle" ELSE "reset")
             /\ d.n = (IF b = 0 /\ c.n = 0 THEN 1 ELSE 0)
      BY <1>1, <1>8, FromReset
    <2> QED
      BY <1>1, <1>2, <2>1 DEF ChipOK
  <1>9. CASE c.st = "idle"
    <2>1. \/ IsReset(c, d) /\ d \in Chips
          \/ /\ d \in Chips /\ d.n = c.n /\ d.ones # ResetOnes
             /\ (d.st = "request" /\ d.bits = << 1 >>) \/ d.st = "idle"
      BY <1>1, <1>9, FromIdle DEF Bit
    <2>2. Len(<< 1 >>) \in 1 .. 7
      OBVIOUS
    <2>3. ASSUME d \in Chips, d.n = c.n, d.ones # ResetOnes, d.st = "request", d.bits = << 1 >> PROVE ChipOK(d)
      BY <1>1, <2>2, <2>3 DEF ChipOK
    <2>4. ASSUME d \in Chips, d.n = c.n, d.ones # ResetOnes, d.st = "idle" PROVE ChipOK(d)
      BY <1>1, <2>4 DEF ChipOK
    <2> QED
      BY <1>2, <2>1, <2>3, <2>4
  <1>10. CASE c.st = "request"
    <2>1. Len(c.bits) \in 1 .. 7
      BY <1>10 DEF ChipOK
    <2> DEFINE r == Append(c.bits, b)
    <2>2. /\ d \in Chips
          /\ \/ IsReset(c, d)
             \/ /\ d.ones # ResetOnes /\ d.n = c.n
                /\ \/ Len(c.bits) < 7 /\ d.st = "request" /\ d.bits = r
                   \/ d.st = "lost"
                   \/ Len(c.bits) = 7 /\ IsAnswer(c, d, Access(r))
      BY <1>1, <1>10, <2>1, FromRequest
    <2>3. r \in Seq(Bit) /\ Len(r) = Len(c.bits) + 1
      BY <1>1, Appended
    <2>4. ASSUME Len(c.bits) < 7, d.st = "request", d.bits = r, d.n = c.n, d.ones # ResetOnes PROVE ChipOK(d)
      <3>1. Len(d.bits) \in 1 .. 7
        BY <2>1, <2>3, <2>4
      <3> QED
        BY <1>1, <2>2, <2>4, <3>1 DEF ChipOK
    <2>5. ASSUME Len(c.bits) = 7, IsAnswer(c, d, Access(r)), d.n = c.n, d.ones # ResetOnes PROVE ChipOK(d)
      <3>1. Access(r) \in [ap : BOOLEAN, rnw : BOOLEAN, addr : 0 .. 3]
        <4>1. r \in Seq(Bit) /\ Len(r) = 8
          BY <2>3, <2>5
        <4> QED
          BY <4>1, AccessType
      <3>2. Len(d.send) = 3 + ReadTail(d)
        BY <1>1, <2>5, <3>1, AnswerBits
      <3>3. Len(d.send) \in 1 .. 3 + ReadTail(d)
        BY <3>2, TailTypes
      <3> QED
        BY <1>1, <2>2, <2>5, <3>3 DEF ChipOK, IsAnswer
    <2>6. ASSUME d.st = "lost", d.n = c.n PROVE ChipOK(d)
      BY <1>1, <2>2, <2>6 DEF ChipOK
    <2> QED
      BY <1>2, <2>2, <2>4, <2>5, <2>6
  <1>11. CASE c.st = "data"
    <2>1. Len(c.bits) \in 0 .. W
      BY <1>11 DEF ChipOK
    <2>2. /\ d \in Chips
          /\ \/ IsReset(c, d)
             \/ /\ d.ones # ResetOnes /\ d.n = c.n
                /\ \/ Len(c.bits) < W /\ d.st = "data" /\ d.bits = Append(c.bits, b)
                   \/ d.st = "idle"
      BY <1>1, <1>11, <2>1, FromData
    <2>3. Len(Append(c.bits, b)) = Len(c.bits) + 1
      BY <1>1, Appended
    <2>4. ASSUME Len(c.bits) < W, d.st = "data", d.bits = Append(c.bits, b) PROVE Len(d.bits) \in 0 .. W
      BY <1>1, <2>1, <2>3, <2>4
    <2> QED
      BY <1>1, <1>2, <2>2, <2>4 DEF ChipOK
  <1>12. c.st \in ChipStates
    BY <1>1, ChipFields
  <1> QED
    BY <1>3, <1>4, <1>5, <1>6, <1>7, <1>8, <1>9, <1>10, <1>11, <1>12 DEF ChipStates

-----------------------------------------------------------------------------
\* init(): the chip after p ones of the first line reset, m samples flipped.
\* What it was doing has an end, at the latest an answer and a word later.
Shaken(c, p, m) ==
  /\ c.st = "jtag" => (c.n = 0 \/ c.n > p) /\ (c.ones >= p \/ c.ones = ResetOnes)
  /\ c.st = "reset" /\ p >= 1 => c.n = 0 /\ c.ones = ResetOnes
  /\ c.st = "idle" => p <= W + 13
  /\ c.st = "request" => \/ Len(c.bits) > p
                         \/ p - Len(c.bits) <= W + 13 /\ Near(c.bits, EightOnes, m)
  /\ c.st = "turn" => p <= 7
  /\ c.st = "drive" => p + Len(c.send) + 1 + WriteTail(c) <= W + 13
  /\ c.st = "back" => p + 1 + WriteTail(c) <= W + 13
  /\ c.st = "data" => p + W + 1 - Len(c.bits) <= W + 13

\* After q bits of the switch sequence.
Switched(c, q) ==
  /\ c.st \in {"jtag", "lost", "reset"}
  /\ c.st = "jtag" => c.n = q /\ (q = 0 => c.ones = ResetOnes)
  /\ c.st = "reset" => c.n = q /\ q <= 1
  /\ q > 0 => c.ones <= q

\* After r ones of the second line reset.
ShakenAgain(c, r) ==
  /\ c.st \in {"lost", "reset"}
  /\ c.st = "lost" => c.ones >= r /\ c.ones < ResetOnes
  /\ c.st = "reset" => c.n = 0 /\ c.ones = ResetOnes

\* After z idle cycles.
Settled(c, z) ==
  IF z <= 1 THEN c.st = "reset" /\ c.n = z /\ (z = 1 => c.ones = 0) ELSE c.st = "idle" /\ c.ones = 0

Waiting == {"jtag", "lost", "reset", "idle"}

LEMMA LineOnes ==
  /\ W \in Nat \ {0} /\ ResetOnes \in Nat /\ ResetOnes > 16 /\ ResetOnes > W + 1
  /\ LINE_ONES \in Nat /\ LINE_ONES >= ResetOnes /\ LINE_ONES >= W + 21
  /\ IDLE \in Nat /\ IDLE >= 2
  BY ChipAssumption, SwdAssumption

LEMMA EightOnesType ==
  EightOnes \in Seq(Bit) /\ Len(EightOnes) = 8 /\ \A i \in 1 .. 8 : EightOnes[i] = 1
  <1>1. EightOnes \in Seq(Bit)
    BY DEF EightOnes, Bit
  <1> QED
    BY <1>1 DEF EightOnes

\* Wherever the chip is, there it begins.
LEMMA ShakenAtFirst ==
  ASSUME NEW c, ChipOK(c)
  PROVE  Shaken(c, 0, 0)
  <1>1. /\ c \in Chips /\ W \in Nat \ {0} /\ c.n \in 0 .. 15 /\ c.ones \in 0 .. ResetOnes
        /\ ReadTail(c) \in {0, W + 1} /\ WriteTail(c) \in {0, W + 1} /\ (ReadTail(c) = 0 \/ WriteTail(c) = 0)
    BY ChipFields, LineOnes, TailTypes DEF ChipOK
  <1>2. c.st = "request" => Len(c.bits) > 0
    <2>1. \A k \in 1 .. 7 : k > 0
      OBVIOUS
    <2> QED
      BY <2>1 DEF ChipOK
  <1>3. c.st = "drive" => Len(c.send) + 1 + WriteTail(c) <= W + 13
    <2>1. \A k \in Nat : \A r, w \in {0, W + 1} : k \in 1 .. 3 + r /\ (r = 0 \/ w = 0) => k + 1 + w <= W + 13
      BY LineOnes
    <2>2. c.st = "drive" => Len(c.send) \in 1 .. 3 + ReadTail(c)
      BY DEF ChipOK
    <2>3. c.st = "drive" => Len(c.send) \in Nat
      BY <1>1, <2>2
    <2> QED
      BY <1>1, <2>1, <2>2, <2>3
  <1>4. c.st = "data" => 0 + W + 1 - Len(c.bits) <= W + 13
    <2>1. \A k \in 0 .. W : 0 + W + 1 - k <= W + 13
      BY LineOnes
    <2> QED
      BY <2>1 DEF ChipOK
  <1>5. c.ones >= 0
    BY <1>1, LineOnes
  <1>6. c.n = 0 \/ c.n > 0
    BY <1>1
  <1>7. 0 + 1 + WriteTail(c) <= W + 13
    BY <1>1
  <1>8. c.st = "drive" => 0 + Len(c.send) + 1 + WriteTail(c) <= W + 13
    <2>1. c.st = "drive" => Len(c.send) \in Nat
      BY <1>1, TailTypes, ChipFields
    <2> QED
      BY <1>3, <2>1
  <1>9. 0 + W + 1 = W + 1 /\ 0 <= W + 13 /\ ~(0 >= 1) /\ 0 <= 7
    BY <1>1
  <1> QED
    BY <1>2, <1>4, <1>5, <1>6, <1>7, <1>8, <1>9, Zenon DEF Shaken

\* One more one of the first line reset.
LEMMA Shake ==
  ASSUME NEW c, ChipOK(c), NEW p \in Nat, p < LINE_ONES, NEW m \in Bit, NEW flip \in Bit, m + flip <= 1,
         Shaken(c, p, m), NEW b \in Bit, NEW d \in Edge(c, b),
         c.st \in Waiting => b = 1,
         c.st = "request" => b = (1 + flip) % 2
  PROVE  Shaken(d, p + 1, m + flip)
  <1>1. /\ c \in Chips /\ c.n \in 0 .. 15 /\ c.ones \in 0 .. ResetOnes
        /\ W \in Nat \ {0} /\ ResetOnes \in Nat /\ ResetOnes > 16 /\ LINE_ONES \in Nat
        /\ c.bits \in Seq(Bit) /\ c.send \in Seq(Bit)
    BY ChipFields, LineOnes DEF ChipOK
  <1>2. ASSUME IsReset(c, d) PROVE Shaken(d, p + 1, m + flip)
    BY <1>2 DEF IsReset, Shaken
  <1>3. ASSUME d.st = "lost" PROVE Shaken(d, p + 1, m + flip)
    BY <1>3 DEF Shaken
  <1>4. CASE c.st = "turn"
    <2>1. /\ d.st = "drive" /\ d.send = c.send /\ Same(c, d)
      BY <1>1, <1>4, FromTurn
    <2>2. ReadTail(d) = ReadTail(c) /\ WriteTail(d) = WriteTail(c)
      BY <2>1 DEF Same, ReadTail, WriteTail
    <2>3. p <= 7 /\ Len(c.send) \in 1 .. 3 + ReadTail(c)
      BY <1>4 DEF Shaken, ChipOK
    <2>4. \A k \in Nat : \A r, w \in {0, W + 1} :
            k \in 1 .. 3 + r /\ (r = 0 \/ w = 0) => p + 1 + k + 1 + w <= W + 13
      BY <1>1, <2>3
    <2>5. Len(c.send) \in Nat
      BY <1>1
    <2>6. p + 1 + Len(d.send) + 1 + WriteTail(d) <= W + 13
      BY <2>1, <2>2, <2>3, <2>4, <2>5, TailTypes
    <2> QED
      BY <2>1, <2>6 DEF Shaken
  <1>5. CASE c.st = "drive"
    <2>1. Len(c.send) \in 1 .. 3 + ReadTail(c) /\ p + Len(c.send) + 1 + WriteTail(c) <= W + 13
      BY <1>5 DEF ChipOK, Shaken
    <2>2. Len(c.send) \in Nat \ {0} /\ Len(c.send) >= 1 /\ c.send # <<>>
      BY <1>1, <2>1, TailTypes
    <2>3. /\ d.st = (IF Len(c.send) = 1 THEN "back" ELSE "drive") /\ d.send = Tail(c.send) /\ Same(c, d)
      BY <1>1, <1>5, <2>2, FromDrive
    <2>4. WriteTail(d) = WriteTail(c) /\ WriteTail(c) \in Nat
      BY <2>3, TailTypes DEF Same, WriteTail
    <2>5. Len(d.send) = Len(c.send) - 1
      BY <1>1, <2>2, <2>3, Shifted
    <2>6. \A k \in Nat \ {0} : \A w \in Nat : p + k + 1 + w <= W + 13 =>
            /\ p + 1 + (k - 1) + 1 + w <= W + 13
            /\ k = 1 => p + 1 + 1 + w <= W + 13
      BY <1>1
    <2>7. /\ p + 1 + Len(d.send) + 1 + WriteTail(d) <= W + 13
          /\ Len(c.send) = 1 => p + 1 + 1 + WriteTail(d) <= W + 13
      BY <2>1, <2>2, <2>4, <2>5, <2>6
    <2> QED
      BY <2>3, <2>7 DEF Shaken
  <1>6. CASE c.st = "back"
    <2>1. /\ d.st = (IF c.ack = "ok" /\ ~c.access.rnw THEN "data" ELSE "idle") /\ d.bits = c.bits
      BY <1>1, <1>6, FromBack
    <2>2. c.bits = <<>> /\ p + 1 + WriteTail(c) <= W + 13
      BY <1>6 DEF ChipOK, Shaken
    <2>3. WriteTail(c) = IF c.ack = "ok" /\ ~c.access.rnw THEN W + 1 ELSE 0
      BY DEF WriteTail
    <2>4. Len(d.bits) = 0
      BY <2>1, <2>2
    <2>5. d.st = "data" => p + 1 + W + 1 - Len(d.bits) <= W + 13
      BY <1>1, <2>1, <2>2, <2>3, <2>4
    <2>6. p + 1 <= W + 13
      BY <1>1, <2>2, <2>3
    <2> QED
      BY <2>1, <2>5, <2>6 DEF Shaken
  <1>7. CASE c.st = "jtag"
    <2> DEFINE n == Recognised(c, b)
    <2>1. /\ d.st = (IF n = 16 THEN "lost" ELSE "jtag")
          /\ d.n = (IF n = 16 THEN 0 ELSE n)
          /\ d.ones = OnesAfter(c, b)
      BY <1>1, <1>7, FromJtag
    <2>2. b = 1
      BY <1>7 DEF Waiting
    <2>3. (c.n = 0 \/ c.n > p) /\ (c.ones >= p \/ c.ones = ResetOnes)
      BY <1>7 DEF Shaken
    <2>4. SwitchBits[0 + 1] = 0
      BY DEF SwitchBits
    <2>5. n = 0 \/ n > p + 1
      <3>1. CASE c.n = 0
        BY <2>2, <2>4, <3>1 DEF Recognised
      <3>2. CASE c.n > p
        <4>1. \A k \in 0 .. 15 : k > p => k + 1 > p + 1
          OBVIOUS
        <4>2. c.n + 1 > p + 1
          BY <1>1, <3>2, <4>1, Zenon
        <4> QED
          BY <4>2 DEF Recognised
      <3> QED
        BY <2>3, <3>1, <3>2
    <2>6. OnesAfter(c, b) >= p + 1 \/ OnesAfter(c, b) = ResetOnes
      <3>1. OnesAfter(c, b) = IF c.ones = ResetOnes THEN ResetOnes ELSE c.ones + 1
        BY <2>2 DEF OnesAfter
      <3>2. \A k \in 0 .. ResetOnes : k >= p => k + 1 >= p + 1
        BY <1>1
      <3> QED
        BY <1>1, <2>3, <3>1, <3>2
    <2> HIDE DEF n
    <2>7. d.st = "jtag" => d.n = n
      BY <2>1
    <2> QED
      BY <2>1, <2>5, <2>6, <2>7 DEF Shaken
  <1>8. CASE c.st = "lost"
    <2>1. IsReset(c, d) \/ d.st = "lost"
      BY <1>1, <1>8, FromLost
    <2> QED
      BY <1>2, <1>3, <2>1
  <1>9. CASE c.st = "reset"
    <2>1. IsReset(c, d) \/ d.st = IF b = 1 THEN "lost" ELSE IF c.n = 1 THEN "idle" ELSE "reset"
      BY <1>1, <1>9, FromReset
    <2>2. b = 1
      BY <1>9 DEF Waiting
    <2> QED
      BY <1>2, <1>3, <2>1, <2>2
  <1>10. CASE c.st = "idle"
    <2>1. b = 1 /\ p <= W + 13
      BY <1>10 DEF Waiting, Shaken
    <2>2. IsReset(c, d) \/ (d.st = "request" /\ d.bits = << 1 >>)
      BY <1>1, <1>10, <2>1, FromIdle
    <2>3. ASSUME d.st = "request", d.bits = << 1 >> PROVE Shaken(d, p + 1, m + flip)
      <3>1. Len(d.bits) = 1 /\ d.bits[1] = 1
        BY <2>3
      <3>2. Near(d.bits, EightOnes, m + flip)
        BY <3>1, EightOnesType DEF Near
      <3>3. p + 1 - Len(d.bits) <= W + 13
        BY <1>1, <2>1, <3>1
      <3> QED
        BY <2>3, <3>2, <3>3 DEF Shaken
    <2> QED
      BY <1>2, <2>2, <2>3
  <1>11. CASE c.st = "request"
    <2> DEFINE r == Append(c.bits, b)
    <2>1. Len(c.bits) \in 1 .. 7 /\ b = (1 + flip) % 2
      BY <1>11 DEF ChipOK
    <2>2. \/ IsReset(c, d)
          \/ Len(c.bits) < 7 /\ d.st = "request" /\ d.bits = r
          \/ d.st = "lost"
          \/ Len(c.bits) = 7 /\ WellFormed(r) /\ d.st = "turn"
      <3>1. \/ IsReset(c, d)
            \/ Len(c.bits) < 7 /\ d.st = "request" /\ d.bits = r
            \/ d.st = "lost"
            \/ Len(c.bits) = 7 /\ WellFormed(r) /\ IsAnswer(c, d, Access(r))
        BY <1>1, <1>11, <2>1, FromRequest
      <3>2. IsAnswer(c, d, Access(r)) => d.st = "turn"
        BY DEF IsAnswer
      <3> QED
        BY <3>1, <3>2
    <2>3. r \in Seq(Bit) /\ Len(r) = Len(c.bits) + 1 /\ Len(c.bits) \in Nat
      BY <1>1, Appended
    <2>4. Len(c.bits) > p \/ (p - Len(c.bits) <= W + 13 /\ Near(r, EightOnes, m + flip))
      <3>1. ASSUME Near(c.bits, EightOnes, m) PROVE Near(r, EightOnes, m + flip)
        <4>1. EightOnes[Len(c.bits) + 1] = 1 /\ Len(c.bits) < Len(EightOnes)
          <5>1. \A k \in 1 .. 7 : k + 1 \in 1 .. 8 /\ k < 8
            OBVIOUS
          <5>2. Len(c.bits) + 1 \in 1 .. 8 /\ Len(c.bits) < 8
            BY <2>1, <5>1
          <5> QED
            BY <5>2, EightOnesType
        <4>2. b = (EightOnes[Len(c.bits) + 1] + flip) % 2
          BY <2>1, <4>1
        <4> QED
          BY <1>1, <3>1, <4>1, <4>2, EightOnesType, NearGrows
      <3> QED
        BY <1>11, <3>1 DEF Shaken
    <2> HIDE DEF r
    <2>5. ASSUME d.st = "request", d.bits = r PROVE Shaken(d, p + 1, m + flip)
      <3>1. \A k \in 1 .. 7 : (k > p => k + 1 > p + 1) /\ (p - k <= W + 13 => p + 1 - (k + 1) <= W + 13)
        BY <1>1
      <3>2. \/ Len(r) > p + 1
            \/ p + 1 - Len(r) <= W + 13 /\ Near(r, EightOnes, m + flip)
        <4>1. /\ Len(c.bits) > p => Len(c.bits) + 1 > p + 1
              /\ p - Len(c.bits) <= W + 13 => p + 1 - (Len(c.bits) + 1) <= W + 13
          BY <2>1, <3>1
        <4> QED
          BY <2>3, <2>4, <4>1, Zenon
      <3>3. \/ Len(d.bits) > p + 1
            \/ p + 1 - Len(d.bits) <= W + 13 /\ Near(d.bits, EightOnes, m + flip)
        BY <2>5, <3>2, Zenon
      <3> QED
        BY <2>5, <3>3, SMT DEF Shaken
    <2>6. ASSUME Len(c.bits) = 7, WellFormed(r), d.st = "turn" PROVE Shaken(d, p + 1, m + flip)
      <3>1. Len(r) = 8
        BY <2>3, <2>6
      <3>2. ~Near(r, EightOnes, m + flip)
        BY <2>3, <2>6, <3>1, OnesAreNoRequest
      <3>3. p + 1 <= 7
        BY <2>4, <2>6, <3>2
      <3> QED
        BY <2>6, <3>3 DEF Shaken
    <2> QED
      BY <1>2, <1>3, <2>2, <2>5, <2>6
  <1>12. CASE c.st = "data"
    <2>1. Len(c.bits) \in 0 .. W /\ p + W + 1 - Len(c.bits) <= W + 13
      BY <1>12 DEF ChipOK, Shaken
    <2>2. \/ IsReset(c, d)
          \/ d.st = "data" /\ d.bits = Append(c.bits, b)
          \/ d.st = "idle" /\ Len(c.bits) = W
      BY <1>1, <1>12, <2>1, FromData
    <2>3. Len(Append(c.bits, b)) = Len(c.bits) + 1
      BY <1>1, Appended
    <2>4. \A k \in 0 .. W : p + W + 1 - k <= W + 13 =>
             p + 1 + W + 1 - (k + 1) <= W + 13 /\ (k = W => p + 1 <= W + 13)
      BY <1>1
    <2>5. d.st = "data" /\ d.bits = Append(c.bits, b) => p + 1 + W + 1 - Len(d.bits) <= W + 13
      BY <2>1, <2>3, <2>4
    <2>6. Len(c.bits) = W => p + 1 <= W + 13
      BY <2>1, <2>4
    <2>7. d.st = "data" /\ d.bits = Append(c.bits, b) => Shaken(d, p + 1, m + flip)
      BY <2>5 DEF Shaken
    <2>8. d.st = "idle" /\ Len(c.bits) = W => Shaken(d, p + 1, m + flip)
      BY <2>6 DEF Shaken
    <2> QED
      BY <1>2, <2>2, <2>7, <2>8
  <1>13. c.st \in ChipStates
    BY <1>1, ChipFields
  <1> QED
    BY <1>4, <1>5, <1>6, <1>7, <1>8, <1>9, <1>10, <1>11, <1>12, <1>13 DEF ChipStates

\* The first line reset is long enough.
LEMMA ShakenEnough ==
  ASSUME NEW c, ChipOK(c), NEW m, Shaken(c, LINE_ONES, m)
  PROVE  Switched(c, 0)
  <1>1. /\ c \in Chips /\ c.n \in 0 .. 15 /\ c.ones \in 0 .. ResetOnes /\ c.st \in ChipStates
        /\ c.bits \in Seq(Bit) /\ c.send \in Seq(Bit)
    BY ChipFields, LineOnes DEF ChipOK
  <1>2. c.st # "idle" /\ c.st # "turn" /\ c.st # "back"
    <2>1. WriteTail(c) \in Nat
      BY LineOnes, TailTypes
    <2> QED
      BY <2>1, LineOnes DEF Shaken
  <1>3. c.st # "drive"
    <2>1. \A k, w \in Nat : ~(LINE_ONES + k + 1 + w <= W + 13)
      BY LineOnes
    <2>2. Len(c.send) \in Nat /\ WriteTail(c) \in Nat
      BY <1>1, LineOnes, TailTypes
    <2> QED
      BY <2>1, <2>2 DEF Shaken
  <1>4. c.st # "request"
    <2>1. \A k \in 1 .. 7 : ~(k > LINE_ONES) /\ ~(LINE_ONES - k <= W + 13)
      BY LineOnes
    <2> QED
      BY <2>1 DEF Shaken, ChipOK
  <1>5. c.st # "data"
    <2>1. \A k \in 0 .. W : ~(LINE_ONES + W + 1 - k <= W + 13)
      BY LineOnes
    <2> QED
      BY <2>1 DEF Shaken, ChipOK
  <1>6. c.st = "jtag" => c.n = 0 /\ c.ones = ResetOnes
    <2>1. c.st = "jtag" => (c.n = 0 \/ c.n > LINE_ONES) /\ (c.ones >= LINE_ONES \/ c.ones = ResetOnes)
      BY DEF Shaken
    <2> QED
      BY <1>1, <2>1, LineOnes
  <1>7. c.st = "reset" => c.n = 0
    BY LineOnes DEF Shaken
  <1>8. c.st \in {"jtag", "lost", "reset"}
    BY <1>1, <1>2, <1>3, <1>4, <1>5 DEF ChipStates
  <1> QED
    BY <1>6, <1>7, <1>8 DEF Switched

\* One more bit of the switch sequence.
LEMMA Switch ==
  ASSUME NEW c, ChipOK(c), NEW q \in 0 .. 15, Switched(c, q), NEW b \in Bit, NEW d \in Edge(c, b),
         b = SwitchBits[q + 1]
  PROVE  Switched(d, q + 1)
  <1>1. /\ c \in Chips /\ c.n \in 0 .. 15 /\ c.ones \in 0 .. ResetOnes
        /\ ResetOnes \in Nat /\ ResetOnes > 16
    BY ChipFields, LineOnes DEF ChipOK
  <1>2. /\ SwitchBits[0 + 1] = 0 /\ SwitchBits[1 + 1] = 1
    BY DEF SwitchBits
  <1>3. OnesAfter(c, b) <= q + 1 /\ OnesAfter(c, b) # ResetOnes
    <2>1. CASE q = 0
      <3>1. b = 0
        BY <1>2, <2>1
      <3> QED
        BY <1>1, <2>1, <3>1 DEF OnesAfter
    <2>2. CASE q > 0
      <3>1. c.ones <= q
        BY <2>2 DEF Switched
      <3> QED
        BY <1>1, <3>1, OnesType
    <2> QED
      BY <2>1, <2>2
  <1>4. CASE c.st = "jtag"
    <2> DEFINE n == Recognised(c, b)
    <2>1. /\ d.st = (IF n = 16 THEN "lost" ELSE "jtag")
          /\ d.n = (IF n = 16 THEN 0 ELSE n)
          /\ d.ones = OnesAfter(c, b)
      BY <1>1, <1>4, FromJtag
    <2>2. c.n = q /\ (q = 0 => c.ones = ResetOnes)
      BY <1>4 DEF Switched
    <2>3. n = q + 1
      <3>1. c.n > 0 \/ c.ones = ResetOnes
        BY <1>1, <2>2
      <3> QED
        BY <2>2, <3>1, Zenon DEF Recognised
    <2> HIDE DEF n
    <2> QED
      BY <1>3, <2>1, <2>3 DEF Switched
  <1>5. CASE c.st = "lost"
    <2>1. d.st = "lost" /\ d.ones = OnesAfter(c, b)
      BY <1>1, <1>3, <1>5, FromLost
    <2> QED
      BY <1>3, <2>1 DEF Switched
  <1>6. CASE c.st = "reset"
    <2>1. /\ d.ones = OnesAfter(c, b)
          /\ d.st = (IF b = 1 THEN "lost" ELSE IF c.n = 1 THEN "idle" ELSE "reset")
          /\ d.n = (IF b = 0 /\ c.n = 0 THEN 1 ELSE 0)
      BY <1>1, <1>3, <1>6, FromReset
    <2>2. c.n = q /\ (q = 0 \/ q = 1)
      BY <1>6 DEF Switched
    <2>3. CASE q = 0
      BY <1>2, <1>3, <2>1, <2>2, <2>3 DEF Switched
    <2>4. CASE q = 1
      BY <1>2, <1>3, <2>1, <2>2, <2>4 DEF Switched
    <2> QED
      BY <2>2, <2>3, <2>4
  <1> QED
    BY <1>4, <1>5, <1>6 DEF Switched

\* The switch is complete, the second line reset begins.
LEMMA SwitchedOver ==
  ASSUME NEW c, ChipOK(c), Switched(c, 16)
  PROVE  ShakenAgain(c, 0)
  <1>1. c.n \in 0 .. 15 /\ c.ones \in 0 .. ResetOnes
    BY ChipFields DEF ChipOK
  <1>2. c.st = "lost" /\ c.ones <= 16
    BY <1>1 DEF Switched
  <1> QED
    BY <1>1, <1>2, LineOnes DEF ShakenAgain

LEMMA ShakeAgain ==
  ASSUME NEW c, ChipOK(c), NEW r \in Nat, ShakenAgain(c, r), NEW d \in Edge(c, 1)
  PROVE  ShakenAgain(d, r + 1)
  <1>1. /\ c \in Chips /\ c.n \in 0 .. 15 /\ c.ones \in 0 .. ResetOnes /\ 1 \in Bit
        /\ ResetOnes \in Nat /\ ResetOnes > 16
    BY ChipFields, LineOnes DEF ChipOK, Bit
  <1>2. OnesAfter(c, 1) = IF c.ones = ResetOnes THEN ResetOnes ELSE c.ones + 1
    BY DEF OnesAfter
  <1>3. ASSUME IsReset(c, d) PROVE ShakenAgain(d, r + 1)
    BY <1>3 DEF IsReset, ShakenAgain
  <1>4. CASE c.st = "lost"
    <2>1. c.ones >= r /\ c.ones < ResetOnes
      BY <1>4 DEF ShakenAgain
    <2>2. \/ IsReset(c, d)
          \/ d.st = "lost" /\ d.ones = OnesAfter(c, 1) /\ OnesAfter(c, 1) # ResetOnes
      BY <1>1, <1>4, FromLost
    <2>3. OnesAfter(c, 1) >= r + 1 /\ OnesAfter(c, 1) <= ResetOnes
      BY <1>1, <1>2, <2>1
    <2> QED
      BY <1>1, <1>3, <2>2, <2>3, OnesType DEF ShakenAgain
  <1>5. CASE c.st = "reset"
    <2>1. c.ones = ResetOnes
      BY <1>5 DEF ShakenAgain
    <2>2. IsReset(c, d)
      BY <1>1, <1>2, <1>5, <2>1, FromReset
    <2> QED
      BY <1>3, <2>2
  <1> QED
    BY <1>4, <1>5 DEF ShakenAgain

LEMMA ShakenAgainEnough ==
  ASSUME NEW c, ChipOK(c), ShakenAgain(c, LINE_ONES)
  PROVE  Settled(c, 0)
  <1>1. LINE_ONES >= ResetOnes /\ ResetOnes \in Nat /\ LINE_ONES \in Nat
    BY LineOnes
  <1>2. c.st = "reset" /\ c.n = 0
    <2>1. c.st = "lost" => c.ones >= LINE_ONES /\ c.ones < ResetOnes
      BY DEF ShakenAgain
    <2>2. c.ones \in 0 .. ResetOnes
      BY ChipFields DEF ChipOK
    <2>3. c.st # "lost"
      BY <1>1, <2>1, <2>2
    <2> QED
      BY <2>3 DEF ShakenAgain
  <1> QED
    BY <1>2 DEF Settled

LEMMA Settle ==
  ASSUME NEW c, ChipOK(c), NEW z \in Nat, Settled(c, z), NEW d \in Edge(c, 0)
  PROVE  Settled(d, z + 1)
  <1>1. c \in Chips /\ 0 \in Bit /\ OnesAfter(c, 0) = 0 /\ 0 # ResetOnes
    BY LineOnes DEF ChipOK, Bit, OnesAfter
  <1>2. CASE z <= 1
    <2>1. c.st = "reset" /\ c.n = z /\ (z = 0 \/ z = 1)
      BY <1>2 DEF Settled
    <2>2. /\ d.ones = 0 /\ d.st = (IF c.n = 1 THEN "idle" ELSE "reset")
          /\ d.n = (IF c.n = 0 THEN 1 ELSE 0)
      BY <1>1, <2>1, FromReset
    <2> QED
      BY <2>1, <2>2 DEF Settled
  <1>3. CASE z > 1
    <2>1. c.st = "idle"
      BY <1>3 DEF Settled
    <2>2. d.st = "idle" /\ d.ones = 0
      BY <1>1, <2>1, FromIdle
    <2> QED
      BY <1>3, <2>2 DEF Settled
  <1> QED
    BY <1>2, <1>3

LEMMA SettledEnough ==
  ASSUME NEW c, Settled(c, IDLE)
  PROVE  c.st = "idle" /\ c.ones = 0
  BY LineOnes DEF Settled

-----------------------------------------------------------------------------
\* What the firmware has still to do, from the end: the cycle that is the
\* k-th last of the request and the answer, of a word that is read, of a bad
\* answer, of a word that is written, of init().
AckTo(t, k) == IF k <= 3 THEN In ELSE IF k = 4 THEN Turn ELSE Out(Request(t)[13 - k])

DataTo(k) == IF k = 1 THEN Turn ELSE In

FailTo(k) == IF k = IDLE + 1 THEN Turn ELSE Out(0)

WriteTo(w, k) ==
  IF k <= IDLE THEN Out(0)
  ELSE IF k = IDLE + W + 2 THEN Turn
  ELSE Out(Coded(w)[IDLE + W + 2 - k])

InitTo(k) ==
  IF k <= IDLE THEN Out(0)
  ELSE IF k <= IDLE + LINE_ONES THEN Out(1)
  ELSE IF k <= IDLE + LINE_ONES + 16 THEN Out(SwitchBits[IDLE + LINE_ONES + 17 - k])
  ELSE Out(1)

InitLength == LINE_ONES + 16 + LINE_ONES + IDLE

Cycles == [do : {"write", "read", "turn"}, bit : Bit]

LEMMA CycleTypes ==
  /\ In \in Cycles /\ Turn \in Cycles /\ \A b \in Bit : Out(b) \in Cycles
  /\ 0 \in Bit /\ 1 \in Bit
  BY DEF In, Turn, Out, Cycles, Bit

LEMMA OutAllIs ==
  ASSUME NEW s \in Seq(Bit)
  PROVE  /\ OutAll(s) \in Seq(Cycles) /\ Len(OutAll(s)) = Len(s) /\ Len(s) \in Nat
         /\ \A i \in 1 .. Len(s) : OutAll(s)[i] = Out(s[i])
  <1>1. \A i \in 1 .. Len(s) : s[i] \in Bit
    OBVIOUS
  <1>2. \A i \in 1 .. Len(s) : Out(s[i]) \in Cycles
    BY <1>1, CycleTypes
  <1>3. DOMAIN s = 1 .. Len(s) /\ Len(s) \in Nat
    OBVIOUS
  <1>4. OutAll(s) = [i \in 1 .. Len(s) |-> Out(s[i])]
    BY <1>3 DEF OutAll
  <1>5. OutAll(s) \in [1 .. Len(s) -> Cycles]
    BY <1>2, <1>4
  <1>6. OutAll(s) \in Seq(Cycles) /\ Len(OutAll(s)) = Len(s)
    BY <1>3, <1>5
  <1> QED
    BY <1>3, <1>4, <1>6

LEMMA InsAre ==
  ASSUME NEW n \in Nat
  PROVE  Ins(n) \in Seq(Cycles) /\ Len(Ins(n)) = n /\ \A i \in 1 .. n : Ins(n)[i] = In
  <1>1. Ins(n) \in [1 .. n -> Cycles]
    BY CycleTypes DEF Ins
  <1>2. Ins(n) \in Seq(Cycles) /\ Len(Ins(n)) = n
    BY <1>1
  <1> QED
    BY <1>2 DEF Ins

LEMMA OnesAre ==
  ASSUME NEW n \in Nat
  PROVE  Ones(n) \in Seq(Cycles) /\ Len(Ones(n)) = n /\ \A i \in 1 .. n : Ones(n)[i] = Out(1)
  <1>1. Ones(n) \in [1 .. n -> Cycles]
    BY CycleTypes DEF Ones
  <1>2. Ones(n) \in Seq(Cycles) /\ Len(Ones(n)) = n
    BY <1>1
  <1> QED
    BY <1>2 DEF Ones

LEMMA IdleCyclesAre ==
  /\ IdleCycles \in Seq(Cycles) /\ Len(IdleCycles) = IDLE
  /\ \A i \in 1 .. IDLE : IdleCycles[i] = Out(0)
  <1>1. IDLE \in Nat
    BY LineOnes
  <1>2. IdleCycles \in [1 .. IDLE -> Cycles]
    BY CycleTypes DEF IdleCycles
  <1>3. IdleCycles \in Seq(Cycles) /\ Len(IdleCycles) = IDLE
    BY <1>1, <1>2
  <1> QED
    BY <1>3 DEF IdleCycles

LEMMA TurnIs ==
  <<Turn>> \in Seq(Cycles) /\ Len(<<Turn>>) = 1 /\ <<Turn>>[1] = Turn
  BY CycleTypes

\* Joined, read from the left.
LEMMA JoinedAt ==
  ASSUME NEW S, NEW s \in Seq(S), NEW t \in Seq(S)
  PROVE  /\ s \o t \in Seq(S) /\ Len(s \o t) = Len(s) + Len(t)
         /\ \A i \in 1 .. Len(s) : (s \o t)[i] = s[i]
         /\ \A i \in Len(s) + 1 .. Len(s) + Len(t) : (s \o t)[i] = t[i - Len(s)]
  <1>1. /\ s \o t \in Seq(S) /\ Len(s \o t) = Len(s) + Len(t)
        /\ \A i \in 1 .. Len(s) : (s \o t)[i] = s[i]
        /\ \A i \in 1 .. Len(t) : (s \o t)[Len(s) + i] = t[i]
    BY Joined
  <1>2. ASSUME NEW i \in Len(s) + 1 .. Len(s) + Len(t) PROVE (s \o t)[i] = t[i - Len(s)]
    <2>1. Len(s) \in Nat /\ Len(t) \in Nat
      OBVIOUS
    <2>2. i - Len(s) \in 1 .. Len(t) /\ Len(s) + (i - Len(s)) = i
      BY <2>1
    <2>3. (s \o t)[Len(s) + (i - Len(s))] = t[i - Len(s)]
      BY <1>1, <2>2
    <2> QED
      BY <2>2, <2>3
  <1> QED
    BY <1>1, <1>2

LEMMA AckTodo ==
  ASSUME NEW t \in Transfers
  PROVE  /\ OutAll(Request(t)) \o <<Turn>> \o Ins(3) \in Seq(Cycles)
         /\ Len(OutAll(Request(t)) \o <<Turn>> \o Ins(3)) = 12
         /\ \A i \in 1 .. 12 : (OutAll(Request(t)) \o <<Turn>> \o Ins(3))[i] = AckTo(t, 13 - i)
  <1> DEFINE x == OutAll(Request(t))
             y == <<Turn>>
             z == Ins(3)
  <1>1. x \in Seq(Cycles) /\ Len(x) = 8 /\ \A i \in 1 .. 8 : x[i] = Out(Request(t)[i])
    BY RequestBits, OutAllIs
  <1>2. y \in Seq(Cycles) /\ Len(y) = 1 /\ y[1] = Turn
    BY TurnIs
  <1>3. z \in Seq(Cycles) /\ Len(z) = 3 /\ \A i \in 1 .. 3 : z[i] = In
    BY InsAre
  <1> HIDE DEF x, y, z
  <1> DEFINE u == x \o y
  <1>4. u \in Seq(Cycles) /\ Len(u) = 9 /\ (\A i \in 1 .. 8 : u[i] = Out(Request(t)[i])) /\ u[9] = Turn
    <2>1. /\ x \o y \in Seq(Cycles) /\ Len(x \o y) = Len(x) + Len(y)
          /\ \A i \in 1 .. Len(x) : (x \o y)[i] = x[i]
          /\ \A i \in Len(x) + 1 .. Len(x) + Len(y) : (x \o y)[i] = y[i - Len(x)]
      <3>1. x \in Seq(Cycles) /\ y \in Seq(Cycles)
        BY <1>1, <1>2
      <3> QED
        BY <3>1, JoinedAt, Zenon
    <2>2. /\ u \in Seq(Cycles) /\ Len(u) = 9
          /\ \A i \in 1 .. 8 : u[i] = x[i]
          /\ \A i \in 9 .. 9 : u[i] = y[i - 8]
      BY <1>1, <1>2, <2>1
    <2> QED
      BY <1>1, <1>2, <2>2
  <1> HIDE DEF u
  <1> DEFINE s == u \o z
  <1>5. /\ s \in Seq(Cycles) /\ Len(s) = 12
        /\ \A i \in 1 .. 9 : s[i] = u[i]
        /\ \A i \in 10 .. 12 : s[i] = In
    <2>1. /\ u \o z \in Seq(Cycles) /\ Len(u \o z) = Len(u) + Len(z)
          /\ \A i \in 1 .. Len(u) : (u \o z)[i] = u[i]
          /\ \A i \in Len(u) + 1 .. Len(u) + Len(z) : (u \o z)[i] = z[i - Len(u)]
      <3>1. u \in Seq(Cycles) /\ z \in Seq(Cycles)
        BY <1>3, <1>4
      <3> QED
        BY <3>1, JoinedAt, Zenon
    <2>2. /\ s \in Seq(Cycles) /\ Len(s) = 12
          /\ \A i \in 1 .. 9 : s[i] = u[i]
          /\ \A i \in 10 .. 12 : s[i] = z[i - 9]
      BY <1>3, <1>4, <2>1
    <2>3. \A i \in 10 .. 12 : i - 9 \in 1 .. 3
      OBVIOUS
    <2> QED
      BY <1>3, <2>2, <2>3
  <1> HIDE DEF s
  <1>6. ASSUME NEW i \in 1 .. 12 PROVE s[i] = AckTo(t, 13 - i)
    <2>1. CASE i \in 1 .. 8
      <3>1. 13 - (13 - i) = i /\ ~(13 - i <= 3) /\ 13 - i # 4 /\ i \in 1 .. 9
        BY <2>1
      <3>2. s[i] = Out(Request(t)[i])
        BY <1>4, <1>5, <2>1, <3>1
      <3> QED
        BY <3>1, <3>2, Zenon DEF AckTo
    <2>2. CASE i = 9
      <3>1. s[9] = Turn
        BY <1>4, <1>5
      <3> QED
        BY <2>2, <3>1 DEF AckTo
    <2>3. CASE i \in 10 .. 12
      <3>1. s[i] = In /\ 13 - i <= 3
        BY <1>5, <2>3
      <3> QED
        BY <3>1 DEF AckTo
    <2>4. i \in 1 .. 8 \/ i = 9 \/ i \in 10 .. 12
      OBVIOUS
    <2> QED
      BY <2>1, <2>2, <2>3, <2>4
  <1> QED
    BY <1>5, <1>6 DEF u, x, y, z, s

LEMMA DataTodo ==
  /\ Ins(W + 1) \o <<Turn>> \in Seq(Cycles)
  /\ Len(Ins(W + 1) \o <<Turn>>) = W + 2
  /\ \A i \in 1 .. W + 2 : (Ins(W + 1) \o <<Turn>>)[i] = DataTo(W + 3 - i)
  <1> DEFINE x == Ins(W + 1)
             y == <<Turn>>
             s == x \o y
  <1>0. W \in Nat /\ W + 1 \in Nat
    BY LineOnes
  <1>1. x \in Seq(Cycles) /\ Len(x) = W + 1 /\ \A i \in 1 .. W + 1 : x[i] = In
    BY <1>0, InsAre
  <1>2. y \in Seq(Cycles) /\ Len(y) = 1 /\ y[1] = Turn
    BY TurnIs
  <1> HIDE DEF x, y
  <1>3. /\ x \o y \in Seq(Cycles) /\ Len(x \o y) = Len(x) + Len(y)
        /\ \A i \in 1 .. Len(x) : (x \o y)[i] = x[i]
        /\ \A i \in Len(x) + 1 .. Len(x) + Len(y) : (x \o y)[i] = y[i - Len(x)]
    <2>1. x \in Seq(Cycles) /\ y \in Seq(Cycles)
      BY <1>1, <1>2
    <2> QED
      BY <2>1, JoinedAt, Zenon
  <1>4. /\ s \in Seq(Cycles) /\ Len(s) = W + 2
        /\ \A i \in 1 .. W + 1 : s[i] = x[i]
        /\ s[W + 2] = y[1]
    <2>3. ASSUME NEW i, i = W + 2 PROVE s[i] = y[1]
      <3>1. i \in Len(x) + 1 .. Len(x) + Len(y) /\ i - Len(x) = 1
        BY <1>0, <1>1, <1>2, <2>3
      <3>2. s[i] = y[i - Len(x)]
        BY <1>3, <3>1, Zenon
      <3> QED
        BY <3>1, <3>2, Zenon
    <2> QED
      BY <1>0, <1>1, <1>2, <1>3, <2>3
  <1> HIDE DEF s
  <1>5. ASSUME NEW i \in 1 .. W + 2 PROVE s[i] = DataTo(W + 3 - i)
    <2>1. CASE i \in 1 .. W + 1
      <3>1. W + 3 - i # 1
        BY <1>0, <2>1
      <3> QED
        BY <1>1, <1>4, <2>1, <3>1 DEF DataTo
    <2>2. CASE i = W + 2
      <3>1. W + 3 - i = 1
        BY <1>0, <2>2
      <3> QED
        BY <1>2, <1>4, <2>2, <3>1 DEF DataTo
    <2>3. i \in 1 .. W + 1 \/ i = W + 2
      BY <1>0
    <2> QED
      BY <2>1, <2>2, <2>3
  <1> QED
    BY <1>4, <1>5 DEF x, y, s

LEMMA FailTodo ==
  /\ <<Turn>> \o IdleCycles \in Seq(Cycles)
  /\ Len(<<Turn>> \o IdleCycles) = IDLE + 1
  /\ \A i \in 1 .. IDLE + 1 : (<<Turn>> \o IdleCycles)[i] = FailTo(IDLE + 2 - i)
  <1> DEFINE x == <<Turn>>
             y == IdleCycles
             s == x \o y
  <1>0. IDLE \in Nat
    BY LineOnes
  <1>1. y \in Seq(Cycles) /\ Len(y) = IDLE /\ \A i \in 1 .. IDLE : y[i] = Out(0)
    BY IdleCyclesAre
  <1>2. x \in Seq(Cycles) /\ Len(x) = 1 /\ x[1] = Turn
    BY TurnIs
  <1> HIDE DEF x, y
  <1>3. /\ x \o y \in Seq(Cycles) /\ Len(x \o y) = Len(x) + Len(y)
        /\ \A i \in 1 .. Len(x) : (x \o y)[i] = x[i]
        /\ \A i \in Len(x) + 1 .. Len(x) + Len(y) : (x \o y)[i] = y[i - Len(x)]
    <2>1. x \in Seq(Cycles) /\ y \in Seq(Cycles)
      BY <1>1, <1>2
    <2> QED
      BY <2>1, JoinedAt, Zenon
  <1>4. /\ s \in Seq(Cycles) /\ Len(s) = IDLE + 1
        /\ \A i \in 1 .. 1 : s[i] = x[i]
        /\ \A i \in 2 .. IDLE + 1 : s[i] = y[i - 1]
    BY <1>0, <1>1, <1>2, <1>3
  <1> HIDE DEF s
  <1>5. ASSUME NEW i \in 1 .. IDLE + 1 PROVE s[i] = FailTo(IDLE + 2 - i)
    <2>1. CASE i = 1
      BY <1>0, <1>2, <1>4, <2>1 DEF FailTo
    <2>2. CASE i \in 2 .. IDLE + 1
      <3>1. IDLE + 2 - i # IDLE + 1 /\ i - 1 \in 1 .. IDLE
        BY <1>0, <2>2
      <3>2. s[i] = Out(0)
        BY <1>1, <1>4, <2>2, <3>1
      <3> QED
        BY <3>1, <3>2 DEF FailTo
    <2>3. i = 1 \/ i \in 2 .. IDLE + 1
      BY <1>0
    <2> QED
      BY <2>1, <2>2, <2>3
  <1> QED
    BY <1>4, <1>5 DEF x, y, s

LEMMA WriteTodo ==
  ASSUME NEW w \in Words
  PROVE  LET s == <<Turn>> \o OutAll(w) \o <<Out(Parity(w))>> \o IdleCycles
         IN  /\ s \in Seq(Cycles) /\ Len(s) = IDLE + W + 2
             /\ \A i \in 1 .. IDLE + W + 2 : s[i] = WriteTo(w, IDLE + W + 3 - i)
  <1> DEFINE x == <<Turn>>
             y == OutAll(w)
             z == <<Out(Parity(w))>>
             v == IdleCycles
  <1>0. IDLE \in Nat /\ W \in Nat
    BY LineOnes
  <1>1. x \in Seq(Cycles) /\ Len(x) = 1 /\ x[1] = Turn
    BY TurnIs
  <1>2. y \in Seq(Cycles) /\ Len(y) = W /\ \A i \in 1 .. W : y[i] = Out(Coded(w)[i])
    <2>1. w \in Seq(Bit) /\ Len(w) = W /\ \A i \in 1 .. W : Coded(w)[i] = w[i]
      BY WordIsBits, CodedWord
    <2> QED
      BY <2>1, OutAllIs
  <1>3. z \in Seq(Cycles) /\ Len(z) = 1 /\ z[1] = Out(Coded(w)[W + 1])
    <2>1. Out(Parity(w)) \in Cycles /\ Coded(w)[W + 1] = Parity(w)
      BY CodedWord, CycleTypes
    <2> QED
      BY <2>1
  <1>4. v \in Seq(Cycles) /\ Len(v) = IDLE /\ \A i \in 1 .. IDLE : v[i] = Out(0)
    BY IdleCyclesAre
  <1> HIDE DEF x, y, z, v
  <1> DEFINE a == x \o y
  <1>5. /\ a \in Seq(Cycles) /\ Len(a) = W + 1 /\ a[1] = Turn
        /\ \A i \in 2 .. W + 1 : a[i] = Out(Coded(w)[i - 1])
    <2>1. /\ x \o y \in Seq(Cycles) /\ Len(x \o y) = Len(x) + Len(y)
          /\ \A i \in 1 .. Len(x) : (x \o y)[i] = x[i]
          /\ \A i \in Len(x) + 1 .. Len(x) + Len(y) : (x \o y)[i] = y[i - Len(x)]
      <3>1. x \in Seq(Cycles) /\ y \in Seq(Cycles)
        BY <1>1, <1>2
      <3> QED
        BY <3>1, JoinedAt, Zenon
    <2>2. /\ a \in Seq(Cycles) /\ Len(a) = W + 1
          /\ \A i \in 1 .. 1 : a[i] = x[i]
          /\ \A i \in 2 .. W + 1 : a[i] = y[i - 1]
      BY <1>0, <1>1, <1>2, <2>1
    <2>3. \A i \in 2 .. W + 1 : i - 1 \in 1 .. W
      BY <1>0
    <2> QED
      BY <1>1, <1>2, <2>2, <2>3
  <1> HIDE DEF a
  <1> DEFINE b == a \o z
  <1>6. /\ b \in Seq(Cycles) /\ Len(b) = W + 2 /\ b[1] = Turn
        /\ \A i \in 2 .. W + 2 : b[i] = Out(Coded(w)[i - 1])
    <2>1. /\ a \o z \in Seq(Cycles) /\ Len(a \o z) = Len(a) + Len(z)
          /\ \A i \in 1 .. Len(a) : (a \o z)[i] = a[i]
          /\ \A i \in Len(a) + 1 .. Len(a) + Len(z) : (a \o z)[i] = z[i - Len(a)]
      <3>1. a \in Seq(Cycles) /\ z \in Seq(Cycles)
        BY <1>3, <1>5
      <3> QED
        BY <3>1, JoinedAt, Zenon
    <2>2. /\ b \in Seq(Cycles) /\ Len(b) = W + 2
          /\ \A i \in 1 .. W + 1 : b[i] = a[i]
      <3>1. Len(b) = W + 2
        BY <1>0, <1>3, <1>5, <2>1
      <3> QED
        BY <1>5, <2>1, <3>1, Zenon
    <2>3. b[W + 2] = Out(Coded(w)[W + 2 - 1])
      <3>1. ASSUME NEW i, i = W + 2 PROVE b[i] = z[1]
        <4>1. i \in Len(a) + 1 .. Len(a) + Len(z) /\ i - Len(a) = 1
          BY <1>0, <1>3, <1>5, <3>1
        <4>2. b[i] = z[i - Len(a)]
          BY <2>1, <4>1, Zenon
        <4> QED
          BY <4>1, <4>2, Zenon
      <3>2. b[W + 2] = z[1]
        BY <3>1, Zenon
      <3>3. W + 2 - 1 = W + 1
        BY <1>0
      <3> QED
        BY <1>3, <3>2, <3>3, Zenon
    <2>4. \A i \in 2 .. W + 2 : i \in 2 .. W + 1 \/ i = W + 2
      BY <1>0
    <2>5. 1 \in 1 .. W + 1 /\ \A i \in 2 .. W + 1 : i \in 1 .. W + 1
      BY <1>0
    <2> QED
      BY <1>5, <2>2, <2>3, <2>4, <2>5
  <1> HIDE DEF b
  <1> DEFINE s == b \o v
  <1>7. /\ s \in Seq(Cycles) /\ Len(s) = IDLE + W + 2
        /\ \A i \in 1 .. W + 2 : s[i] = b[i]
        /\ \A i \in W + 3 .. IDLE + W + 2 : s[i] = Out(0)
    <2>1. /\ b \o v \in Seq(Cycles) /\ Len(b \o v) = Len(b) + Len(v)
          /\ \A i \in 1 .. Len(b) : (b \o v)[i] = b[i]
          /\ \A i \in Len(b) + 1 .. Len(b) + Len(v) : (b \o v)[i] = v[i - Len(b)]
      <3>1. b \in Seq(Cycles) /\ v \in Seq(Cycles)
        BY <1>4, <1>6
      <3> QED
        BY <3>1, JoinedAt, Zenon
    <2>2. /\ s \in Seq(Cycles) /\ Len(s) = IDLE + W + 2
          /\ \A i \in 1 .. W + 2 : s[i] = b[i]
          /\ \A i \in W + 3 .. IDLE + W + 2 : s[i] = v[i - (W + 2)]
      BY <1>0, <1>4, <1>6, <2>1
    <2>3. \A i \in W + 3 .. IDLE + W + 2 : i - (W + 2) \in 1 .. IDLE
      BY <1>0
    <2> QED
      BY <1>4, <2>2, <2>3
  <1> HIDE DEF s
  <1>8. ASSUME NEW i \in 1 .. IDLE + W + 2 PROVE s[i] = WriteTo(w, IDLE + W + 3 - i)
    <2> DEFINE k == IDLE + W + 3 - i
    <2>1. CASE i = 1
      <3>1. k = IDLE + W + 2 /\ ~(k <= IDLE) /\ 1 \in 1 .. W + 2
        BY <1>0, <2>1
      <3>2. s[i] = Turn
        BY <1>6, <1>7, <2>1, <3>1
      <3> QED
        BY <3>1, <3>2 DEF WriteTo
    <2>2. CASE i \in 2 .. W + 2
      <3>1. k # IDLE + W + 2 /\ ~(k <= IDLE) /\ i \in 1 .. W + 2 /\ IDLE + W + 2 - k = i - 1
        BY <1>0, <2>2
      <3>2. s[i] = Out(Coded(w)[i - 1])
        BY <1>6, <1>7, <2>2, <3>1
      <3> HIDE DEF k
      <3>3. WriteTo(w, k) = Out(Coded(w)[i - 1])
        BY <3>1 DEF WriteTo
      <3> QED
        BY <3>2, <3>3 DEF k
    <2>3. CASE i \in W + 3 .. IDLE + W + 2
      <3>1. k <= IDLE
        BY <1>0, <2>3
      <3>2. s[i] = Out(0)
        BY <1>7, <2>3
      <3> QED
        BY <3>1, <3>2 DEF WriteTo
    <2>4. i = 1 \/ i \in 2 .. W + 2 \/ i \in W + 3 .. IDLE + W + 2
      BY <1>0
    <2> QED
      BY <2>1, <2>2, <2>3, <2>4
  <1> QED
    BY <1>7, <1>8 DEF x, y, z, v, a, b, s

LEMMA SwitchBitsAre ==
  SwitchBits \in Seq(Bit) /\ Len(SwitchBits) = 16
  <1>1. SwitchBits \in Seq(Bit)
    BY CycleTypes DEF SwitchBits
  <1> QED
    BY <1>1 DEF SwitchBits

LEMMA InitTodo ==
  LET s == Ones(LINE_ONES) \o OutAll(SwitchBits) \o Ones(LINE_ONES) \o IdleCycles
  IN  /\ s \in Seq(Cycles) /\ Len(s) = InitLength
      /\ \A i \in 1 .. InitLength : s[i] = InitTo(InitLength + 1 - i)
  <1> DEFINE L == LINE_ONES
             x == Ones(L)
             y == OutAll(SwitchBits)
             v == IdleCycles
  <1>0. IDLE \in Nat /\ L \in Nat
    BY LineOnes
  <1>1. x \in Seq(Cycles) /\ Len(x) = L /\ \A i \in 1 .. L : x[i] = Out(1)
    BY <1>0, OnesAre
  <1>2. y \in Seq(Cycles) /\ Len(y) = 16 /\ \A i \in 1 .. 16 : y[i] = Out(SwitchBits[i])
    BY SwitchBitsAre, OutAllIs
  <1>4. v \in Seq(Cycles) /\ Len(v) = IDLE /\ \A i \in 1 .. IDLE : v[i] = Out(0)
    BY IdleCyclesAre
  <1> HIDE DEF L, x, y, v
  <1> DEFINE a == x \o y
  <1>5. /\ a \in Seq(Cycles) /\ Len(a) = L + 16
        /\ \A i \in 1 .. L : a[i] = Out(1)
        /\ \A i \in L + 1 .. L + 16 : a[i] = Out(SwitchBits[i - L])
    <2>1. /\ x \o y \in Seq(Cycles) /\ Len(x \o y) = Len(x) + Len(y)
          /\ \A i \in 1 .. Len(x) : (x \o y)[i] = x[i]
          /\ \A i \in Len(x) + 1 .. Len(x) + Len(y) : (x \o y)[i] = y[i - Len(x)]
      <3>1. x \in Seq(Cycles) /\ y \in Seq(Cycles)
        BY <1>1, <1>2
      <3> QED
        BY <3>1, JoinedAt, Zenon
    <2>2. /\ a \in Seq(Cycles) /\ Len(a) = L + 16
          /\ \A i \in 1 .. L : a[i] = x[i]
          /\ \A i \in L + 1 .. L + 16 : a[i] = y[i - L]
      BY <1>0, <1>1, <1>2, <2>1
    <2>3. \A i \in L + 1 .. L + 16 : i - L \in 1 .. 16
      BY <1>0
    <2> QED
      BY <1>1, <1>2, <2>2, <2>3
  <1> HIDE DEF a
  <1> DEFINE b == a \o x
  <1>6. /\ b \in Seq(Cycles) /\ Len(b) = L + 16 + L
        /\ \A i \in 1 .. L + 16 : b[i] = a[i]
        /\ \A i \in L + 17 .. L + 16 + L : b[i] = Out(1)
    <2>1. /\ a \o x \in Seq(Cycles) /\ Len(a \o x) = Len(a) + Len(x)
          /\ \A i \in 1 .. Len(a) : (a \o x)[i] = a[i]
          /\ \A i \in Len(a) + 1 .. Len(a) + Len(x) : (a \o x)[i] = x[i - Len(a)]
      <3>1. a \in Seq(Cycles) /\ x \in Seq(Cycles)
        BY <1>1, <1>5
      <3> QED
        BY <3>1, JoinedAt, Zenon
    <2>2. /\ b \in Seq(Cycles) /\ Len(b) = L + 16 + L
          /\ \A i \in 1 .. L + 16 : b[i] = a[i]
          /\ \A i \in L + 17 .. L + 16 + L : b[i] = x[i - (L + 16)]
      BY <1>0, <1>1, <1>5, <2>1
    <2>3. \A i \in L + 17 .. L + 16 + L : i - (L + 16) \in 1 .. L
      BY <1>0
    <2> QED
      BY <1>1, <2>2, <2>3
  <1> HIDE DEF b
  <1> DEFINE s == b \o v
  <1>7. /\ s \in Seq(Cycles) /\ Len(s) = L + 16 + L + IDLE
        /\ \A i \in 1 .. L + 16 + L : s[i] = b[i]
        /\ \A i \in L + 17 + L .. L + 16 + L + IDLE : s[i] = Out(0)
    <2>1. /\ b \o v \in Seq(Cycles) /\ Len(b \o v) = Len(b) + Len(v)
          /\ \A i \in 1 .. Len(b) : (b \o v)[i] = b[i]
          /\ \A i \in Len(b) + 1 .. Len(b) + Len(v) : (b \o v)[i] = v[i - Len(b)]
      <3>1. b \in Seq(Cycles) /\ v \in Seq(Cycles)
        BY <1>4, <1>6
      <3> QED
        BY <3>1, JoinedAt, Zenon
    <2>2. /\ s \in Seq(Cycles) /\ Len(s) = L + 16 + L + IDLE
          /\ \A i \in 1 .. L + 16 + L : s[i] = b[i]
          /\ \A i \in L + 17 + L .. L + 16 + L + IDLE : s[i] = v[i - (L + 16 + L)]
      BY <1>0, <1>4, <1>6, <2>1
    <2>3. \A i \in L + 17 + L .. L + 16 + L + IDLE : i - (L + 16 + L) \in 1 .. IDLE
      BY <1>0
    <2> QED
      BY <1>4, <2>2, <2>3
  <1> HIDE DEF s
  <1>8. ASSUME NEW i \in 1 .. L + 16 + L + IDLE PROVE s[i] = InitTo(L + 16 + L + IDLE + 1 - i)
    <2> DEFINE k == L + 16 + L + IDLE + 1 - i
    <2>1. CASE i \in 1 .. L
      <3>1. ~(k <= IDLE) /\ ~(k <= IDLE + L) /\ ~(k <= IDLE + L + 16) /\ i \in 1 .. L + 16 /\ i \in 1 .. L + 16 + L
        BY <1>0, <2>1
      <3>2. s[i] = Out(1)
        BY <1>5, <1>6, <1>7, <2>1, <3>1
      <3> HIDE DEF k
      <3>3. InitTo(k) = Out(1)
        BY <3>1, Zenon DEF InitTo, L
      <3> QED
        BY <3>2, <3>3 DEF k
    <2>2. CASE i \in L + 1 .. L + 16
      <3>1. /\ ~(k <= IDLE) /\ ~(k <= IDLE + L) /\ k <= IDLE + L + 16 /\ i \in 1 .. L + 16 /\ i \in 1 .. L + 16 + L
            /\ IDLE + L + 17 - k = i - L
        BY <1>0, <2>2
      <3>2. s[i] = Out(SwitchBits[i - L])
        BY <1>5, <1>6, <1>7, <2>2, <3>1
      <3> HIDE DEF k
      <3>3. InitTo(k) = Out(SwitchBits[IDLE + L + 17 - k])
        BY <3>1, Zenon DEF InitTo, L
      <3> QED
        BY <3>1, <3>2, <3>3 DEF k
    <2>3. CASE i \in L + 17 .. L + 16 + L
      <3>1. ~(k <= IDLE) /\ k <= IDLE + L /\ i \in 1 .. L + 16 + L
        BY <1>0, <2>3
      <3>2. s[i] = Out(1)
        BY <1>6, <1>7, <2>3, <3>1
      <3> HIDE DEF k
      <3>3. InitTo(k) = Out(1)
        BY <3>1, Zenon DEF InitTo, L
      <3> QED
        BY <3>2, <3>3 DEF k
    <2>4. CASE i \in L + 17 + L .. L + 16 + L + IDLE
      <3>1. k <= IDLE
        BY <1>0, <2>4
      <3>2. s[i] = Out(0)
        BY <1>7, <2>4
      <3> QED
        BY <3>1, <3>2 DEF InitTo
    <2>5. i \in 1 .. L \/ i \in L + 1 .. L + 16 \/ i \in L + 17 .. L + 16 + L \/ i \in L + 17 + L .. L + 16 + L + IDLE
      BY <1>0
    <2> QED
      BY <2>1, <2>2, <2>3, <2>4, <2>5
  <1>9. InitLength = L + 16 + L + IDLE
    BY DEF InitLength, L
  <1> QED
    BY <1>7, <1>8, <1>9 DEF x, y, v, a, b, s, L

-----------------------------------------------------------------------------
\* The chip in step with the firmware: at the start of a request, after k bits
\* of the request t with m samples flipped, and when it has not understood it.
Synced(c) == c.st = "idle" /\ c.ones = 0

Hearing(c, t, k, m) ==
  IF k = 0 THEN Synced(c)
  ELSE c.st = "request" /\ Len(c.bits) = k /\ c.ones <= k /\ Near(c.bits, Request(t), m)

\* The accesses performed since the operation o began: n of them.
History(c, o, n) ==
  /\ Len(c.did) = n /\ n \in 0 .. 2
  /\ n >= 1 => /\ c.did[1].ap = TransferOf(o).ap /\ c.did[1].rnw = TransferOf(o).rnw
               /\ c.did[1].addr = TransferOf(o).addr
               /\ ~TransferOf(o).rnw => c.did[1].word = TransferOf(o).word
               /\ o.kind = "read_ap" => c.posted = c.did[1].word
  /\ n = 2 => /\ o.kind = "read_ap" /\ ~c.did[2].ap /\ c.did[2].rnw /\ c.did[2].addr = 3

\* The transfers of an operation, and the accesses before the last of them.
IsTransferOf(o, t) == t = TransferOf(o) \/ (o.kind = "read_ap" /\ t = Rdbuff(o.word))

Before(o, t) == IF o.kind = "read_ap" /\ ~t.ap THEN 1 ELSE 0

\* The answer to t, k bits of the acknowledgement to come.
AnswerIs(c, t, k) ==
  /\ c.access = AccessOf(t)
  /\ Len(c.send) = k + ReadTail(c)
  /\ \A i \in 1 .. k : c.send[i] = AckBits[c.ack][3 - k + i]
  /\ ReadTail(c) # 0 /\ ~t.ap => \A i \in 1 .. W + 1 : c.send[k + i] = Coded(c.did[1].word)[i]

\* A word that is read, j of its bits to come.
Sending(c, t, j) ==
  /\ Len(c.send) = j
  /\ ~t.ap => \A i \in 1 .. j : c.send[i] = Coded(c.did[1].word)[W + 1 - j + i]

\* A word that is written, after k of its bits.
Taking(c, t, k, m) ==
  c.st = "data" /\ c.access = AccessOf(t) /\ Len(c.bits) = k /\ c.ones <= k /\ Near(c.bits, Coded(t.word), m)

LEMMA KindOfTransfer ==
  ASSUME NEW o \in Accesses
  PROVE  /\ TransferOf(o) \in Transfers /\ Rdbuff(o.word) \in Transfers
         /\ o.kind \in Kinds /\ o.word \in Words
         /\ TransferOf(o).ap <=> o.kind \in {"read_ap", "write_ap"}
         /\ TransferOf(o).rnw <=> o.kind \in {"read_dp", "read_ap"}
         /\ TransferOf(o).word = o.word
         /\ ~Rdbuff(o.word).ap /\ Rdbuff(o.word).rnw /\ Rdbuff(o.word).addr = 3
  <1>1. o \in [kind : Kinds, addr : 0 .. 3, word : Words]
    BY SwdAssumption
  <1>2. o.kind \in Kinds /\ o.addr \in 0 .. 3 /\ o.word \in Words
    BY <1>1
  <1>3. /\ TransferOf(o).ap = (o.kind \in {"read_ap", "write_ap"}) /\ TransferOf(o).rnw = (o.kind \in {"read_dp", "read_ap"})
        /\ TransferOf(o).addr = o.addr /\ TransferOf(o).word = o.word
    BY DEF TransferOf
  <1>4. TransferOf(o) \in Transfers
    BY <1>2 DEF TransferOf, Transfers
  <1>5. /\ Rdbuff(o.word) \in Transfers
        /\ ~Rdbuff(o.word).ap /\ Rdbuff(o.word).rnw /\ Rdbuff(o.word).addr = 3
    BY <1>2 DEF Rdbuff, Transfers
  <1> QED
    BY <1>2, <1>3, <1>4, <1>5

LEMMA AccessOfType ==
  ASSUME NEW t \in Transfers
  PROVE  /\ AccessOf(t) \in [ap : BOOLEAN, rnw : BOOLEAN, addr : 0 .. 3]
         /\ AccessOf(t).ap = t.ap /\ AccessOf(t).rnw = t.rnw /\ AccessOf(t).addr = t.addr
         /\ t.ap \in BOOLEAN /\ t.rnw \in BOOLEAN /\ t.addr \in 0 .. 3 /\ t.word \in Words
  BY DEF Transfers, AccessOf

\* One more bit of a request.
LEMMA Hear ==
  ASSUME NEW c, ChipOK(c), NEW t \in Transfers, NEW k \in 0 .. 6, NEW m \in Bit, NEW flip \in Bit, m + flip <= 1,
         Hearing(c, t, k, m), NEW b, b = (Request(t)[k + 1] + flip) % 2, NEW d \in Edge(c, b),
         c.st = "idle" => flip = 0
  PROVE  Hearing(d, t, k + 1, m + flip) /\ Same(c, d)
  <1>1. /\ c \in Chips /\ c.ones \in 0 .. ResetOnes /\ c.bits \in Seq(Bit)
        /\ ResetOnes \in Nat /\ ResetOnes > 16
    BY ChipFields, LineOnes DEF ChipOK
  <1>2. Request(t) \in Seq(Bit) /\ Len(Request(t)) = 8 /\ Request(t)[1] = 1
    BY RequestBits
  <1>3. CASE k = 0
    <2>1. c.st = "idle" /\ c.ones = 0
      BY <1>3 DEF Hearing, Synced
    <2>2. b = 1 /\ 1 \in Bit
      BY <1>2, <1>3, <2>1, CycleTypes
    <2>3. OnesAfter(c, b) = 1 /\ OnesAfter(c, b) # ResetOnes
      BY <1>1, <2>1, <2>2 DEF OnesAfter
    <2>4. d.st = "request" /\ d.bits = << 1 >> /\ d.ones = 1 /\ Same(c, d)
      BY <1>1, <2>1, <2>2, <2>3, FromIdle
    <2>5. Len(d.bits) = 1 /\ d.bits[1] = 1
      BY <2>4
    <2>6. Near(d.bits, Request(t), m + flip)
      BY <1>2, <2>5 DEF Near
    <2> QED
      BY <1>3, <2>4, <2>5, <2>6 DEF Hearing
  <1>4. CASE k \in 1 .. 6
    <2>1. c.st = "request" /\ Len(c.bits) = k /\ c.ones <= k /\ Near(c.bits, Request(t), m)
      BY <1>4 DEF Hearing
    <2>2. /\ Near(Append(c.bits, b), Request(t), m + flip) /\ b \in Bit
          /\ Append(c.bits, b) \in Seq(Bit) /\ Len(Append(c.bits, b)) = k + 1
      <3>1. Len(c.bits) < Len(Request(t)) /\ b = (Request(t)[Len(c.bits) + 1] + flip) % 2
        BY <1>2, <1>4, <2>1
      <3>2. /\ Near(Append(c.bits, b), Request(t), m + flip) /\ b \in Bit
            /\ Append(c.bits, b) \in Seq(Bit) /\ Len(Append(c.bits, b)) = Len(c.bits) + 1
        <4> DEFINE rq == Request(t)
                   bi == c.bits
        <4>1. bi \in Seq(Bit) /\ rq \in Seq(Bit) /\ m \in Bit /\ flip \in Bit
          BY <1>1, <1>2
        <4>2. m + flip <= 1 /\ Near(bi, rq, m) /\ Len(bi) < Len(rq) /\ b = (rq[Len(bi) + 1] + flip) % 2
          BY <2>1, <3>1
        <4> HIDE DEF rq, bi
        <4>3. /\ Near(Append(bi, b), rq, m + flip) /\ b \in Bit
              /\ Append(bi, b) \in Seq(Bit) /\ Len(Append(bi, b)) = Len(bi) + 1
          BY <4>1, <4>2, NearGrows
        <4> QED
          BY <4>3 DEF rq, bi
      <3> QED
        BY <2>1, <3>2
    <2>3. OnesAfter(c, b) <= k + 1 /\ OnesAfter(c, b) # ResetOnes
      <3>1. OnesAfter(c, b) \in 0 .. ResetOnes /\ OnesAfter(c, b) <= c.ones + 1
        BY <1>1, <2>2, OnesType
      <3>2. c.ones <= k /\ k \in 1 .. 6 /\ c.ones \in 0 .. ResetOnes /\ ResetOnes \in Nat /\ ResetOnes > 16
        BY <1>1, <1>4, <2>1
      <3> QED
        BY <3>1, <3>2
    <2>4. Len(c.bits) \in 1 .. 7 /\ Len(c.bits) # 7
      BY <1>4, <2>1
    <2>5. d.st = "request" /\ d.bits = Append(c.bits, b) /\ d.ones = OnesAfter(c, b) /\ Same(c, d)
      BY <1>1, <2>1, <2>2, <2>3, <2>4, FromRequest
    <2>6. k + 1 # 0
      BY <1>4
    <2> QED
      BY <2>2, <2>3, <2>5, <2>6 DEF Hearing
  <1> QED
    BY <1>3, <1>4

\* The last bit of a request: it is answered, or it was garbled.
LEMMA HearAll ==
  ASSUME NEW c, ChipOK(c), NEW t \in Transfers, NEW m \in Bit, NEW flip \in Bit, m + flip <= 1,
         Hearing(c, t, 7, m), NEW b, b = (Request(t)[8] + flip) % 2, NEW d \in Edge(c, b)
  PROVE  \/ d.st = "lost" /\ m + flip = 1 /\ d.ones <= 8 /\ Same(c, d)
         \/ IsAnswer(c, d, AccessOf(t))
  <1>1. /\ c \in Chips /\ c.ones \in 0 .. ResetOnes /\ c.bits \in Seq(Bit)
        /\ ResetOnes \in Nat /\ ResetOnes > 16
    BY ChipFields, LineOnes DEF ChipOK
  <1>2. Request(t) \in Seq(Bit) /\ Len(Request(t)) = 8
    BY RequestBits
  <1>3. c.st = "request" /\ Len(c.bits) = 7 /\ c.ones <= 7 /\ Near(c.bits, Request(t), m)
    BY DEF Hearing
  <1> DEFINE r == Append(c.bits, b)
  <1>4. /\ Near(r, Request(t), m + flip) /\ b \in Bit
        /\ r \in Seq(Bit) /\ Len(r) = 8
    <2>1. Len(c.bits) < Len(Request(t)) /\ b = (Request(t)[Len(c.bits) + 1] + flip) % 2
      BY <1>2, <1>3
    <2>2. /\ Near(r, Request(t), m + flip) /\ b \in Bit
          /\ r \in Seq(Bit) /\ Len(r) = Len(c.bits) + 1
      <3> DEFINE rq == Request(t)
                 bi == c.bits
      <3>1. bi \in Seq(Bit) /\ rq \in Seq(Bit) /\ m \in Bit /\ flip \in Bit
        BY <1>1, <1>2
      <3>2. m + flip <= 1 /\ Near(bi, rq, m) /\ Len(bi) < Len(rq) /\ b = (rq[Len(bi) + 1] + flip) % 2
        BY <1>3, <2>1
      <3> HIDE DEF rq, bi
      <3>3. /\ Near(Append(bi, b), rq, m + flip) /\ b \in Bit
            /\ Append(bi, b) \in Seq(Bit) /\ Len(Append(bi, b)) = Len(bi) + 1
        BY <3>1, <3>2, NearGrows
      <3> QED
        BY <3>3 DEF rq, bi
    <2> QED
      BY <1>3, <2>2
  <1>5. OnesAfter(c, b) <= 8 /\ OnesAfter(c, b) # ResetOnes
    BY <1>1, <1>3, <1>4, OnesType
  <1>6. Len(c.bits) \in 1 .. 7
    BY <1>3
  <1>7. \/ ~WellFormed(r) /\ d.st = "lost" /\ d.ones = OnesAfter(c, b) /\ Same(c, d)
        \/ WellFormed(r) /\ IsAnswer(c, d, Access(r))
    BY <1>1, <1>3, <1>4, <1>5, <1>6, FromRequest
  <1>8. (WellFormed(r) => Access(r) = AccessOf(t)) /\ (m + flip = 0 => WellFormed(r))
    BY <1>4, NearRequest
  <1>9. m + flip = 0 \/ m + flip = 1
    BY DEF Bit
  <1> QED
    BY <1>5, <1>7, <1>8, <1>9

\* What an answer leaves in the history.
LEMMA AnswerDone ==
  ASSUME NEW c, ChipOK(c), NEW d, NEW o \in Accesses, NEW t \in Transfers, IsTransferOf(o, t),
         IsAnswer(c, d, AccessOf(t)), History(c, o, Before(o, t))
  PROVE  /\ AnswerIs(d, t, 3) /\ d.st = "turn"
         /\ History(d, o, Before(o, t) + (IF ReadTail(d) = 0 THEN 0 ELSE 1))
  <1> DEFINE a == AccessOf(t)
             e == Before(o, t)
  <1>1. /\ c \in Chips /\ c.did \in Seq(Done1) /\ c.posted \in Words /\ W \in Nat \ {0}
        /\ a \in [ap : BOOLEAN, rnw : BOOLEAN, addr : 0 .. 3] /\ a.ap = t.ap /\ a.rnw = t.rnw /\ a.addr = t.addr
    BY ChipFields, LineOnes, AccessOfType DEF ChipOK
  <1>2. d.st = "turn" /\ d.access = a /\ d.ack \in Acks
    BY DEF IsAnswer
  <1>3. /\ Len(d.send) = 3 + ReadTail(d)
        /\ \A i \in 1 .. 3 : d.send[i] = AckBits[d.ack][i]
        /\ d.ack = "ok" /\ a.rnw =>
             \E held \in Words :
               /\ ~a.ap /\ a.addr = 3 => held = c.posted
               /\ d.posted = IF a.ap THEN held ELSE c.posted
               /\ d.did = Append(c.did, Acked(a, held))
               /\ ~a.ap => \A i \in 1 .. W + 1 : d.send[3 + i] = Coded(held)[i]
        /\ ~(d.ack = "ok" /\ a.rnw) => d.posted = c.posted /\ d.did = c.did
    BY <1>1, AnswerBits
  <1>4. ReadTail(d) = (IF d.ack = "ok" /\ a.rnw THEN W + 1 ELSE 0) /\ W + 1 # 0
    BY <1>1, <1>2 DEF ReadTail
  <1>5. /\ TransferOf(o).rnw <=> o.kind \in {"read_dp", "read_ap"}
        /\ TransferOf(o).ap <=> o.kind \in {"read_ap", "write_ap"}
        /\ t = TransferOf(o) \/ (o.kind = "read_ap" /\ ~t.ap /\ t.rnw /\ t.addr = 3)
    BY KindOfTransfer DEF IsTransferOf
  <1>6. \A i \in 1 .. 3 : d.send[i] = AckBits[d.ack][3 - 3 + i]
    BY <1>3
  <1> HIDE DEF a, e
  <1>7. CASE ~(d.ack = "ok" /\ a.rnw)
    <2>1. ReadTail(d) = 0 /\ d.did = c.did /\ d.posted = c.posted
      BY <1>3, <1>4, <1>7
    <2>2. AnswerIs(d, t, 3)
      BY <1>2, <1>3, <1>6, <2>1 DEF AnswerIs, a
    <2>3. e + (IF ReadTail(d) = 0 THEN 0 ELSE 1) = e
      <3>1. e \in 0 .. 1
        BY DEF e, Before
      <3> QED
        BY <2>1, <3>1
    <2>4. History(d, o, e)
      BY <2>1 DEF History, e
    <2> QED
      BY <1>2, <2>2, <2>3, <2>4 DEF e
  <1>8. CASE d.ack = "ok" /\ a.rnw
    <2>1. PICK held \in Words :
               /\ ~a.ap /\ a.addr = 3 => held = c.posted
               /\ d.posted = IF a.ap THEN held ELSE c.posted
               /\ d.did = Append(c.did, Acked(a, held))
               /\ ~a.ap => \A i \in 1 .. W + 1 : d.send[3 + i] = Coded(held)[i]
      BY <1>3, <1>8
    <2>2. ReadTail(d) # 0
      BY <1>4, <1>8
    <2>3. Acked(a, held) \in Done1
      BY <1>1 DEF Acked, Done1
    <2>4. /\ Acked(a, held).ap = t.ap /\ Acked(a, held).rnw = t.rnw
          /\ Acked(a, held).addr = t.addr /\ Acked(a, held).word = held
      BY <1>1 DEF Acked
    <2> DEFINE did == c.did
               z == Acked(a, held)
    <2>5. did \in Seq(Done1) /\ z \in Done1 /\ d.did = Append(did, z)
      BY <1>1, <2>1, <2>3
    <2>6. z.ap = t.ap /\ z.rnw = t.rnw /\ z.addr = t.addr /\ z.word = held
      BY <2>4
    <2> HIDE DEF did, z
    <2>7. /\ Len(d.did) = Len(did) + 1 /\ d.did[Len(did) + 1] = z
          /\ \A i \in 1 .. Len(did) : d.did[i] = did[i]
      BY <2>5, Appended
    <2>8. e \in 0 .. 1 /\ Len(did) = e
      BY DEF e, Before, History, did
    <2>9. CASE e = 0
      <3>1. Len(d.did) = 1 /\ d.did[1] = z
        BY <2>7, <2>8, <2>9
      <3>2. t = TransferOf(o) /\ (o.kind = "read_ap" <=> (t.ap /\ t.rnw))
        BY <1>5, <2>9 DEF e, Before, Kinds
      <3>3. t.rnw
        BY <1>1, <1>8
      <3>4. o.kind = "read_ap" => d.posted = held
        BY <1>1, <2>1, <3>2
      <3>5. History(d, o, 1)
        <4>1. /\ d.did[1].ap = TransferOf(o).ap /\ d.did[1].rnw = TransferOf(o).rnw
              /\ d.did[1].addr = TransferOf(o).addr
              /\ TransferOf(o).rnw
              /\ o.kind = "read_ap" => d.posted = d.did[1].word
          BY <2>6, <3>1, <3>2, <3>3, <3>4, Zenon
        <4>2. 1 \in 0 .. 2 /\ 1 # 2
          OBVIOUS
        <4> QED
          BY <3>1, <4>1, <4>2, Zenon DEF History
      <3>6. AnswerIs(d, t, 3)
        <4>1. ~t.ap => \A i \in 1 .. W + 1 : d.send[3 + i] = Coded(d.did[1].word)[i]
          BY <1>1, <2>1, <2>6, <3>1
        <4> QED
          BY <1>2, <1>3, <1>6, <4>1 DEF AnswerIs, a
      <3>7. e + (IF ReadTail(d) = 0 THEN 0 ELSE 1) = 1
        BY <2>2, <2>9
      <3> QED
        BY <1>2, <3>5, <3>6, <3>7 DEF e
    <2>10. CASE e = 1
      <3>1. Len(d.did) = 2 /\ d.did[1] = did[1] /\ d.did[2] = z
        BY <2>7, <2>8, <2>10
      <3>2. o.kind = "read_ap" /\ ~t.ap /\ t.rnw /\ t.addr = 3
        BY <1>5, <2>10 DEF e, Before
      <3>3. History(c, o, 1)
        BY <2>10 DEF e
      <3>4. /\ did[1].ap = TransferOf(o).ap /\ did[1].rnw = TransferOf(o).rnw
            /\ did[1].addr = TransferOf(o).addr
            /\ ~TransferOf(o).rnw => did[1].word = TransferOf(o).word
            /\ c.posted = did[1].word
        BY <3>2, <3>3 DEF History, did
      <3>5. held = did[1].word /\ d.posted = held
        BY <1>1, <2>1, <3>2, <3>4
      <3>6. History(d, o, 2)
        <4>1. /\ d.did[1].ap = TransferOf(o).ap /\ d.did[1].rnw = TransferOf(o).rnw
              /\ d.did[1].addr = TransferOf(o).addr
              /\ ~TransferOf(o).rnw => d.did[1].word = TransferOf(o).word
              /\ d.posted = d.did[1].word
          BY <3>1, <3>4, <3>5, Zenon
        <4>2. ~d.did[2].ap /\ d.did[2].rnw /\ d.did[2].addr = 3
          BY <2>6, <3>1, <3>2, Zenon
        <4>3. 2 \in 0 .. 2
          OBVIOUS
        <4> QED
          BY <3>1, <3>2, <4>1, <4>2, <4>3, Zenon DEF History
      <3>7. AnswerIs(d, t, 3)
        <4>1. \A i \in 1 .. W + 1 : d.send[3 + i] = Coded(d.did[1].word)[i]
          BY <1>1, <2>1, <3>1, <3>2, <3>5
        <4> QED
          BY <1>2, <1>3, <1>6, <4>1 DEF AnswerIs, a
      <3>8. e + (IF ReadTail(d) = 0 THEN 0 ELSE 1) = 2
        BY <2>2, <2>10
      <3> QED
        BY <1>2, <3>6, <3>7, <3>8 DEF e
    <2> QED
      BY <2>8, <2>9, <2>10
  <1> QED
    BY <1>7, <1>8

LEMMA HistoryKept ==
  ASSUME NEW c, NEW d, NEW o, NEW n, History(c, o, n), d.posted = c.posted, d.did = c.did
  PROVE  History(d, o, n)
  BY DEF History

\* The line is handed over.
LEMMA HandedOver ==
  ASSUME NEW c, ChipOK(c), NEW t, c.st = "turn", AnswerIs(c, t, 3), NEW b \in Bit, NEW d \in Edge(c, b)
  PROVE  AnswerIs(d, t, 3) /\ d.st = "drive" /\ d.ones = 0 /\ Same(c, d)
  <1>1. d.st = "drive" /\ d.ones = 0 /\ d.send = c.send /\ Same(c, d)
    BY FromTurn DEF ChipOK
  <1>2. ReadTail(d) = ReadTail(c) /\ d.access = c.access /\ d.ack = c.ack /\ d.did = c.did
    BY <1>1 DEF Same, ReadTail
  <1> QED
    BY <1>1, <1>2 DEF AnswerIs

\* One more bit of the acknowledgement.
LEMMA AckBit ==
  ASSUME NEW c, ChipOK(c), NEW t, c.st = "drive", NEW k \in 1 .. 3, AnswerIs(c, t, k), NEW b \in Bit, NEW d \in Edge(c, b)
  PROVE  /\ c.send # <<>> /\ c.send[1] = AckBits[c.ack][4 - k]
         /\ AnswerIs(d, t, k - 1) /\ d.ones = c.ones /\ Same(c, d)
         /\ d.st = IF k = 1 /\ ReadTail(d) = 0 THEN "back" ELSE "drive"
  <1>1. c \in Chips /\ c.send \in Seq(Bit) /\ W \in Nat \ {0} /\ ReadTail(c) \in {0, W + 1}
    BY ChipFields, TailTypes DEF ChipOK
  <1>2. /\ c.access = AccessOf(t) /\ Len(c.send) = k + ReadTail(c)
        /\ \A i \in 1 .. k : c.send[i] = AckBits[c.ack][3 - k + i]
        /\ ReadTail(c) # 0 /\ ~t.ap => \A i \in 1 .. W + 1 : c.send[k + i] = Coded(c.did[1].word)[i]
    BY DEF AnswerIs
  <1>3. Len(c.send) >= 1 /\ c.send # <<>> /\ (Len(c.send) = 1 <=> k = 1 /\ ReadTail(c) = 0)
    BY <1>1, <1>2
  <1>4. /\ d.st = (IF Len(c.send) = 1 THEN "back" ELSE "drive")
        /\ d.ones = c.ones /\ d.send = Tail(c.send) /\ Same(c, d)
    BY <1>1, <1>3, FromDrive
  <1>5. ReadTail(d) = ReadTail(c) /\ d.access = c.access /\ d.ack = c.ack /\ d.did = c.did
    BY <1>4 DEF Same, ReadTail
  <1>6. c.send[1] = AckBits[c.ack][4 - k]
    <2>1. 1 \in 1 .. k /\ 3 - k + 1 = 4 - k
      OBVIOUS
    <2> QED
      BY <1>2, <2>1
  <1>7. /\ Len(d.send) = Len(c.send) - 1
        /\ \A i \in 1 .. Len(c.send) - 1 : d.send[i] = c.send[i + 1]
    BY <1>1, <1>3, <1>4, Shifted
  <1>8. Len(d.send) = k - 1 + ReadTail(d)
    BY <1>1, <1>2, <1>5, <1>7
  <1>9. ASSUME NEW i \in 1 .. k - 1 PROVE d.send[i] = AckBits[d.ack][3 - (k - 1) + i]
    <2>1. i \in 1 .. Len(c.send) - 1 /\ i + 1 \in 1 .. k /\ 3 - k + (i + 1) = 3 - (k - 1) + i
      BY <1>1, <1>2
    <2>2. d.send[i] = c.send[i + 1]
      BY <1>7, <2>1
    <2>3. c.send[i + 1] = AckBits[c.ack][3 - k + (i + 1)]
      BY <1>2, <2>1
    <2> QED
      BY <1>5, <2>1, <2>2, <2>3
  <1>10. ASSUME ReadTail(d) # 0, ~t.ap, NEW i \in 1 .. W + 1 PROVE d.send[k - 1 + i] = Coded(d.did[1].word)[i]
    <2>1. k - 1 + i \in 1 .. Len(c.send) - 1 /\ k - 1 + i + 1 = k + i
      BY <1>1, <1>2, <1>5, <1>10
    <2>2. d.send[k - 1 + i] = c.send[k - 1 + i + 1]
      BY <1>7, <2>1
    <2>3. c.send[k + i] = Coded(c.did[1].word)[i]
      BY <1>2, <1>5, <1>10
    <2> QED
      BY <1>5, <2>1, <2>2, <2>3
  <1>11. AnswerIs(d, t, k - 1)
    BY <1>2, <1>5, <1>8, <1>9, <1>10 DEF AnswerIs
  <1> QED
    BY <1>3, <1>4, <1>5, <1>6, <1>11

\* One more bit of a word that is read.
LEMMA WordBit ==
  ASSUME NEW c, ChipOK(c), NEW t, c.st = "drive", NEW j \in 1 .. W + 1, Sending(c, t, j), NEW b \in Bit, NEW d \in Edge(c, b)
  PROVE  /\ c.send # <<>>
         /\ ~t.ap => c.send[1] = Coded(c.did[1].word)[W + 2 - j]
         /\ Sending(d, t, j - 1) /\ d.ones = c.ones /\ Same(c, d)
         /\ j = 1 => d.st = "back"
         /\ j # 1 => d.st = "drive"
  <1>1. c \in Chips /\ c.send \in Seq(Bit) /\ W \in Nat \ {0}
    BY ChipFields, TailTypes DEF ChipOK
  <1>2. /\ Len(c.send) = j
        /\ ~t.ap => \A i \in 1 .. j : c.send[i] = Coded(c.did[1].word)[W + 1 - j + i]
    BY DEF Sending
  <1>3. Len(c.send) >= 1 /\ c.send # <<>>
    BY <1>1, <1>2
  <1>4. /\ d.st = (IF Len(c.send) = 1 THEN "back" ELSE "drive")
        /\ d.ones = c.ones /\ d.send = Tail(c.send) /\ Same(c, d)
    BY <1>1, <1>3, FromDrive
  <1>5. d.did = c.did
    BY <1>4 DEF Same
  <1>6. ~t.ap => c.send[1] = Coded(c.did[1].word)[W + 2 - j]
    <2>1. 1 \in 1 .. j /\ W + 1 - j + 1 = W + 2 - j
      BY <1>1
    <2> QED
      BY <1>2, <2>1
  <1>7. /\ Len(d.send) = Len(c.send) - 1
        /\ \A i \in 1 .. Len(c.send) - 1 : d.send[i] = c.send[i + 1]
    BY <1>1, <1>3, <1>4, Shifted
  <1>8. Len(d.send) = j - 1
    BY <1>2, <1>7
  <1>9. ASSUME ~t.ap, NEW i \in 1 .. j - 1 PROVE d.send[i] = Coded(d.did[1].word)[W + 1 - (j - 1) + i]
    <2>1. i \in 1 .. Len(c.send) - 1 /\ i + 1 \in 1 .. j /\ W + 1 - j + (i + 1) = W + 1 - (j - 1) + i
      BY <1>1, <1>2
    <2>2. d.send[i] = c.send[i + 1]
      BY <1>7, <2>1
    <2>3. c.send[i + 1] = Coded(c.did[1].word)[W + 1 - j + (i + 1)]
      BY <1>2, <1>9, <2>1
    <2> QED
      BY <1>5, <2>1, <2>2, <2>3
  <1>10. Sending(d, t, j - 1)
    BY <1>8, <1>9 DEF Sending
  <1> QED
    BY <1>2, <1>3, <1>4, <1>6, <1>10

\* The line is taken back: a word follows, or nothing.
LEMMA TakenBack ==
  ASSUME NEW c, ChipOK(c), c.st = "back", NEW b \in Bit, NEW d \in Edge(c, b)
  PROVE  /\ d.ones = c.ones /\ Same(c, d)
         /\ c.ack # "ok" \/ c.access.rnw => d.st = "idle"
         /\ ~(c.ack # "ok" \/ c.access.rnw) => d.st = "data" /\ Len(d.bits) = 0
  <1>1. c \in Chips /\ c.bits = <<>>
    BY DEF ChipOK
  <1>2. /\ d.st = (IF c.ack = "ok" /\ ~c.access.rnw THEN "data" ELSE "idle")
        /\ d.ones = c.ones /\ d.bits = c.bits /\ Same(c, d)
    BY <1>1, FromBack
  <1> QED
    BY <1>1, <1>2

\* One more bit of a word that is written.
LEMMA Take ==
  ASSUME NEW c, ChipOK(c), NEW t \in Transfers, NEW k \in 0 .. W, NEW m \in Bit, NEW flip \in Bit, m + flip <= 1,
         Taking(c, t, k, m), NEW b, b = (Coded(t.word)[k + 1] + flip) % 2, NEW d \in Edge(c, b)
  PROVE  /\ k < W => Taking(d, t, k + 1, m + flip) /\ Same(c, d)
         /\ k = W => /\ d.st = "idle" /\ d.ones < ResetOnes /\ d.posted = c.posted
                     /\ d.did = c.did \/ d.did = Append(c.did, Acked(AccessOf(t), t.word))
  <1>1. /\ c \in Chips /\ c.ones \in 0 .. ResetOnes /\ c.bits \in Seq(Bit)
        /\ W \in Nat \ {0} /\ ResetOnes \in Nat /\ ResetOnes > W + 1
    BY ChipFields, LineOnes DEF ChipOK
  <1>2. c.st = "data" /\ c.access = AccessOf(t) /\ Len(c.bits) = k /\ c.ones <= k /\ Near(c.bits, Coded(t.word), m)
    BY DEF Taking
  <1>3. t.word \in Words /\ Coded(t.word) \in Seq(Bit) /\ Len(Coded(t.word)) = W + 1
    BY AccessOfType, CodedWord
  <1> DEFINE r == Append(c.bits, b)
  <1>4. /\ Near(r, Coded(t.word), m + flip) /\ b \in Bit
        /\ r \in Seq(Bit) /\ Len(r) = k + 1
    <2> DEFINE x == Coded(t.word)
               bi == c.bits
    <2>1. bi \in Seq(Bit) /\ x \in Seq(Bit) /\ m \in Bit /\ flip \in Bit
      BY <1>1, <1>3
    <2>2. m + flip <= 1 /\ Near(bi, x, m) /\ Len(bi) < Len(x) /\ b = (x[Len(bi) + 1] + flip) % 2
      BY <1>1, <1>2, <1>3
    <2> HIDE DEF x, bi
    <2>3. /\ Near(Append(bi, b), x, m + flip) /\ b \in Bit
          /\ Append(bi, b) \in Seq(Bit) /\ Len(Append(bi, b)) = Len(bi) + 1
      BY <2>1, <2>2, NearGrows
    <2> QED
      BY <1>2, <2>3 DEF x, bi
  <1>5. OnesAfter(c, b) <= k + 1 /\ OnesAfter(c, b) # ResetOnes /\ OnesAfter(c, b) < ResetOnes
    BY <1>1, <1>2, <1>4, OnesType
  <1>6. Len(c.bits) \in 0 .. W
    BY <1>2
  <1> DEFINE word == SubSeq(r, 1, W)
  <1>7. /\ d.ones = OnesAfter(c, b) /\ d.access = c.access /\ d.ack = c.ack /\ d.posted = c.posted
        /\ \/ /\ Len(c.bits) < W
              /\ d.st = "data" /\ d.bits = r /\ d.did = c.did
           \/ /\ Len(c.bits) = W /\ d.st = "idle"
              /\ d.did = c.did \/ (Parity(word) = r[W + 1] /\ d.did = Append(c.did, Acked(c.access, word)))
    BY <1>1, <1>2, <1>4, <1>5, <1>6, FromData
  <1> HIDE DEF r
  <1>8. ASSUME k < W PROVE Taking(d, t, k + 1, m + flip) /\ Same(c, d)
    <2>1. d.st = "data" /\ d.bits = r /\ d.did = c.did
      BY <1>1, <1>2, <1>7, <1>8
    <2> QED
      BY <1>2, <1>4, <1>5, <1>7, <2>1 DEF Taking, Same
  <1>9. ASSUME k = W, Parity(word) = r[W + 1] PROVE word = t.word
    <2>1. Len(r) = W + 1
      BY <1>4, <1>9
    <2> QED
      BY <1>3, <1>4, <1>9, <2>1, NearWord
  <1>10. ASSUME k = W
         PROVE  /\ d.st = "idle" /\ d.ones < ResetOnes /\ d.posted = c.posted
                /\ d.did = c.did \/ d.did = Append(c.did, Acked(AccessOf(t), t.word))
    <2>1. ~(Len(c.bits) < W)
      BY <1>1, <1>2, <1>10
    <2> QED
      BY <1>2, <1>5, <1>7, <1>9, <1>10, <2>1
  <1> QED
    BY <1>8, <1>10

\* A word that was written, in the history.
LEMMA WriteDone ==
  ASSUME NEW c, ChipOK(c), NEW d, NEW o \in Accesses, ~TransferOf(o).rnw, History(c, o, 0),
         d.did = c.did \/ d.did = Append(c.did, Acked(AccessOf(TransferOf(o)), TransferOf(o).word)), d.posted = c.posted
  PROVE  \E n \in 0 .. 1 : History(d, o, n)
  <1>1. CASE d.did = c.did
    <2>1. History(d, o, 0) /\ 0 \in 0 .. 1
      BY <1>1, HistoryKept
    <2> QED
      BY <2>1, Zenon
  <1>2. CASE d.did = Append(c.did, Acked(AccessOf(TransferOf(o)), TransferOf(o).word))
    <2> DEFINE did == c.did
               t == TransferOf(o)
               z == Acked(AccessOf(t), t.word)
    <2>1. t \in Transfers /\ ~t.rnw /\ o.kind # "read_ap"
      BY KindOfTransfer
    <2>2. z.ap = t.ap /\ z.rnw = t.rnw /\ z.addr = t.addr /\ z.word = t.word
      BY DEF Acked, AccessOf
    <2>3. z \in Done1
      BY <2>1 DEF Acked, AccessOf, Done1, Transfers
    <2>4. did \in Seq(Done1) /\ Len(did) = 0
      BY ChipFields DEF ChipOK, History
    <2>5. d.did = Append(did, z)
      BY <1>2
    <2> HIDE DEF did, t, z
    <2>6. Len(d.did) = 1 /\ d.did[1] = z
      BY <2>3, <2>4, <2>5, Appended
    <2>7. 1 \in 0 .. 2 /\ 1 # 2 /\ 1 \in 0 .. 1
      OBVIOUS
    <2>8. History(d, o, 1)
      BY <2>1, <2>2, <2>6, <2>7, Zenon DEF History, t
    <2> QED
      BY <2>7, <2>8, Zenon
  <1> QED
    BY <1>1, <1>2

\* An idle cycle.
LEMMA IdleKept ==
  ASSUME NEW c, ChipOK(c), c.st = "idle", NEW d \in Edge(c, 0)
  PROVE  Synced(d) /\ Same(c, d)
  <1>1. c \in Chips /\ 0 \in Bit /\ OnesAfter(c, 0) = 0 /\ 0 # ResetOnes
    BY LineOnes DEF ChipOK, Bit, OnesAfter
  <1> QED
    BY <1>1, FromIdle DEF Synced

\* A chip that does not listen hears nothing in a few ones.
LEMMA LostKept ==
  ASSUME NEW c, ChipOK(c), c.st = "lost", c.ones < 16, NEW d \in Edge(c, 1)
  PROVE  d.st = "lost" /\ d.ones <= c.ones + 1 /\ Same(c, d)
  <1>1. c \in Chips /\ 1 \in Bit /\ c.ones \in 0 .. ResetOnes /\ ResetOnes \in Nat /\ ResetOnes > 16
    BY LineOnes, ChipFields DEF ChipOK, Bit
  <1>2. OnesAfter(c, 1) <= c.ones + 1 /\ OnesAfter(c, 1) # ResetOnes
    BY <1>1, OnesType
  <1> QED
    BY <1>1, <1>2, FromLost

-----------------------------------------------------------------------------
(***************************************************************************)
(* The inductive invariant.  The firmware's half: what is left to do, who  *)
(* drives the line meanwhile, and how many bits have been read.            *)
(***************************************************************************)
Left == Len(todo)

HostType ==
  /\ out = driving /\ driving \in BOOLEAN /\ level \in Bit
  /\ todo \in Seq(Cycles) /\ got \in Seq(Bit)
  /\ phase \in {"idle", "ack", "data", "end"}
  /\ op.kind \in Kinds \cup {"init", "sequence", "pins"}
  /\ op.kind \in Kinds => op \in Accesses
  /\ cur \in Transfers
  /\ result.st \in {"ok"} \cup Errors
  /\ noisy \in Nat /\ misled \in BOOLEAN /\ trusted \in BOOLEAN

HostIdle == phase = "idle" => todo = <<>> /\ driving

HostAck ==
  phase = "ack" =>
    /\ op.kind \in Kinds /\ Left <= 12
    /\ \A i \in 1 .. Left : todo[i] = AckTo(cur, Left + 1 - i)
    /\ driving <=> Left > 3
    /\ Len(got) = IF Left < 3 THEN 3 - Left ELSE 0

HostData ==
  phase = "data" =>
    /\ op.kind \in Kinds /\ cur.rnw /\ Left <= W + 2
    /\ \A i \in 1 .. Left : todo[i] = DataTo(Left + 1 - i)
    /\ driving <=> Left = 0
    /\ Len(got) = IF Left = 0 THEN W + 1 ELSE W + 2 - Left

HostRead ==
  phase = "end" /\ op.kind \in Kinds /\ result.st = "ok" /\ cur.rnw =>
    driving /\ \A i \in 1 .. Left : todo[i] = Out(0)

HostWrite ==
  phase = "end" /\ op.kind \in Kinds /\ result.st = "ok" /\ ~cur.rnw =>
    /\ Left <= IDLE + W + 2
    /\ \A i \in 1 .. Left : todo[i] = WriteTo(cur.word, Left + 1 - i)
    /\ driving <=> Left <= IDLE + W + 1

HostFail ==
  phase = "end" /\ op.kind \in Kinds /\ result.st # "ok" =>
    /\ result.st # "parity" /\ Left <= IDLE + 1
    /\ \A i \in 1 .. Left : todo[i] = FailTo(Left + 1 - i)
    /\ driving <=> Left <= IDLE

HostInit ==
  phase = "end" /\ op.kind = "init" =>
    /\ driving /\ ~trusted /\ Left <= InitLength
    /\ \A i \in 1 .. Left : todo[i] = InitTo(Left + 1 - i)

HostSequence ==
  phase = "end" /\ op.kind = "sequence" =>
    driving /\ \A i \in 1 .. Left : todo[i].do = "write"

HostOp ==
  /\ op.kind = "pins" => phase = "idle"
  /\ phase # "idle" /\ op.kind \in Kinds => IsTransferOf(op, cur)

Host ==
  /\ HostType /\ HostIdle /\ HostAck /\ HostData /\ HostRead /\ HostWrite
  /\ HostFail /\ HostInit /\ HostSequence /\ HostOp

-----------------------------------------------------------------------------
\* What is on the line in a cycle.
LEMMA OnTheLine ==
  ASSUME HostType, ChipOK(chip), NEW c \in Cycles
  PROVE  /\ Drives(chip) => chip.send # <<>> /\ Head(chip.send) = chip.send[1]
         /\ Drives(chip) => Line(c) = chip.send[1]
         /\ ~Drives(chip) /\ c.do = "write" /\ driving => Line(c) = c.bit
         /\ ~Drives(chip) /\ c.do = "read" /\ ~driving => Line(c) = 1
         /\ ~Drives(chip) /\ c.do = "turn" => Line(c) = 1
         /\ Line(c) \in Bit
  <1>1. /\ chip.send \in Seq(Bit) /\ W \in Nat
        /\ Drives(chip) => Len(chip.send) \in 1 .. 3 + ReadTail(chip)
    BY ChipFields, LineOnes DEF ChipOK, Drives
  <1>2. Drives(chip) => chip.send # <<>> /\ Head(chip.send) = chip.send[1] /\ chip.send[1] \in Bit
    <2>1. Drives(chip) => Len(chip.send) >= 1
      BY <1>1, TailTypes
    <2>2. Drives(chip) => chip.send # <<>>
      BY <2>1
    <2> QED
      BY <1>1, <2>2, Shifted
  <1>3. out = driving /\ driving \in BOOLEAN /\ level \in Bit /\ c.bit \in Bit /\ 1 \in Bit
    BY CycleTypes DEF HostType, Cycles
  <1>4. Drives(chip) => Line(c) = chip.send[1]
    BY <1>2 DEF Line
  <1>5. ~Drives(chip) /\ c.do = "write" /\ driving => Line(c) = c.bit
    BY <1>3 DEF Line, Enabled
  <1>6. ~Drives(chip) /\ ~driving => Line(c) = 1
    BY <1>3 DEF Line, Enabled
  <1>7. ~Drives(chip) /\ c.do = "turn" => Line(c) = 1
    BY <1>3, <1>6 DEF Line, Enabled
  <1>8. Line(c) \in Bit
    BY <1>2, <1>3, Zenon DEF Line
  <1> QED
    BY <1>2, <1>4, <1>5, <1>6, <1>7, <1>8

\* One clock cycle.
LEMMA CycleIs ==
  ASSUME HostType, ChipOK(chip), NEW flip \in Bit, Cycle(flip)
  PROVE  /\ Left \in Nat \ {0} /\ Left' = Left - 1 /\ todo[1] \in Cycles
         /\ \A i \in 1 .. Left' : i + 1 \in 1 .. Left /\ todo'[i] = todo[i + 1] /\ Left + 1 - (i + 1) = Left' + 1 - i
         /\ 1 \in 1 .. Left /\ Left + 1 - 1 = Left
         /\ (Line(todo[1]) + flip) % 2 \in Bit
         /\ chip' \in Edge(chip, (Line(todo[1]) + flip) % 2)
         /\ ChipOK(chip')
         /\ driving' = (IF todo[1].do = "turn" THEN ~driving ELSE driving)
         /\ got' = (IF todo[1].do = "read" THEN Append(got, (Line(todo[1]) + flip) % 2) ELSE got)
         /\ got' \in Seq(Bit) /\ Len(got') = (IF todo[1].do = "read" THEN Len(got) + 1 ELSE Len(got)) /\ Len(got) \in Nat
         /\ noisy' = noisy + flip
         /\ misled' = (misled \/ (flip = 1 /\ chip.st \in Waiting))
         /\ UNCHANGED <<phase, op, cur, result, trusted>>
         /\ HostType'
  <1>1. /\ todo # <<>> /\ todo \in Seq(Cycles) /\ got \in Seq(Bit)
    BY DEF Cycle, HostType
  <1>2. Head(todo) = todo[1] /\ todo[1] \in Cycles /\ Left \in Nat \ {0}
        /\ Tail(todo) \in Seq(Cycles) /\ Len(Tail(todo)) = Left - 1 /\ \A i \in 1 .. Left - 1 : Tail(todo)[i] = todo[i + 1]
    BY <1>1, Shifted DEF Left
  <1> DEFINE c == todo[1]
             b == (Line(c) + flip) % 2
  <1>3. Line(c) \in Bit
    BY <1>2, OnTheLine
  <1>4. b \in Bit
    <2>1. Line(c) \in 0 .. 1 /\ flip \in 0 .. 1
      BY <1>3 DEF Bit
    <2> HIDE DEF c
    <2>2. b \in 0 .. 1
      BY <2>1
    <2> QED
      BY <2>2 DEF Bit
  <1>5. /\ level' = (IF c.do = "write" THEN c.bit ELSE level)
        /\ driving' = (IF c.do = "turn" THEN ~driving ELSE driving)
        /\ out' = (IF c.do = "turn" THEN ~driving ELSE out)
        /\ got' = (IF c.do = "read" THEN Collect(got, b) ELSE got)
        /\ chip' \in Edge(chip, b)
        /\ todo' = Tail(todo)
        /\ noisy' = noisy + flip
        /\ misled' = (misled \/ (flip = 1 /\ chip.st \in Waiting))
        /\ UNCHANGED <<phase, op, cur, result, trusted>>
    BY <1>2 DEF Cycle, Waiting
  <1> HIDE DEF b
  <1>6. ChipOK(chip')
    BY <1>4, <1>5, ChipKept
  <1>7. got' = (IF c.do = "read" THEN Append(got, b) ELSE got)
    BY <1>5 DEF Collect
  <1>8. got' \in Seq(Bit) /\ Len(got') = (IF c.do = "read" THEN Len(got) + 1 ELSE Len(got)) /\ Len(got) \in Nat
    BY <1>1, <1>4, <1>7, Appended
  <1>9. Left' = Left - 1 /\ \A i \in 1 .. Left' : i + 1 \in 1 .. Left /\ todo'[i] = todo[i + 1] /\ Left + 1 - (i + 1) = Left' + 1 - i
    <2>1. Left' = Left - 1
      BY <1>2, <1>5 DEF Left
    <2> QED
      BY <1>2, <1>5, <2>1
  <1>10. HostType'
    <2>1. c.bit \in Bit /\ noisy + flip \in Nat
      BY <1>2 DEF Cycles, HostType, Bit
    <2>2. level' \in Bit
      BY <1>5, <2>1 DEF HostType
    <2>3. out' = driving' /\ driving' \in BOOLEAN
      BY <1>5 DEF HostType
    <2>4. todo' \in Seq(Cycles) /\ noisy' \in Nat /\ misled' \in BOOLEAN
      BY <1>2, <1>5, <2>1 DEF HostType
    <2> QED
      BY <1>5, <1>8, <2>2, <2>3, <2>4 DEF HostType
  <1>11. 1 \in 1 .. Left /\ Left + 1 - 1 = Left
    BY <1>2
  <1> QED
    BY <1>2, <1>4, <1>5, <1>6, <1>7, <1>8, <1>9, <1>10, <1>11 DEF b

\* The cycles are told apart by what they do.
LEMMA CycleKinds ==
  /\ In.do = "read" /\ Turn.do = "turn" /\ \A b : Out(b).do = "write" /\ Out(b).bit = b
  BY DEF In, Turn, Out

\* One cycle leaves the rest of what was to be done.
LEMMA HostCycle ==
  ASSUME Host, ChipOK(chip), NEW flip \in Bit, Cycle(flip)
  PROVE  Host'
  <1> DEFINE c == todo[1]
             b == (Line(c) + flip) % 2
  <1>1. HostType
    BY DEF Host
  <1>2. /\ Left \in Nat \ {0} /\ Left' = Left - 1
        /\ \A i \in 1 .. Left' : i + 1 \in 1 .. Left /\ todo'[i] = todo[i + 1] /\ Left + 1 - (i + 1) = Left' + 1 - i
        /\ 1 \in 1 .. Left /\ Left + 1 - 1 = Left
        /\ driving' = (IF c.do = "turn" THEN ~driving ELSE driving)
        /\ Len(got') = (IF c.do = "read" THEN Len(got) + 1 ELSE Len(got)) /\ Len(got) \in Nat
        /\ UNCHANGED <<phase, op, cur, result, trusted>>
        /\ HostType'
    BY <1>1, CycleIs
  <1>3. driving \in BOOLEAN /\ W \in Nat \ {0} /\ IDLE \in Nat
    BY <1>1, LineOnes DEF HostType
  <1> HIDE DEF c
  <1>4. HostIdle'
    <2>1. phase # "idle"
      <3>1. todo # <<>>
        BY DEF Cycle
      <3> QED
        BY <3>1 DEF Host, HostIdle
    <2> QED
      BY <1>2, <2>1 DEF HostIdle
  <1>5. HostAck'
    <2> SUFFICES ASSUME phase = "ack" PROVE HostAck'
      BY <1>2 DEF HostAck
    <2>1. /\ op.kind \in Kinds /\ Left <= 12
          /\ \A i \in 1 .. Left : todo[i] = AckTo(cur, Left + 1 - i)
          /\ driving <=> Left > 3
          /\ Len(got) = IF Left < 3 THEN 3 - Left ELSE 0
      BY DEF Host, HostAck
    <2>2. c = AckTo(cur, Left)
      BY <1>2, <2>1 DEF c
    <2>3. \A i \in 1 .. Left' : todo'[i] = AckTo(cur', Left' + 1 - i)
      BY <1>2, <2>1
    <2>4. /\ c.do = "turn" <=> Left = 4
          /\ c.do = "read" <=> Left <= 3
      BY <1>2, <2>2, CycleKinds DEF AckTo
    <2>5. driving' <=> Left' > 3
      <3>1. CASE Left = 4
        <4>1. Left > 3 /\ ~(Left' > 3)
          BY <1>2, <1>3, <3>1
        <4> QED
          BY <1>2, <1>3, <2>1, <2>4, <3>1, <4>1, Zenon
      <3>2. CASE Left # 4
        <4>1. Left > 3 <=> Left' > 3
          BY <1>2, <1>3, <2>1, <3>2
        <4> QED
          BY <1>2, <1>3, <2>1, <2>4, <3>2, <4>1, Zenon
      <3> QED
        BY <3>1, <3>2
    <2>6. Len(got') = IF Left' < 3 THEN 3 - Left' ELSE 0
      BY <1>2, <2>1, <2>4
    <2>7. op'.kind \in Kinds /\ Left' <= 12
      BY <1>2, <2>1
    <2> QED
      BY <2>3, <2>5, <2>6, <2>7 DEF HostAck
  <1>6. HostData'
    <2> SUFFICES ASSUME phase = "data" PROVE HostData'
      BY <1>2 DEF HostData
    <2>1. /\ op.kind \in Kinds /\ cur.rnw /\ Left <= W + 2
          /\ \A i \in 1 .. Left : todo[i] = DataTo(Left + 1 - i)
          /\ driving <=> Left = 0
          /\ Len(got) = IF Left = 0 THEN W + 1 ELSE W + 2 - Left
      BY DEF Host, HostData
    <2>2. c = DataTo(Left)
      BY <1>2, <2>1 DEF c
    <2>3. \A i \in 1 .. Left' : todo'[i] = DataTo(Left' + 1 - i)
      BY <1>2, <2>1
    <2>4. /\ c.do = "turn" <=> Left = 1
          /\ c.do = "read" <=> Left # 1
      BY <1>2, <2>2, CycleKinds DEF DataTo
    <2>5. driving' <=> Left' = 0
      <3>1. CASE Left = 1
        <4>1. ~(Left = 0) /\ Left' = 0
          BY <1>2, <3>1
        <4> QED
          BY <1>2, <1>3, <2>1, <2>4, <3>1, <4>1, Zenon
      <3>2. CASE Left # 1
        <4>1. Left # 0 /\ Left' # 0
          BY <1>2, <3>2
        <4> QED
          BY <1>2, <1>3, <2>1, <2>4, <3>2, <4>1, Zenon
      <3> QED
        BY <3>1, <3>2
    <2>6. Len(got') = IF Left' = 0 THEN W + 1 ELSE W + 2 - Left'
      BY <1>2, <1>3, <2>1, <2>4
    <2>7. op'.kind \in Kinds /\ cur'.rnw /\ Left' <= W + 2
      BY <1>2, <1>3, <2>1
    <2> QED
      BY <2>3, <2>5, <2>6, <2>7 DEF HostData
  <1>7. HostRead'
    <2> SUFFICES ASSUME phase = "end", op.kind \in Kinds, result.st = "ok", cur.rnw PROVE HostRead'
      BY <1>2 DEF HostRead
    <2>1. driving /\ \A i \in 1 .. Left : todo[i] = Out(0)
      BY DEF Host, HostRead
    <2>2. c.do = "write"
      BY <1>2, <2>1, CycleKinds DEF c
    <2> QED
      BY <1>2, <2>1, <2>2 DEF HostRead
  <1>8. HostWrite'
    <2> SUFFICES ASSUME phase = "end", op.kind \in Kinds, result.st = "ok", ~cur.rnw PROVE HostWrite'
      BY <1>2 DEF HostWrite
    <2>1. /\ Left <= IDLE + W + 2
          /\ \A i \in 1 .. Left : todo[i] = WriteTo(cur.word, Left + 1 - i)
          /\ driving <=> Left <= IDLE + W + 1
      BY DEF Host, HostWrite
    <2>2. c = WriteTo(cur.word, Left)
      BY <1>2, <2>1 DEF c
    <2>3. \A i \in 1 .. Left' : todo'[i] = WriteTo(cur'.word, Left' + 1 - i)
      BY <1>2, <2>1
    <2>4. c.do = "turn" <=> Left = IDLE + W + 2
      BY <1>2, <1>3, <2>2, CycleKinds DEF WriteTo
    <2>5. driving' <=> Left' <= IDLE + W + 1
      <3>1. CASE Left = IDLE + W + 2
        <4>1. ~(Left <= IDLE + W + 1) /\ Left' <= IDLE + W + 1
          BY <1>2, <1>3, <3>1
        <4> QED
          BY <1>2, <1>3, <2>1, <2>4, <3>1, <4>1, Zenon
      <3>2. CASE Left # IDLE + W + 2
        <4>1. Left <= IDLE + W + 1 <=> Left' <= IDLE + W + 1
          BY <1>2, <1>3, <2>1, <3>2
        <4> QED
          BY <1>2, <1>3, <2>1, <2>4, <3>2, <4>1, Zenon
      <3> QED
        BY <3>1, <3>2
    <2>6. Left' <= IDLE + W + 2
      BY <1>2, <1>3, <2>1
    <2> QED
      BY <2>3, <2>5, <2>6 DEF HostWrite
  <1>9. HostFail'
    <2> SUFFICES ASSUME phase = "end", op.kind \in Kinds, result.st # "ok" PROVE HostFail'
      BY <1>2 DEF HostFail
    <2>1. /\ result.st # "parity" /\ Left <= IDLE + 1
          /\ \A i \in 1 .. Left : todo[i] = FailTo(Left + 1 - i)
          /\ driving <=> Left <= IDLE
      BY DEF Host, HostFail
    <2>2. c = FailTo(Left)
      BY <1>2, <2>1 DEF c
    <2>3. \A i \in 1 .. Left' : todo'[i] = FailTo(Left' + 1 - i)
      BY <1>2, <2>1
    <2>4. c.do = "turn" <=> Left = IDLE + 1
      BY <1>2, <1>3, <2>2, CycleKinds DEF FailTo
    <2>5. driving' <=> Left' <= IDLE
      <3>1. CASE Left = IDLE + 1
        <4>1. ~(Left <= IDLE) /\ Left' <= IDLE
          BY <1>2, <1>3, <3>1
        <4> QED
          BY <1>2, <1>3, <2>1, <2>4, <3>1, <4>1, Zenon
      <3>2. CASE Left # IDLE + 1
        <4>1. Left <= IDLE <=> Left' <= IDLE
          BY <1>2, <1>3, <2>1, <3>2
        <4> QED
          BY <1>2, <1>3, <2>1, <2>4, <3>2, <4>1, Zenon
      <3> QED
        BY <3>1, <3>2
    <2>6. Left' <= IDLE + 1
      BY <1>2, <1>3, <2>1
    <2> QED
      BY <1>2, <2>1, <2>3, <2>5, <2>6 DEF HostFail
  <1>10. HostInit'
    <2> SUFFICES ASSUME phase = "end", op.kind = "init" PROVE HostInit'
      BY <1>2 DEF HostInit
    <2>1. /\ driving /\ ~trusted /\ Left <= InitLength
          /\ \A i \in 1 .. Left : todo[i] = InitTo(Left + 1 - i)
      BY DEF Host, HostInit
    <2>2. c = InitTo(Left)
      BY <1>2, <2>1 DEF c
    <2>3. \A i \in 1 .. Left' : todo'[i] = InitTo(Left' + 1 - i)
      BY <1>2, <2>1
    <2>4. c.do = "write"
      BY <2>2, CycleKinds DEF InitTo
    <2>5. Left' <= InitLength
      <3>1. InitLength \in Nat
        BY LineOnes DEF InitLength
      <3> QED
        BY <1>2, <2>1, <3>1
    <2> QED
      BY <1>2, <2>1, <2>3, <2>4, <2>5 DEF HostInit
  <1>11. HostSequence'
    <2> SUFFICES ASSUME phase = "end", op.kind = "sequence" PROVE HostSequence'
      BY <1>2 DEF HostSequence
    <2>1. driving /\ \A i \in 1 .. Left : todo[i].do = "write"
      BY DEF Host, HostSequence
    <2>2. c.do = "write"
      BY <1>2, <2>1 DEF c
    <2> QED
      BY <1>2, <2>1, <2>2 DEF HostSequence
  <1>12. HostOp'
    BY <1>2 DEF Host, HostOp
  <1> QED
    BY <1>2, <1>4, <1>5, <1>6, <1>7, <1>8, <1>9, <1>10, <1>11, <1>12 DEF Host

LEMMA KindsAre ==
  Kinds = {"read_dp", "write_dp", "read_ap", "write_ap"} /\ "init" \notin Kinds /\ "sequence" \notin Kinds /\ "pins" \notin Kinds
  BY DEF Kinds

\* A transfer begins.
LEMMA HostStart ==
  ASSUME NEW t \in Transfers, StartTransfer(t), HostType, driving,
         UNCHANGED <<out, level, driving>>,
         op' \in Accesses, IsTransferOf(op', t), result'.st \in {"ok"} \cup Errors,
         noisy' \in Nat, misled' \in BOOLEAN, trusted' \in BOOLEAN
  PROVE  /\ Host'
         /\ phase' = "ack" /\ Left' = 12 /\ cur' = t
  <1>1. /\ cur' = t /\ got' = <<>> /\ phase' = "ack"
        /\ todo' \in Seq(Cycles) /\ Left' = 12
        /\ \A i \in 1 .. 12 : todo'[i] = AckTo(t, 13 - i)
    BY AckTodo DEF StartTransfer, Left
  <1>2. op'.kind \in Kinds
    BY KindOfTransfer
  <1>3. HostType'
    BY <1>1, <1>2 DEF HostType
  <1>4. HostAck'
    <2>1. \A i \in 1 .. Left' : todo'[i] = AckTo(cur', Left' + 1 - i)
      BY <1>1
    <2>2. Len(got') = IF Left' < 3 THEN 3 - Left' ELSE 0
      BY <1>1
    <2>3. driving' <=> Left' > 3
      BY <1>1
    <2>4. Left' <= 12
      BY <1>1
    <2> QED
      BY <1>2, <2>1, <2>2, <2>3, <2>4 DEF HostAck
  <1>5. /\ HostIdle' /\ HostData' /\ HostRead' /\ HostWrite' /\ HostFail' /\ HostInit' /\ HostSequence'
    BY <1>1 DEF HostIdle, HostData, HostRead, HostWrite, HostFail, HostInit, HostSequence
  <1>6. HostOp'
    BY <1>1, <1>2, KindsAre DEF HostOp
  <1> QED
    BY <1>1, <1>3, <1>4, <1>5, <1>6 DEF Host

LEMMA HostDoAccess ==
  ASSUME Host, NEW o \in Accesses, DoAccess(o)
  PROVE  Host' /\ phase' = "ack" /\ Left' = 12 /\ cur' = TransferOf(o)
  <1>1. /\ StartTransfer(TransferOf(o)) /\ phase = "idle" /\ op' = o /\ result' = NoResult
        /\ UNCHANGED <<out, level, driving, noisy, misled, trusted>>
    BY DEF DoAccess, StartOp
  <1>2. TransferOf(o) \in Transfers
    BY KindOfTransfer
  <1>3. driving /\ HostType
    BY <1>1 DEF Host, HostIdle
  <1>4. result'.st \in {"ok"} \cup Errors
    BY <1>1 DEF NoResult
  <1>5. IsTransferOf(op', TransferOf(o))
    BY <1>1 DEF IsTransferOf
  <1>6. noisy' \in Nat /\ misled' \in BOOLEAN /\ trusted' \in BOOLEAN
    BY <1>1, <1>3 DEF HostType
  <1> QED
    BY <1>1, <1>2, <1>3, <1>4, <1>5, <1>6, HostStart

LEMMA HostFetch ==
  ASSUME Host, FetchPosted
  PROVE  Host' /\ phase' = "ack" /\ Left' = 12 /\ cur' = Rdbuff(op.word) /\ op \in Accesses /\ op.kind = "read_ap"
  <1>1. /\ phase = "end" /\ todo = <<>>
        /\ op.kind = "read_ap" /\ cur.ap /\ result.st = "ok"
        /\ StartTransfer(Rdbuff(cur.word))
        /\ UNCHANGED <<out, level, driving, op, result, noisy, misled, trusted>>
    BY DEF FetchPosted, faults
  <1>2. HostType /\ op.kind \in Kinds /\ op \in Accesses /\ phase # "idle"
    BY <1>1 DEF Host, HostType, Kinds
  <1>3. cur = TransferOf(op)
    <2>1. IsTransferOf(op, cur)
      BY <1>2 DEF Host, HostOp
    <2> QED
      BY <1>1, <1>2, <2>1, KindOfTransfer DEF IsTransferOf
  <1>4. cur.word = op.word /\ cur.rnw
    BY <1>1, <1>2, <1>3, KindOfTransfer
  <1>5. driving
    BY <1>1, <1>2, <1>4 DEF Host, HostRead
  <1>6. Rdbuff(op.word) \in Transfers /\ IsTransferOf(op', Rdbuff(op.word)) /\ op' \in Accesses
    BY <1>1, <1>2, KindOfTransfer DEF IsTransferOf
  <1>7. noisy' \in Nat /\ misled' \in BOOLEAN /\ trusted' \in BOOLEAN /\ result'.st \in {"ok"} \cup Errors
    BY <1>1, <1>2 DEF HostType
  <1>8. StartTransfer(Rdbuff(op.word)) /\ UNCHANGED <<out, level, driving>>
    BY <1>1, <1>4
  <1> QED
    BY <1>1, <1>2, <1>5, <1>6, <1>7, <1>8, HostStart

LEMMA HostInitLine ==
  ASSUME Host, InitLine
  PROVE  /\ Host' /\ phase' = "end" /\ op'.kind = "init" /\ Left' = InitLength
  <1>1. /\ phase = "idle" /\ phase' = "end" /\ op' = [kind |-> "init"] /\ result' = NoResult /\ out' = TRUE
        /\ todo' = Ones(LINE_ONES) \o OutAll(SwitchBits) \o Ones(LINE_ONES) \o IdleCycles
        /\ noisy' = 0 /\ misled' = FALSE /\ trusted' = FALSE
        /\ UNCHANGED <<driving, level, got, cur>>
    BY DEF InitLine, StartOp
  <1>2. /\ todo' \in Seq(Cycles) /\ Left' = InitLength
        /\ \A i \in 1 .. InitLength : todo'[i] = InitTo(InitLength + 1 - i)
    BY <1>1, InitTodo DEF Left
  <1>3. driving /\ HostType
    BY <1>1 DEF Host, HostIdle
  <1>4. op'.kind = "init" /\ op'.kind \notin Kinds /\ result'.st = "ok"
    BY <1>1, KindsAre DEF NoResult
  <1>5. HostType'
    BY <1>1, <1>2, <1>3, <1>4 DEF HostType
  <1>6. HostInit'
    <2>1. Left' <= InitLength
      BY <1>2, LineOnes DEF InitLength
    <2> QED
      BY <1>1, <1>2, <1>3, <2>1 DEF HostInit
  <1>7. /\ HostIdle' /\ HostAck' /\ HostData' /\ HostRead' /\ HostWrite' /\ HostFail' /\ HostSequence' /\ HostOp'
    BY <1>1, <1>4 DEF HostIdle, HostAck, HostData, HostRead, HostWrite, HostFail, HostSequence, HostOp
  <1> QED
    BY <1>1, <1>2, <1>4, <1>5, <1>6, <1>7 DEF Host

LEMMA HostSwjSequence ==
  ASSUME Host, NEW s \in Sequences, SwjSequence(s)
  PROVE  /\ Host' /\ phase' = "end" /\ op'.kind = "sequence"
         /\ trusted' => trusted /\ \A i \in 1 .. Left' : todo'[i] = Out(0)
  <1> DEFINE n == IF s.count < Len(s.bits) THEN s.count ELSE Len(s.bits)
             sent == SubSeq(s.bits, 1, n)
  <1>1. /\ phase = "idle" /\ phase' = "end" /\ op' = [kind |-> "sequence"] /\ result' = NoResult
        /\ todo' = OutAll(sent)
        /\ trusted' = (trusted /\ \A i \in DOMAIN sent : sent[i] = 0)
        /\ UNCHANGED <<driving, level, out, got, cur, noisy, misled>>
    BY DEF SwjSequence, StartOp
  <1>2. sent \in Seq(Bit)
    <2>1. s.bits \in Seq(Bit) /\ s.count \in Nat
      BY SwdAssumption
    <2>2. n \in Nat /\ n <= Len(s.bits)
      BY <2>1
    <2> HIDE DEF n
    <2>3. \A i \in 1 .. n : s.bits[i] \in Bit
      BY <2>1, <2>2
    <2> QED
      BY <2>1, <2>2, <2>3
  <1> HIDE DEF sent
  <1>3. /\ todo' \in Seq(Cycles) /\ Left' = Len(sent) /\ DOMAIN sent = 1 .. Len(sent)
        /\ \A i \in 1 .. Left' : todo'[i] = Out(sent[i])
    BY <1>1, <1>2, OutAllIs DEF Left
  <1>4. driving /\ HostType
    BY <1>1 DEF Host, HostIdle
  <1>5. op'.kind = "sequence" /\ op'.kind \notin Kinds /\ result'.st = "ok"
    BY <1>1, KindsAre DEF NoResult
  <1>6. HostType'
    <2>1. trusted' \in BOOLEAN
      BY <1>1
    <2> QED
      BY <1>1, <1>3, <1>4, <1>5, <2>1 DEF HostType
  <1>7. HostSequence'
    BY <1>1, <1>3, <1>4, CycleKinds DEF HostSequence
  <1>8. /\ HostIdle' /\ HostAck' /\ HostData' /\ HostRead' /\ HostWrite' /\ HostFail' /\ HostInit' /\ HostOp'
    BY <1>1, <1>5 DEF HostIdle, HostAck, HostData, HostRead, HostWrite, HostFail, HostInit, HostOp
  <1>9. trusted' => trusted /\ \A i \in 1 .. Left' : todo'[i] = Out(0)
    BY <1>1, <1>3
  <1> QED
    BY <1>1, <1>5, <1>6, <1>7, <1>8, <1>9 DEF Host

LEMMA HostSwjPins ==
  ASSUME Host, NEW selected \in BOOLEAN, NEW high \in BOOLEAN, SwjPins(selected, high)
  PROVE  Host' /\ phase' = "idle" /\ op'.kind = "pins"
  <1>1. /\ phase = "idle" /\ op' = [kind |-> "pins"] /\ result' = NoResult
        /\ UNCHANGED <<driving, level, out, todo, got, phase, cur, noisy, misled, trusted>>
    BY DEF SwjPins, StartOp
  <1>2. op'.kind = "pins" /\ op'.kind \notin Kinds /\ result'.st = "ok"
    BY <1>1, KindsAre DEF NoResult
  <1>3. HostType'
    BY <1>1, <1>2 DEF Host, HostType
  <1>4. HostIdle'
    BY <1>1 DEF Host, HostIdle
  <1>5. /\ HostAck' /\ HostData' /\ HostRead' /\ HostWrite' /\ HostFail' /\ HostInit' /\ HostSequence' /\ HostOp'
    BY <1>1, <1>2 DEF HostAck, HostData, HostRead, HostWrite, HostFail, HostInit, HostSequence, HostOp
  <1> QED
    BY <1>1, <1>2, <1>3, <1>4, <1>5 DEF Host

\* What transfer() may make of an acknowledgement.
LEMMA ReadAckIs ==
  ASSUME Host, ReadAck
  PROVE  /\ phase = "ack" /\ Left = 0 /\ ~driving /\ op.kind \in Kinds /\ Len(got) = 3 /\ Len(got') = 0
         /\ UNCHANGED <<op, cur, chip, noisy, misled>>
         /\ Host'
         /\ \/ got = AckBits.ok /\ cur.rnw /\ phase' = "data" /\ Left' = W + 2 /\ trusted' = trusted
            \/ got = AckBits.ok /\ ~cur.rnw /\ phase' = "end" /\ result'.st = "ok" /\ Left' = IDLE + W + 2 /\ trusted' = trusted
            \/ got = AckBits.wait /\ phase' = "end" /\ result'.st = "wait" /\ Left' = IDLE + 1 /\ trusted' = trusted
            \/ got = AckBits.fault /\ phase' = "end" /\ result'.st = "fault" /\ Left' = IDLE + 1 /\ trusted' = trusted
            \/ got \notin {AckBits[a] : a \in Acks} /\ trusted' = FALSE
  <1>1. /\ phase = "ack" /\ todo = <<>> /\ got' = <<>>
        /\ UNCHANGED <<out, level, driving, op, cur, chip, noisy, misled>>
    BY DEF ReadAck, faults
  <1>2. Left = 0 /\ HostType /\ W \in Nat /\ IDLE \in Nat
    BY <1>1, LineOnes DEF Left, Host
  <1>3. ~driving /\ op.kind \in Kinds /\ Len(got) = 3
    BY <1>1, <1>2 DEF Host, HostAck
  <1>4. HostOp' /\ HostInit' /\ HostSequence'
    BY <1>1, <1>3, KindsAre DEF Host, HostOp, HostInit, HostSequence
  <1>5. Len(got') = 0 /\ got' \in Seq(Bit)
    BY <1>1
  <1>6. CASE got = AckBits.ok /\ cur.rnw /\ todo' = Ins(W + 1) \o <<Turn>> /\ phase' = "data" /\ UNCHANGED <<result, trusted>>
    <2>1. /\ todo' \in Seq(Cycles) /\ Left' = W + 2
          /\ \A i \in 1 .. W + 2 : todo'[i] = DataTo(W + 3 - i)
      BY <1>6, DataTodo DEF Left
    <2>2. HostType'
      BY <1>1, <1>2, <1>5, <1>6, <2>1 DEF HostType
    <2>3. HostData'
      <3>1. \A i \in 1 .. Left' : todo'[i] = DataTo(Left' + 1 - i)
        <4>1. \A i \in 1 .. Left' : W + 3 - i = Left' + 1 - i
          BY <1>2, <2>1
        <4> QED
          BY <2>1, <4>1
      <3>2. Left' # 0 /\ Left' <= W + 2 /\ W + 2 - Left' = 0
        BY <1>2, <2>1
      <3>3. Len(got') = IF Left' = 0 THEN W + 1 ELSE W + 2 - Left'
        BY <1>5, <3>2
      <3>4. ~driving' /\ op'.kind \in Kinds /\ cur'.rnw
        BY <1>1, <1>3, <1>6
      <3> QED
        BY <3>1, <3>2, <3>3, <3>4 DEF HostData
    <2>4. HostIdle' /\ HostAck' /\ HostRead' /\ HostWrite' /\ HostFail'
      BY <1>6 DEF HostIdle, HostAck, HostRead, HostWrite, HostFail
    <2> QED
      BY <1>1, <1>2, <1>3, <1>4, <1>5, <1>6, <2>1, <2>2, <2>3, <2>4 DEF Host
  <1>7. CASE /\ got = AckBits.ok /\ ~cur.rnw
             /\ todo' = <<Turn>> \o OutAll(cur.word) \o <<Out(Parity(cur.word))>> \o IdleCycles
             /\ phase' = "end" /\ result' = [st |-> "ok", word |-> cur.word]
             /\ UNCHANGED trusted
    <2>1. cur.word \in Words
      BY <1>2, AccessOfType DEF HostType
    <2>2. /\ todo' \in Seq(Cycles) /\ Left' = IDLE + W + 2
          /\ \A i \in 1 .. IDLE + W + 2 : todo'[i] = WriteTo(cur.word, IDLE + W + 3 - i)
      BY <1>7, <2>1, WriteTodo DEF Left
    <2>3. HostType'
      BY <1>1, <1>2, <1>5, <1>7, <2>2 DEF HostType
    <2>4. HostWrite'
      <3>1. \A i \in 1 .. Left' : todo'[i] = WriteTo(cur'.word, Left' + 1 - i)
        <4>1. \A i \in 1 .. Left' : IDLE + W + 3 - i = Left' + 1 - i
          BY <1>2, <2>2
        <4> QED
          BY <1>1, <2>2, <4>1
      <3>2. ~(Left' <= IDLE + W + 1) /\ Left' <= IDLE + W + 2
        BY <1>2, <2>2
      <3>3. ~driving'
        BY <1>1, <1>3
      <3> QED
        BY <3>1, <3>2, <3>3 DEF HostWrite
    <2>5. HostIdle' /\ HostAck' /\ HostRead' /\ HostData' /\ HostFail'
      BY <1>1, <1>7 DEF HostIdle, HostAck, HostRead, HostData, HostFail
    <2> QED
      BY <1>1, <1>2, <1>3, <1>4, <1>5, <1>7, <2>2, <2>3, <2>4, <2>5 DEF Host
  <1>8. ASSUME NEW error \in {"wait", "fault", "unknown"}, FailTransfer(error)
        PROVE  Host' /\ phase' = "end" /\ result'.st = error /\ Left' = IDLE + 1 /\ trusted' = (trusted /\ error # "unknown")
    <2>1. /\ todo' = <<Turn>> \o IdleCycles
          /\ phase' = "end" /\ result' = [st |-> error, word |-> <<>>]
          /\ trusted' = (trusted /\ error # "unknown")
      BY <1>8 DEF FailTransfer
    <2>2. /\ todo' \in Seq(Cycles) /\ Left' = IDLE + 1
          /\ \A i \in 1 .. IDLE + 1 : todo'[i] = FailTo(IDLE + 2 - i)
      BY <2>1, FailTodo DEF Left
    <2>3. result'.st = error /\ error # "ok" /\ error # "parity" /\ error \in Errors /\ trusted' \in BOOLEAN
      BY <2>1 DEF Errors
    <2>4. HostType'
      BY <1>1, <1>2, <1>5, <2>1, <2>2, <2>3 DEF HostType
    <2>5. HostFail'
      <3>1. \A i \in 1 .. Left' : todo'[i] = FailTo(Left' + 1 - i)
        <4>1. \A i \in 1 .. Left' : IDLE + 2 - i = Left' + 1 - i
          BY <1>2, <2>2
        <4> QED
          BY <2>2, <4>1
      <3>2. ~(Left' <= IDLE) /\ Left' <= IDLE + 1
        BY <1>2, <2>2
      <3>3. ~driving'
        BY <1>1, <1>3
      <3> QED
        BY <2>3, <3>1, <3>2, <3>3 DEF HostFail
    <2>6. HostIdle' /\ HostAck' /\ HostRead' /\ HostData' /\ HostWrite'
      BY <2>1, <2>3 DEF HostIdle, HostAck, HostRead, HostData, HostWrite
    <2> QED
      BY <1>4, <2>1, <2>2, <2>3, <2>4, <2>5, <2>6 DEF Host
  <1>9. \/ /\ got = AckBits.ok /\ cur.rnw /\ todo' = Ins(W + 1) \o <<Turn>> /\ phase' = "data" /\ UNCHANGED <<result, trusted>>
        \/ /\ got = AckBits.ok /\ ~cur.rnw
           /\ todo' = <<Turn>> \o OutAll(cur.word) \o <<Out(Parity(cur.word))>> \o IdleCycles
           /\ phase' = "end" /\ result' = [st |-> "ok", word |-> cur.word]
           /\ UNCHANGED trusted
        \/ got = AckBits.wait /\ FailTransfer("wait")
        \/ got = AckBits.fault /\ FailTransfer("fault")
        \/ got \notin {AckBits[a] : a \in Acks} /\ FailTransfer("unknown")
    BY DEF ReadAck
  <1>10. CASE got = AckBits.wait /\ FailTransfer("wait")
    <2>1. Host' /\ phase' = "end" /\ result'.st = "wait" /\ Left' = IDLE + 1 /\ trusted' = (trusted /\ "wait" # "unknown")
      BY <1>8, <1>10
    <2> QED
      BY <1>1, <1>2, <1>3, <1>5, <1>10, <2>1 DEF HostType
  <1>11. CASE got = AckBits.fault /\ FailTransfer("fault")
    <2>1. Host' /\ phase' = "end" /\ result'.st = "fault" /\ Left' = IDLE + 1 /\ trusted' = (trusted /\ "fault" # "unknown")
      BY <1>8, <1>11
    <2> QED
      BY <1>1, <1>2, <1>3, <1>5, <1>11, <2>1 DEF HostType
  <1>12. CASE got \notin {AckBits[a] : a \in Acks} /\ FailTransfer("unknown")
    <2>1. Host' /\ trusted' = (trusted /\ "unknown" # "unknown")
      BY <1>8, <1>12
    <2> QED
      BY <1>1, <1>2, <1>3, <1>5, <1>12, <2>1
  <1> QED
    BY <1>6, <1>7, <1>9, <1>10, <1>11, <1>12

\* A word has been read.
LEMMA ReadDataIs ==
  ASSUME Host, ReadData
  PROVE  /\ phase = "data" /\ Left = 0 /\ op.kind \in Kinds /\ cur.rnw /\ Len(got) = W + 1
         /\ UNCHANGED <<op, cur, chip, noisy, misled>>
         /\ Host'
         /\ trusted' = trusted
         /\ \/ /\ got[W + 1] = Parity(SubSeq(got, 1, W)) /\ phase' = "end"
               /\ result' = [st |-> "ok", word |-> SubSeq(got, 1, W)]
            \/ phase' = "idle" /\ result'.st = "parity"
  <1>1. /\ phase = "data" /\ todo = <<>> /\ got' = <<>>
        /\ UNCHANGED <<out, level, driving, op, cur, chip, noisy, misled, trusted>>
    BY DEF ReadData, faults
  <1>2. Left = 0 /\ HostType
    BY <1>1 DEF Left, Host
  <1>3. driving /\ op.kind \in Kinds /\ cur.rnw /\ Len(got) = W + 1
    BY <1>1, <1>2 DEF Host, HostData
  <1>4. HostInit' /\ HostSequence'
    BY <1>1, <1>3, KindsAre DEF HostInit, HostSequence
  <1>5. Len(got') = 0 /\ got' \in Seq(Bit)
    BY <1>1
  <1>6. HostOp'
    BY <1>1, <1>3, KindsAre DEF Host, HostOp
  <1>7. CASE /\ got[W + 1] = Parity(SubSeq(got, 1, W))
             /\ result' = [st |-> "ok", word |-> SubSeq(got, 1, W)]
             /\ todo' = IdleCycles /\ phase' = "end"
    <2>1. todo' \in Seq(Cycles) /\ Left' = IDLE /\ \A i \in 1 .. IDLE : todo'[i] = Out(0)
      BY <1>7, IdleCyclesAre DEF Left
    <2>2. HostType'
      BY <1>1, <1>2, <1>5, <1>7, <2>1 DEF HostType
    <2>3. HostRead'
      BY <1>1, <1>3, <2>1 DEF HostRead
    <2>4. HostIdle' /\ HostAck' /\ HostWrite' /\ HostData' /\ HostFail'
      BY <1>1, <1>3, <1>7 DEF HostIdle, HostAck, HostWrite, HostData, HostFail
    <2> QED
      BY <1>1, <1>2, <1>3, <1>4, <1>6, <1>7, <2>2, <2>3, <2>4 DEF Host
  <1>8. CASE /\ result' = [st |-> "parity", word |-> <<>>]
             /\ phase' = "idle" /\ UNCHANGED todo
    <2>1. HostType'
      <3>1. result'.st \in {"ok"} \cup Errors
        BY <1>8 DEF Errors
      <3> QED
        BY <1>1, <1>2, <1>5, <1>8, <3>1 DEF HostType
    <2>2. HostIdle'
      BY <1>1, <1>3, <1>8 DEF HostIdle
    <2>3. HostAck' /\ HostWrite' /\ HostData' /\ HostFail' /\ HostRead'
      BY <1>8 DEF HostAck, HostWrite, HostData, HostFail, HostRead
    <2> QED
      BY <1>1, <1>2, <1>3, <1>4, <1>6, <1>8, <2>1, <2>2, <2>3 DEF Host
  <1> QED
    BY <1>7, <1>8 DEF ReadData

LEMMA HostEndOp ==
  ASSUME Host, EndOp
  PROVE  /\ Host' /\ phase = "end" /\ Left = 0 /\ phase' = "idle"
         /\ ~(op.kind = "read_ap" /\ cur.ap /\ result.st = "ok")
         /\ trusted' = (trusted \/ op.kind = "init")
         /\ UNCHANGED <<op, cur, result, chip, noisy, misled>>
  <1>1. /\ phase = "end" /\ todo = <<>> /\ phase' = "idle"
        /\ ~(op.kind = "read_ap" /\ cur.ap /\ result.st = "ok")
        /\ driving' = (driving \/ op.kind = "init")
        /\ trusted' = (trusted \/ op.kind = "init")
        /\ UNCHANGED <<out, level, todo, got, op, cur, result, chip, noisy, misled>>
    BY DEF EndOp, faults
  <1>2. Left = 0 /\ HostType /\ W \in Nat /\ IDLE \in Nat
    BY <1>1, LineOnes DEF Left, Host
  <1>3. driving
    <2>1. CASE op.kind \in Kinds
      <3>1. result.st = "ok" /\ cur.rnw => driving
        BY <1>1, <2>1 DEF Host, HostRead
      <3>2. result.st = "ok" /\ ~cur.rnw => driving
        BY <1>1, <1>2, <2>1 DEF Host, HostWrite
      <3>3. result.st # "ok" => driving
        BY <1>1, <1>2, <2>1 DEF Host, HostFail
      <3> QED
        BY <3>1, <3>2, <3>3
    <2>2. CASE op.kind = "init"
      BY <1>1, <2>2 DEF Host, HostInit
    <2>3. CASE op.kind = "sequence"
      BY <1>1, <2>3 DEF Host, HostSequence
    <2>4. op.kind # "pins"
      BY <1>1 DEF Host, HostOp
    <2> QED
      BY <1>2, <2>1, <2>2, <2>3, <2>4 DEF HostType
  <1>4. driving' = TRUE /\ driving = TRUE /\ trusted' \in BOOLEAN
    BY <1>1, <1>2, <1>3 DEF HostType
  <1>5. HostType'
    BY <1>1, <1>2, <1>4 DEF HostType
  <1>6. HostIdle'
    BY <1>1, <1>4 DEF HostIdle
  <1>7. HostAck' /\ HostData' /\ HostRead' /\ HostWrite' /\ HostFail' /\ HostInit' /\ HostSequence' /\ HostOp'
    BY <1>1 DEF HostAck, HostData, HostRead, HostWrite, HostFail, HostInit, HostSequence, HostOp
  <1> QED
    BY <1>1, <1>2, <1>5, <1>6, <1>7 DEF Host

\* What the host's half of the invariant depends on.
LEMMA HostKept ==
  ASSUME Host, UNCHANGED host, noisy' \in Nat, misled' \in BOOLEAN, trusted' \in BOOLEAN, trusted' => trusted
  PROVE  Host'
  <1>1. UNCHANGED <<out, level, driving, todo, got, phase, op, cur, pins, result>> /\ Left' = Left
    BY DEF host, Left
  <1>2. HostType' /\ HostIdle' /\ HostAck'
    BY <1>1 DEF Host, HostType, HostIdle, HostAck
  <1>3. HostData' /\ HostRead' /\ HostWrite'
    BY <1>1 DEF Host, HostData, HostRead, HostWrite
  <1>4. HostFail' /\ HostInit' /\ HostSequence' /\ HostOp'
    BY <1>1 DEF Host, HostFail, HostInit, HostSequence, HostOp
  <1> QED
    BY <1>2, <1>3, <1>4 DEF Host

LEMMA HostAtFirst ==
  ASSUME Init
  PROVE  Host /\ phase = "idle" /\ op.kind = "init" /\ ~trusted
  <1>1. /\ out = TRUE /\ level = 1 /\ driving = TRUE /\ todo = <<>> /\ got = <<>> /\ phase = "idle"
        /\ op = [kind |-> "init"] /\ result = NoResult /\ noisy = 0 /\ misled = FALSE /\ trusted = FALSE
        /\ \E word \in Words : cur = Rdbuff(word)
    BY DEF Init
  <1>2. cur \in Transfers
    BY <1>1 DEF Rdbuff, Transfers
  <1>3. op.kind = "init" /\ op.kind \notin Kinds /\ result.st = "ok"
    BY <1>1, KindsAre DEF NoResult
  <1>4. HostType
    <2>1. out = driving /\ driving \in BOOLEAN /\ level \in Bit
      BY <1>1, CycleTypes
    <2>2. todo \in Seq(Cycles) /\ got \in Seq(Bit)
      BY <1>1
    <2>3. phase \in {"idle", "ack", "data", "end"} /\ noisy \in Nat /\ misled \in BOOLEAN /\ trusted \in BOOLEAN
      BY <1>1
    <2> QED
      BY <1>2, <1>3, <2>1, <2>2, <2>3, Zenon DEF HostType
  <1>5. HostIdle /\ HostAck /\ HostData /\ HostRead /\ HostWrite /\ HostFail /\ HostInit /\ HostSequence /\ HostOp
    BY <1>1, <1>3 DEF HostIdle, HostAck, HostData, HostRead, HostWrite, HostFail, HostInit, HostSequence, HostOp
  <1> QED
    BY <1>1, <1>3, <1>4, <1>5 DEF Host

-----------------------------------------------------------------------------
(***************************************************************************)
(* The chip's half.  During init(), after p of its cycles, whatever the    *)
(* chip was doing before.                                                  *)
(***************************************************************************)
SettlingAt(c, p, m) ==
  IF p <= LINE_ONES THEN Shaken(c, p, m)
  ELSE IF p <= LINE_ONES + 16 THEN Switched(c, p - LINE_ONES)
  ELSE IF p <= LINE_ONES + 16 + LINE_ONES THEN ShakenAgain(c, p - (LINE_ONES + 16))
  ELSE Settled(c, p - (LINE_ONES + 16 + LINE_ONES))

Settling ==
  phase = "end" /\ op.kind = "init" /\ OneFlip => SettlingAt(chip, InitLength - Left, noisy)

(***************************************************************************)
(* From then on, as long as every acknowledgement was readable and at most *)
(* one sample was flipped: both ends are at the same place of the          *)
(* transfer, and what either has heard differs from what the other has     *)
(* said in one bit at most.                                                *)
(***************************************************************************)
Good == trusted /\ OneFlip

\* The chip did not understand the request.
Garbled ==
  /\ chip.st = "lost" /\ chip.ones + Left <= 12
  /\ History(chip, op, Before(op, cur))
  /\ \A i \in 1 .. Len(got) : got[i] = 1

Performed == History(chip, op, Before(op, cur) + (IF ReadTail(chip) = 0 THEN 0 ELSE 1))

Outcome ==
  /\ result.st = "ok" /\ TransferOf(op).rnw =>
       History(chip, op, IF op.kind = "read_ap" THEN 2 ELSE 1) /\ result.word = chip.did[1].word
  /\ result.st \in {"wait", "fault"} => History(chip, op, Before(op, cur))
  /\ \E n \in 0 .. 2 : History(chip, op, n)

StepIdle == phase = "idle" => Synced(chip) /\ (op.kind \in Kinds => Outcome)

StepSequence ==
  phase = "end" /\ op.kind = "sequence" => Synced(chip) /\ \A i \in 1 .. Left : todo[i] = Out(0)

StepAsk ==
  phase = "ack" /\ Left > 4 => Hearing(chip, cur, 12 - Left, noisy) /\ History(chip, op, Before(op, cur))

Answering ==
  /\ Performed
  /\ Left = 4 => chip.st = "turn" /\ AnswerIs(chip, cur, 3)
  /\ Left < 4 => /\ chip.st = (IF Left = 0 /\ ReadTail(chip) = 0 THEN "back" ELSE "drive")
                 /\ chip.ones = 0 /\ AnswerIs(chip, cur, Left)
                 /\ Near(got, AckBits[chip.ack], noisy)

StepAnswer == phase = "ack" /\ Left <= 4 => Garbled \/ Answering

StepData ==
  phase = "data" =>
    /\ History(chip, op, Before(op, cur) + 1) /\ chip.ones = 0
    /\ chip.st = IF Left > 1 THEN "drive" ELSE IF Left = 1 THEN "back" ELSE "idle"
    /\ Left >= 1 => Sending(chip, cur, Left - 1) /\ chip.access.rnw
    /\ ~cur.ap => Near(got, Coded(chip.did[1].word), noisy)

StepRead ==
  phase = "end" /\ op.kind \in Kinds /\ result.st = "ok" /\ cur.rnw =>
    /\ Synced(chip) /\ History(chip, op, Before(op, cur) + 1)
    /\ ~cur.ap => result.word = chip.did[1].word

StepWrite ==
  phase = "end" /\ op.kind \in Kinds /\ result.st = "ok" /\ ~cur.rnw =>
    /\ Left > IDLE => History(chip, op, 0)
    /\ Left = IDLE + W + 2 => chip.st = "back" /\ chip.ack = "ok" /\ chip.ones = 0 /\ chip.access = AccessOf(cur)
    /\ Left > IDLE /\ Left < IDLE + W + 2 => Taking(chip, cur, IDLE + W + 1 - Left, noisy)
    /\ Left <= IDLE => chip.st = "idle" /\ \E n \in 0 .. 1 : History(chip, op, n)
    /\ Left < IDLE => chip.ones = 0

StepFail ==
  phase = "end" /\ op.kind \in Kinds /\ result.st # "ok" =>
    /\ result.st \in {"wait", "fault"} /\ History(chip, op, Before(op, cur))
    /\ Left > IDLE => chip.st = "back" /\ chip.ack # "ok" /\ chip.ones = 0
    /\ Left <= IDLE => Synced(chip)

Lockstep ==
  Good => /\ StepIdle /\ StepSequence /\ StepAsk /\ StepAnswer
          /\ StepData /\ StepRead /\ StepWrite /\ StepFail

Inv == Host /\ ChipOK(chip) /\ Settling /\ Lockstep

-----------------------------------------------------------------------------
\* Where init() is, by the cycles it has made.
LEMMA SettlingParts ==
  ASSUME NEW c, NEW p \in Nat, NEW m
  PROVE  /\ p <= LINE_ONES => (SettlingAt(c, p, m) <=> Shaken(c, p, m))
         /\ p > LINE_ONES /\ p <= LINE_ONES + 16 => (SettlingAt(c, p, m) <=> Switched(c, p - LINE_ONES))
         /\ p > LINE_ONES + 16 /\ p <= LINE_ONES + 16 + LINE_ONES =>
              (SettlingAt(c, p, m) <=> ShakenAgain(c, p - (LINE_ONES + 16)))
         /\ p > LINE_ONES + 16 + LINE_ONES =>
              (SettlingAt(c, p, m) <=> Settled(c, p - (LINE_ONES + 16 + LINE_ONES)))
  <1>1. CASE p <= LINE_ONES
    <2>1. ~(p > LINE_ONES) /\ ~(p > LINE_ONES + 16) /\ ~(p > LINE_ONES + 16 + LINE_ONES)
      BY <1>1, LineOnes
    <2> QED
      BY <1>1, <2>1, Zenon DEF SettlingAt
  <1>2. CASE p > LINE_ONES /\ p <= LINE_ONES + 16
    <2>1. ~(p <= LINE_ONES) /\ ~(p > LINE_ONES + 16) /\ ~(p > LINE_ONES + 16 + LINE_ONES)
      BY <1>2, LineOnes
    <2> QED
      BY <1>2, <2>1, Zenon DEF SettlingAt
  <1>3. CASE p > LINE_ONES + 16 /\ p <= LINE_ONES + 16 + LINE_ONES
    <2>1. ~(p <= LINE_ONES) /\ ~(p <= LINE_ONES + 16) /\ ~(p > LINE_ONES + 16 + LINE_ONES)
      BY <1>3, LineOnes
    <2> QED
      BY <1>3, <2>1, Zenon DEF SettlingAt
  <1>4. CASE p > LINE_ONES + 16 + LINE_ONES
    <2>1. ~(p <= LINE_ONES) /\ ~(p <= LINE_ONES + 16) /\ ~(p <= LINE_ONES + 16 + LINE_ONES)
      BY <1>4, LineOnes
    <2> QED
      BY <1>4, <2>1, Zenon DEF SettlingAt
  <1> QED
    BY <1>1, <1>2, <1>3, <1>4, LineOnes

\* One cycle of init().
LEMMA SettleStep ==
  ASSUME NEW c, ChipOK(c), NEW p \in Nat, p < InitLength, NEW m \in Bit, NEW flip \in Bit, m + flip <= 1,
         SettlingAt(c, p, m), NEW b \in Bit, NEW d \in Edge(c, b),
         ~Drives(c) => b = (InitTo(InitLength - p).bit + flip) % 2,
         c.st \in Waiting => flip = 0, NEW q, q = p + 1, NEW n, n = m + flip
  PROVE  SettlingAt(d, q, n)
  <1> DEFINE L == LINE_ONES
             k == InitLength - p
             x == InitTo(k)
  <1>1. L \in Nat /\ IDLE \in Nat /\ InitLength = L + 16 + L + IDLE
    BY LineOnes DEF InitLength
  <1>2. c.st \in Waiting => ~Drives(c)
    BY DEF Waiting, Drives
  <1>3. /\ p <= L => Shaken(c, p, m)
        /\ p > L /\ p <= L + 16 => Switched(c, p - L)
        /\ p > L + 16 /\ p <= L + 16 + L => ShakenAgain(c, p - (L + 16))
        /\ p > L + 16 + L => Settled(c, p - (L + 16 + L))
    BY SettlingParts
  <1>11. q \in Nat
    OBVIOUS
  <1>12. /\ q <= L /\ Shaken(d, q, n) => SettlingAt(d, q, n)
         /\ q > L /\ q <= L + 16 /\ Switched(d, q - L) => SettlingAt(d, q, n)
         /\ q > L + 16 /\ q <= L + 16 + L /\ ShakenAgain(d, q - (L + 16)) => SettlingAt(d, q, n)
         /\ q > L + 16 + L /\ Settled(d, q - (L + 16 + L)) => SettlingAt(d, q, n)
    BY <1>11, SettlingParts
  <1>4. x = IF k <= IDLE THEN Out(0)
            ELSE IF k <= IDLE + L THEN Out(1)
            ELSE IF k <= IDLE + L + 16 THEN Out(SwitchBits[IDLE + L + 17 - k])
            ELSE Out(1)
    BY DEF InitTo
  <1>5. ~Drives(c) => b = (x.bit + flip) % 2
    OBVIOUS
  <1>6. flip \in 0 .. 1 /\ k \in Nat /\ k = L + 16 + L + IDLE - p
    BY <1>1 DEF Bit
  <1> HIDE DEF L, k, x
  <1>7. CASE p < L
    <2>1. Shaken(c, p, m)
      BY <1>1, <1>3, <1>7
    <2>2. x.bit = 1
      <3>1. ~(k <= IDLE) /\ ~(k <= IDLE + L) /\ ~(k <= IDLE + L + 16)
        BY <1>1, <1>6, <1>7
      <3> QED
        BY <1>4, <3>1, CycleKinds
    <2>3. c.st \in Waiting => b = 1
      BY <1>2, <1>5, <2>2
    <2>4. c.st = "request" => b = (1 + flip) % 2
      BY <1>5, <2>2 DEF Drives
    <2>5. Shaken(d, q, n)
      BY <1>7, <2>1, <2>3, <2>4, Shake DEF L
    <2> QED
      BY <1>1, <1>6, <1>7, <1>12, <2>5
  <1>8. CASE p >= L /\ p < L + 16
    <2>1. Switched(c, p - L) /\ p - L \in 0 .. 15 /\ q - L = p - L + 1
      <3>1. CASE p = L
        <4>1. Shaken(c, L, m)
          BY <1>1, <1>3, <3>1
        <4>2. Switched(c, 0)
          BY <4>1, ShakenEnough DEF L
        <4> QED
          BY <1>1, <3>1, <4>2
      <3>2. CASE p > L
        BY <1>1, <1>3, <1>8, <3>2
      <3> QED
        BY <1>1, <1>8, <3>1, <3>2
    <2>2. x.bit = SwitchBits[p - L + 1]
      <3>1. ~(k <= IDLE) /\ ~(k <= IDLE + L) /\ k <= IDLE + L + 16 /\ IDLE + L + 17 - k = p - L + 1
        BY <1>1, <1>6, <1>8
      <3> QED
        BY <1>4, <3>1, CycleKinds
    <2>3. c.st \in Waiting
      BY <2>1 DEF Switched, Waiting
    <2>4. b = SwitchBits[p - L + 1]
      <3>1. SwitchBits[p - L + 1] \in 0 .. 1
        <4>1. p - L + 1 \in 1 .. 16
          BY <2>1
        <4>2. \A i \in 1 .. 16 : SwitchBits[i] \in Bit
          <5> HIDE DEF SwitchBits
          <5> QED
            BY SwitchBitsAre, ElementOfSeq
        <4> QED
          BY <4>1, <4>2 DEF Bit
      <3>2. b = (SwitchBits[p - L + 1] + 0) % 2
        BY <1>2, <1>5, <2>2, <2>3
      <3> QED
        BY <3>1, <3>2
    <2>5. Switched(d, p - L + 1)
      BY <2>1, <2>4, Switch
    <2>6. CASE q <= L + 16
      <3>1. q > L /\ Switched(d, q - L)
        BY <1>1, <1>8, <2>1, <2>5
      <3> QED
        BY <1>12, <2>6, <3>1
    <2> QED
      BY <1>1, <1>8, <2>6
  <1>9. CASE p >= L + 16 /\ p < L + 16 + L
    <2>1. ShakenAgain(c, p - (L + 16)) /\ p - (L + 16) \in Nat /\ q - (L + 16) = p - (L + 16) + 1
      <3>1. CASE p = L + 16
        <4>1. Switched(c, 16)
          <5>1. p - L = 16 /\ p > L /\ p <= L + 16
            BY <1>1, <3>1, LineOnes
          <5> QED
            BY <1>3, <5>1
        <4>2. ShakenAgain(c, 0)
          BY <4>1, SwitchedOver
        <4> QED
          BY <1>1, <3>1, <4>2
      <3>2. CASE p > L + 16
        BY <1>1, <1>3, <1>9, <3>2
      <3> QED
        BY <1>1, <1>9, <3>1, <3>2
    <2>2. x.bit = 1
      <3>1. ~(k <= IDLE) /\ k <= IDLE + L
        BY <1>1, <1>6, <1>9
      <3> QED
        BY <1>4, <3>1, CycleKinds
    <2>3. c.st \in Waiting
      BY <2>1 DEF ShakenAgain, Waiting
    <2>4. b = 1
      BY <1>2, <1>5, <2>2, <2>3
    <2>5. ShakenAgain(d, p - (L + 16) + 1)
      BY <2>1, <2>4, ShakeAgain
    <2> QED
      <3>1. q > L + 16 /\ q <= L + 16 + L /\ ShakenAgain(d, q - (L + 16))
        BY <1>1, <1>9, <2>1, <2>5
      <3> QED
        BY <1>12, <3>1
  <1>10. CASE p >= L + 16 + L
    <2>1. Settled(c, p - (L + 16 + L)) /\ p - (L + 16 + L) \in Nat /\ q - (L + 16 + L) = p - (L + 16 + L) + 1
      <3>1. CASE p = L + 16 + L
        <4>1. ShakenAgain(c, L)
          <5>1. p - (L + 16) = L /\ p > L + 16 /\ p <= L + 16 + L
            BY <1>1, <3>1, LineOnes DEF L
          <5> QED
            BY <1>3, <5>1
        <4>2. Settled(c, 0)
          BY <4>1, ShakenAgainEnough DEF L
        <4> QED
          BY <1>1, <3>1, <4>2
      <3>2. CASE p > L + 16 + L
        BY <1>1, <1>3, <1>10, <3>2
      <3> QED
        BY <1>1, <1>10, <3>1, <3>2
    <2>2. x.bit = 0
      <3>1. k <= IDLE
        BY <1>1, <1>6, <1>10
      <3> QED
        BY <1>4, <3>1, CycleKinds
    <2>3. c.st \in Waiting
      BY <2>1 DEF Settled, Waiting
    <2>4. b = 0
      BY <1>2, <1>5, <2>2, <2>3
    <2>5. Settled(d, p - (L + 16 + L) + 1)
      BY <2>1, <2>4, Settle
    <2> QED
      <3>1. q > L + 16 + L /\ Settled(d, q - (L + 16 + L))
        BY <1>1, <1>10, <2>1, <2>5
      <3> QED
        BY <1>12, <3>1
  <1> QED
    BY <1>1, <1>7, <1>8, <1>9, <1>10

-----------------------------------------------------------------------------
\* A cycle with no more than one flip.
LEMMA OneFlipCycle ==
  ASSUME HostType, ChipOK(chip), NEW flip \in Bit, Cycle(flip), OneFlip'
  PROVE  /\ OneFlip /\ noisy \in Bit /\ noisy + flip <= 1 /\ noisy' = noisy + flip
         /\ chip.st \in Waiting => flip = 0
         /\ trusted' = trusted /\ noisy' \in Bit
  <1>1. noisy' = noisy + flip /\ trusted' = trusted /\ misled' = (misled \/ (flip = 1 /\ chip.st \in Waiting))
    BY CycleIs
  <1>2. noisy' <= 1 /\ ~misled'
    BY DEF OneFlip
  <1>3. noisy \in Nat /\ misled \in BOOLEAN /\ flip \in 0 .. 1
    BY DEF HostType, Bit
  <1>4. noisy \in 0 .. 1 /\ noisy + flip <= 1 /\ noisy' \in 0 .. 1 /\ noisy <= 1
    BY <1>1, <1>2, <1>3
  <1>5. ~misled /\ ~(flip = 1 /\ chip.st \in Waiting)
    BY <1>1, <1>2, <1>3, Zenon
  <1>6. chip.st \in Waiting => flip = 0
    BY <1>3, <1>5
  <1> QED
    BY <1>1, <1>4, <1>5, <1>6 DEF OneFlip, Bit

\* A cycle of init().
LEMMA SettlingCycle ==
  ASSUME Host, ChipOK(chip), Settling, NEW flip \in Bit, Cycle(flip)
  PROVE  Settling'
  <1> SUFFICES ASSUME phase' = "end", op'.kind = "init", OneFlip'
               PROVE  SettlingAt(chip', InitLength - Left', noisy')
    BY DEF Settling, InitLength
  <1> DEFINE b == (Line(todo[1]) + flip) % 2
             p == InitLength - Left
  <1>1. HostType /\ HostInit
    BY DEF Host
  <1>2. /\ Left \in Nat \ {0} /\ Left' = Left - 1 /\ todo[1] \in Cycles
        /\ 1 \in 1 .. Left /\ Left + 1 - 1 = Left
        /\ b \in Bit /\ chip' \in Edge(chip, b)
        /\ phase' = phase /\ op' = op
    BY <1>1, CycleIs
  <1>3. OneFlip /\ noisy \in Bit /\ noisy + flip <= 1 /\ noisy' = noisy + flip /\ (chip.st \in Waiting => flip = 0)
    BY <1>1, OneFlipCycle
  <1>4. driving /\ Left <= InitLength /\ todo[1] = InitTo(Left)
    BY <1>1, <1>2 DEF HostInit
  <1>5. SettlingAt(chip, p, noisy)
    BY <1>2, <1>3 DEF Settling
  <1>6. InitLength \in Nat
    BY LineOnes DEF InitLength
  <1>7. p \in Nat /\ p < InitLength /\ InitLength - p = Left /\ InitLength - Left' = p + 1
    BY <1>2, <1>4, <1>6
  <1>8. ~Drives(chip) => b = (InitTo(InitLength - p).bit + flip) % 2
    <2>1. InitTo(Left).do = "write"
      BY CycleKinds, Zenon DEF InitTo
    <2>2. ~Drives(chip) => Line(todo[1]) = todo[1].bit
      BY <1>1, <1>2, <1>4, <2>1, OnTheLine
    <2> QED
      BY <1>4, <1>7, <2>2
  <1> HIDE DEF b, p
  <1> QED
    BY <1>2, <1>3, <1>5, <1>7, <1>8, SettleStep

\* The chip at the beginning of an operation.
LEMMA DidCleared ==
  ASSUME NEW c, ChipOK(c)
  PROVE  LET d == [c EXCEPT !.did = <<>>]
         IN  /\ ChipOK(d) /\ d.st = c.st /\ d.n = c.n /\ d.ones = c.ones /\ d.bits = c.bits /\ d.send = c.send
             /\ d.access = c.access /\ d.ack = c.ack /\ d.posted = c.posted /\ d.did = <<>>
  <1> DEFINE d == [c EXCEPT !.did = <<>>]
  <1>1. c \in Chips
    BY DEF ChipOK
  <1>2. /\ d \in Chips /\ d.st = c.st /\ d.n = c.n /\ d.ones = c.ones /\ d.bits = c.bits /\ d.send = c.send
        /\ d.access = c.access /\ d.ack = c.ack /\ d.posted = c.posted /\ d.did = <<>>
    <2>1. \A S : <<>> \in Seq(S)
      OBVIOUS
    <2> DEFINE none == <<>>
    <2>2. none \in Seq([ap : BOOLEAN, rnw : BOOLEAN, addr : 0 .. 3, word : Words]) /\ none = <<>>
      BY <2>1
    <2> HIDE DEF none
    <2>3. d = [c EXCEPT !.did = none]
      BY <2>2
    <2> HIDE DEF d
    <2> QED
      BY <1>1, <2>2, <2>3 DEF Chips
  <1> HIDE DEF d
  <1>3. ReadTail(d) = ReadTail(c)
    BY <1>2, Zenon DEF ReadTail
  <1>4. ChipOK(d)
    BY <1>2, <1>3 DEF ChipOK
  <1> QED
    BY <1>2, <1>4 DEF d

\* A chip that was just connected.
LEMMA NewChipOK ==
  ASSUME NEW st \in {"jtag", "lost", "idle"}
  PROVE  ChipOK(NewChip(st))
  <1> DEFINE w == CHOOSE w \in Words : TRUE
             c == NewChip(st)
  <1>1. w \in Words
    BY ChipAssumption
  <1>2. NoAccess \in [ap : BOOLEAN, rnw : BOOLEAN, addr : 0 .. 3] /\ "ok" \in Acks /\ <<>> \in Seq(Bit)
    BY AckFacts DEF NoAccess
  <1>3. /\ c.st = st /\ c.n = 0 /\ c.ones = 0 /\ c.bits = <<>>
        /\ c = [st |-> st, n |-> 0, ones |-> 0, bits |-> <<>>, send |-> <<>>, access |-> NoAccess,
                ack |-> "ok", posted |-> w, did |-> <<>>]
    BY DEF NewChip
  <1>4. 0 # ResetOnes /\ 0 \in 0 .. ResetOnes /\ 0 \in 0 .. 16
    BY LineOnes
  <1>5. st \in ChipStates /\ st \notin {"reset", "request", "data", "turn", "drive", "back"}
    BY DEF ChipStates
  <1> HIDE DEF w, c
  <1>6. c \in Chips
    BY <1>1, <1>2, <1>3, <1>4, <1>5 DEF Chips
  <1>7. ChipOK(c)
    BY <1>3, <1>4, <1>5, <1>6 DEF ChipOK
  <1> QED
    BY <1>7 DEF c

\* init() begins.
LEMMA SettlingInitLine ==
  ASSUME Host, ChipOK(chip), InitLine
  PROVE  Settling' /\ ChipOK(chip') /\ ~trusted'
  <1>1. Left' = InitLength
    BY HostInitLine
  <1>2. chip' = [chip EXCEPT !.did = <<>>] /\ noisy' = 0 /\ trusted' = FALSE
    BY DEF InitLine, StartOp
  <1>3. ChipOK(chip')
    BY <1>2, DidCleared
  <1>4. Shaken(chip', 0, 0)
    BY <1>3, ShakenAtFirst
  <1>5. 0 <= LINE_ONES /\ InitLength - Left' = 0
    BY <1>1, LineOnes DEF InitLength
  <1>6. SettlingAt(chip', 0, 0)
    BY <1>4, <1>5, SettlingParts
  <1> QED
    BY <1>2, <1>3, <1>5, <1>6 DEF Settling

-----------------------------------------------------------------------------
\* The transfer under way is one of the operation.
LEMMA InTransfer ==
  ASSUME Host, phase # "idle", op.kind \in Kinds
  PROVE  /\ op \in Accesses /\ cur \in Transfers /\ IsTransferOf(op, cur)
         /\ cur.rnw <=> TransferOf(op).rnw
         /\ ~cur.rnw => cur = TransferOf(op) /\ Before(op, cur) = 0
         /\ op.kind # "read_ap" => cur = TransferOf(op)
         /\ cur.ap => cur = TransferOf(op) /\ Before(op, cur) = 0
         /\ op.kind = "read_ap" /\ ~cur.ap => Before(op, cur) = 1
         /\ op.kind # "read_ap" => Before(op, cur) = 0
         /\ Before(op, cur) \in 0 .. 1
  <1>1. op \in Accesses /\ cur \in Transfers /\ IsTransferOf(op, cur)
    BY DEF Host, HostType, HostOp
  <1>2. /\ TransferOf(op).rnw <=> op.kind \in {"read_dp", "read_ap"}
        /\ ~Rdbuff(op.word).ap /\ Rdbuff(op.word).rnw
    BY <1>1, KindOfTransfer
  <1>3. cur = TransferOf(op) \/ (op.kind = "read_ap" /\ cur = Rdbuff(op.word))
    BY <1>1 DEF IsTransferOf
  <1>4. cur.rnw <=> TransferOf(op).rnw
    BY <1>2, <1>3
  <1>5. /\ ~cur.rnw => cur = TransferOf(op) /\ op.kind # "read_ap"
        /\ op.kind # "read_ap" => cur = TransferOf(op)
        /\ cur.ap => cur = TransferOf(op)
    BY <1>2, <1>3
  <1>6. /\ op.kind = "read_ap" /\ ~cur.ap => Before(op, cur) = 1
        /\ ~(op.kind = "read_ap" /\ ~cur.ap) => Before(op, cur) = 0
    BY DEF Before
  <1>7. Before(op, cur) \in 0 .. 1
    BY <1>6
  <1> QED
    BY <1>1, <1>4, <1>5, <1>6, <1>7, Zenon

\* A transfer begins with a chip that waits for it.
LEMMA AskBegins ==
  ASSUME phase' = "ack", Left' = 12, Synced(chip'), History(chip', op', Before(op', cur'))
  PROVE  Lockstep'
  <1>1. Left' > 4 /\ ~(Left' <= 4) /\ 12 - Left' = 0
    OBVIOUS
  <1>2. Hearing(chip', cur', 0, noisy')
    BY Zenon DEF Hearing
  <1>3. StepAsk'
    BY <1>1, <1>2 DEF StepAsk
  <1> QED
    BY <1>1, <1>3, Zenon DEF Lockstep, StepIdle, StepSequence, StepAnswer, StepData, StepRead, StepWrite, StepFail

\* An operation begins: the chip is where it was, its history empty.
LEMMA Begun ==
  ASSUME NEW o, ChipOK(chip), Host, StartOp(o)
  PROVE  /\ ChipOK(chip') /\ chip'.st = chip.st /\ chip'.ones = chip.ones /\ chip'.did = <<>>
         /\ phase = "idle" /\ op' = o
         /\ Lockstep /\ Good => Synced(chip')
  <1>1. chip' = [chip EXCEPT !.did = <<>>] /\ phase = "idle" /\ op' = o
    BY DEF StartOp
  <1>2. ChipOK(chip') /\ chip'.st = chip.st /\ chip'.ones = chip.ones /\ chip'.did = <<>>
    BY <1>1, DidCleared
  <1>3. Lockstep /\ Good => Synced(chip)
    BY <1>1 DEF Lockstep, StepIdle
  <1> QED
    BY <1>1, <1>2, <1>3 DEF Synced

LEMMA DoAccessKeeps ==
  ASSUME Inv, NEW o \in Accesses, DoAccess(o)
  PROVE  Inv'
  <1>1. Host /\ ChipOK(chip) /\ Lockstep
    BY DEF Inv
  <1>2. Host' /\ phase' = "ack" /\ Left' = 12 /\ cur' = TransferOf(o)
    BY <1>1, HostDoAccess
  <1>3. StartOp(o) /\ UNCHANGED <<noisy, misled, trusted>>
    BY DEF DoAccess
  <1>4. ChipOK(chip') /\ chip'.did = <<>> /\ op' = o /\ (Good => Synced(chip'))
    BY <1>1, <1>3, Begun
  <1>5. Settling'
    BY <1>2 DEF Settling
  <1>6. Good' => Good
    BY <1>3 DEF Good, OneFlip
  <1>7. Before(o, TransferOf(o)) = 0
    BY KindOfTransfer DEF Before
  <1>8. History(chip', op', Before(op', cur'))
    <2>1. Len(chip'.did) = 0
      BY <1>4
    <2> QED
      BY <1>2, <1>4, <1>7, <2>1 DEF History
  <1>9. CASE Good'
    BY <1>1, <1>2, <1>4, <1>5, <1>6, <1>8, <1>9, AskBegins DEF Inv
  <1>10. CASE ~Good'
    BY <1>2, <1>4, <1>5, <1>10 DEF Inv, Lockstep
  <1> QED
    BY <1>9, <1>10

LEMMA FetchPostedKeeps ==
  ASSUME Inv, FetchPosted
  PROVE  Inv'
  <1>1. Host /\ ChipOK(chip) /\ Lockstep
    BY DEF Inv
  <1>2. Host' /\ phase' = "ack" /\ Left' = 12 /\ cur' = Rdbuff(op.word) /\ op \in Accesses /\ op.kind = "read_ap"
    BY <1>1, HostFetch
  <1>3. /\ phase = "end" /\ cur.ap /\ result.st = "ok" /\ chip' = chip /\ op' = op
        /\ UNCHANGED <<noisy, misled, trusted>>
    BY DEF FetchPosted, faults
  <1>4. ChipOK(chip') /\ Settling'
    BY <1>1, <1>2, <1>3 DEF Settling
  <1>5. Good' => Good
    BY <1>3 DEF Good, OneFlip
  <1>6. CASE Good'
    <2>1. op.kind \in Kinds /\ phase # "idle"
      BY <1>2, <1>3 DEF Kinds
    <2>2. cur = TransferOf(op) /\ Before(op, cur) = 0
      BY <1>1, <1>3, <2>1, InTransfer
    <2>3. cur.rnw
      BY <1>2, <2>2, KindOfTransfer
    <2>4. Synced(chip) /\ History(chip, op, Before(op, cur) + 1)
      BY <1>1, <1>3, <1>5, <1>6, <2>1, <2>3 DEF Lockstep, StepRead
    <2>5. Before(op, cur') = 1
      BY <1>2, KindOfTransfer DEF Before
    <2>6. Synced(chip') /\ History(chip', op', Before(op', cur'))
      BY <1>3, <2>2, <2>4, <2>5
    <2> QED
      BY <1>2, <1>4, <2>6, AskBegins DEF Inv
  <1>7. CASE ~Good'
    BY <1>2, <1>4, <1>7 DEF Inv, Lockstep
  <1> QED
    BY <1>6, <1>7

LEMMA InitLineKeeps ==
  ASSUME Inv, InitLine
  PROVE  Inv'
  <1>1. Host /\ ChipOK(chip)
    BY DEF Inv
  <1>2. Host'
    BY <1>1, HostInitLine
  <1>3. Settling' /\ ChipOK(chip') /\ ~trusted'
    BY <1>1, SettlingInitLine
  <1> QED
    BY <1>2, <1>3 DEF Inv, Lockstep, Good

LEMMA SwjSequenceKeeps ==
  ASSUME Inv, NEW s \in Sequences, SwjSequence(s)
  PROVE  Inv'
  <1>1. Host /\ ChipOK(chip) /\ Lockstep
    BY DEF Inv
  <1>2. /\ Host' /\ phase' = "end" /\ op'.kind = "sequence"
        /\ trusted' => trusted /\ \A i \in 1 .. Left' : todo'[i] = Out(0)
    BY <1>1, HostSwjSequence
  <1>3. StartOp([kind |-> "sequence"]) /\ UNCHANGED <<noisy, misled>>
    BY DEF SwjSequence
  <1>4. ChipOK(chip') /\ (Good => Synced(chip'))
    BY <1>1, <1>3, Begun
  <1>5. Settling'
    BY <1>2 DEF Settling
  <1>6. Good' => StepSequence'
    BY <1>2, <1>3, <1>4 DEF Good, OneFlip, StepSequence
  <1>7. op'.kind \notin Kinds
    BY <1>2, KindsAre
  <1>8. Lockstep'
    BY <1>2, <1>6, <1>7, Zenon DEF Lockstep, StepIdle, StepAsk, StepAnswer, StepData, StepRead, StepWrite, StepFail
  <1> QED
    BY <1>2, <1>4, <1>5, <1>8 DEF Inv

LEMMA SwjPinsKeeps ==
  ASSUME Inv, NEW selected \in BOOLEAN, NEW high \in BOOLEAN, SwjPins(selected, high)
  PROVE  Inv'
  <1>1. Host /\ ChipOK(chip) /\ Lockstep
    BY DEF Inv
  <1>2. Host' /\ phase' = "idle" /\ op'.kind = "pins"
    BY <1>1, HostSwjPins
  <1>3. StartOp([kind |-> "pins"]) /\ UNCHANGED <<noisy, misled, trusted>>
    BY DEF SwjPins
  <1>4. ChipOK(chip') /\ (Good => Synced(chip'))
    BY <1>1, <1>3, Begun
  <1>5. Settling'
    BY <1>2 DEF Settling
  <1>6. Good' => Good
    BY <1>3 DEF Good, OneFlip
  <1>7. op'.kind \notin Kinds
    BY <1>2, KindsAre
  <1>8. Good' => StepIdle'
    BY <1>4, <1>6, <1>7, Zenon DEF StepIdle
  <1>9. Lockstep'
    BY <1>2, <1>8, Zenon DEF Lockstep, StepSequence, StepAsk, StepAnswer, StepData, StepRead, StepWrite, StepFail
  <1> QED
    BY <1>2, <1>4, <1>5, <1>9 DEF Inv

\* What has been performed is noted with a word.
LEMMA DidWord ==
  ASSUME NEW c, ChipOK(c), NEW o, NEW n \in Nat \ {0}, History(c, o, n)
  PROVE  c.did[1].word \in Words
  <1> DEFINE did == c.did
  <1>1. did \in Seq(Done1)
    BY ChipFields DEF ChipOK
  <1>2. Len(did) = n
    BY DEF History
  <1> HIDE DEF did
  <1>3. did[1] \in Done1
    BY <1>1, <1>2
  <1> QED
    BY <1>3 DEF Done1, did

\* The acknowledgement was read as the chip gave it, or the firmware knows.
LEMMA AckRead ==
  ASSUME Inv, ReadAck, Good'
  PROVE  /\ Good /\ Performed /\ AnswerIs(chip, cur, 0) /\ chip.ones = 0 /\ chip.ack \in Acks
         /\ chip.st = (IF ReadTail(chip) = 0 THEN "back" ELSE "drive")
         /\ got = AckBits[chip.ack]
  <1>1. Host /\ ChipOK(chip) /\ Lockstep
    BY DEF Inv
  <1>2. /\ phase = "ack" /\ Left = 0 /\ Len(got) = 3 /\ got \in Seq(Bit)
        /\ UNCHANGED <<op, cur, chip, noisy, misled>> /\ (trusted' => trusted)
        /\ got \notin {AckBits[a] : a \in Acks} => trusted' = FALSE
    <2>1. got \in Seq(Bit)
      BY <1>1 DEF Host, HostType
    <2>2. \A a \in {"ok", "wait", "fault"} : AckBits[a] \in {AckBits[x] : x \in Acks}
      BY AckFacts
    <2>3. AckBits.ok \in {AckBits[x] : x \in Acks} /\ AckBits.wait \in {AckBits[x] : x \in Acks}
          /\ AckBits.fault \in {AckBits[x] : x \in Acks}
      BY <2>2, AckFacts
    <2>4. \/ trusted' = trusted /\ got \in {AckBits[x] : x \in Acks}
          \/ trusted' = FALSE
      BY <1>1, <2>3, ReadAckIs
    <2> QED
      BY <1>1, <2>1, <2>4, ReadAckIs
  <1>3. Good
    BY <1>2 DEF Good, OneFlip
  <1>4. \E a \in Acks : got = AckBits[a]
    BY <1>2 DEF Good
  <1>5. ~Garbled
    <2>1. SUFFICES ASSUME Garbled PROVE FALSE
      OBVIOUS
    <2>2. got[1] = 1 /\ got[2] = 1 /\ got[3] = 1
      BY <1>2, <2>1 DEF Garbled
    <2>3. got # <<1, 0, 0>> /\ got # <<0, 1, 0>> /\ got # <<0, 0, 1>>
      BY <2>2
    <2> QED
      BY <1>4, <2>3, AckFacts
  <1>6. Answering
    BY <1>1, <1>2, <1>3, <1>5 DEF Lockstep, StepAnswer
  <1>7. /\ Performed /\ chip.ones = 0 /\ AnswerIs(chip, cur, 0) /\ Near(got, AckBits[chip.ack], noisy)
        /\ chip.st = (IF ReadTail(chip) = 0 THEN "back" ELSE "drive")
    <2>1. Left < 4
      BY <1>2
    <2> QED
      BY <1>2, <1>6, <2>1, Zenon DEF Answering
  <1>8. chip.ack \in Acks
    BY <1>1, ChipFields DEF ChipOK
  <1>9. got = AckBits[chip.ack]
    <2>1. PICK a \in Acks : got = AckBits[a]
      BY <1>4
    <2>2. Near(AckBits[a], AckBits[chip.ack], noisy)
      BY <1>7, <2>1
    <2>3. a = chip.ack
      BY <1>8, <2>2, NearAck
    <2> QED
      BY <2>1, <2>3
  <1> QED
    BY <1>3, <1>7, <1>8, <1>9

LEMMA ReadAckKeeps ==
  ASSUME Inv, ReadAck
  PROVE  Inv'
  <1>1. Host /\ ChipOK(chip) /\ Lockstep
    BY DEF Inv
  <1>2. /\ phase = "ack" /\ Left = 0 /\ op.kind \in Kinds /\ Len(got') = 0
        /\ UNCHANGED <<op, cur, chip, noisy, misled>>
        /\ Host' /\ phase' \in {"data", "end"} /\ op'.kind # "init"
    <2>1. phase' \in {"data", "end"}
      BY DEF ReadAck, FailTransfer
    <2> QED
      BY <1>1, <2>1, ReadAckIs, KindsAre
  <1>3. ChipOK(chip') /\ Settling'
    BY <1>1, <1>2 DEF Settling
  <1>4. CASE ~Good'
    BY <1>2, <1>3, <1>4 DEF Inv, Lockstep
  <1>5. CASE Good'
    <2>1. /\ Performed /\ AnswerIs(chip, cur, 0) /\ chip.ones = 0 /\ chip.ack \in Acks
          /\ chip.st = (IF ReadTail(chip) = 0 THEN "back" ELSE "drive")
          /\ got = AckBits[chip.ack]
      BY <1>5, AckRead
    <2>2. /\ op \in Accesses /\ cur \in Transfers /\ Before(op, cur) \in 0 .. 1
          /\ ~cur.rnw => Before(op, cur) = 0
      BY <1>1, <1>2, InTransfer
    <2>3. chip.access = AccessOf(cur) /\ Len(chip.send) = 0 + ReadTail(chip)
      BY <2>1, Zenon DEF AnswerIs
    <2>4. /\ chip.access.rnw = cur.rnw /\ W \in Nat \ {0} /\ W + 1 # 0
          /\ ReadTail(chip) = (IF chip.ack = "ok" /\ cur.rnw THEN W + 1 ELSE 0)
      BY <2>2, <2>3, AccessOfType, LineOnes DEF ReadTail
    <2>5. History(chip, op, Before(op, cur) + (IF ReadTail(chip) = 0 THEN 0 ELSE 1))
      BY <2>1 DEF Performed
    <2>6. \/ got = AckBits.ok /\ cur.rnw /\ phase' = "data" /\ Left' = W + 2
          \/ got = AckBits.ok /\ ~cur.rnw /\ phase' = "end" /\ result'.st = "ok" /\ Left' = IDLE + W + 2
          \/ got = AckBits.wait /\ phase' = "end" /\ result'.st = "wait" /\ Left' = IDLE + 1
          \/ got = AckBits.fault /\ phase' = "end" /\ result'.st = "fault" /\ Left' = IDLE + 1
      BY <1>1, <1>5, ReadAckIs DEF Good
    <2>7. \A a, b \in Acks : AckBits[a] = AckBits[b] => a = b
      BY AckFacts
    <2>8. /\ got = AckBits.ok => chip.ack = "ok"
          /\ got = AckBits.wait => chip.ack = "wait"
          /\ got = AckBits.fault => chip.ack = "fault"
      BY <2>1, <2>7, AckFacts
    <2>9. op'.kind \in Kinds /\ op'.kind # "sequence" /\ op'.kind # "init"
      BY <1>2, KindsAre
    <2>10. CASE got = AckBits.ok /\ cur.rnw /\ phase' = "data" /\ Left' = W + 2
      <3>1. chip.ack = "ok" /\ ReadTail(chip) = W + 1
        BY <2>4, <2>8, <2>10
      <3>2. chip.st = "drive" /\ History(chip, op, Before(op, cur) + 1)
        BY <2>1, <2>4, <2>5, <3>1
      <3>3. Len(chip.send) = W + 1
        BY <2>3, <2>4, <3>1
      <3>4. Sending(chip, cur, W + 1)
        <4>1. ~cur.ap => \A i \in 1 .. W + 1 : chip.send[0 + i] = Coded(chip.did[1].word)[i]
          BY <2>1, <2>4, <3>1 DEF AnswerIs
        <4>2. \A i \in 1 .. W + 1 : 0 + i = i /\ W + 1 - (W + 1) + i = i
          BY <2>4
        <4>3. ~cur.ap => \A i \in 1 .. W + 1 : chip.send[i] = Coded(chip.did[1].word)[W + 1 - (W + 1) + i]
          BY <4>1, <4>2
        <4> QED
          BY <3>3, <4>3 DEF Sending
      <3>5. Near(got', Coded(chip.did[1].word), noisy)
        <4>1. chip.did[1].word \in Words
          <5>1. Before(op, cur) + 1 \in Nat \ {0}
            BY <2>2
          <5> QED
            BY <1>1, <3>2, <5>1, DidWord
        <4>2. Len(Coded(chip.did[1].word)) \in Nat
          BY <2>4, <4>1, CodedWord
        <4> QED
          BY <1>2, <4>2 DEF Near
      <3>6. Left' > 1 /\ Left' - 1 = W + 1 /\ Left' >= 1
        BY <2>4, <2>10
      <3>7. StepData'
        BY <1>2, <2>1, <2>3, <2>4, <2>10, <3>2, <3>4, <3>5, <3>6 DEF StepData
      <3>8. Lockstep'
        BY <2>10, <3>7, Zenon DEF Lockstep, StepIdle, StepSequence, StepAsk, StepAnswer, StepRead, StepWrite, StepFail
      <3> QED
        BY <1>2, <1>3, <3>8 DEF Inv
    <2>11. CASE got = AckBits.ok /\ ~cur.rnw /\ phase' = "end" /\ result'.st = "ok" /\ Left' = IDLE + W + 2
      <3>1. chip.ack = "ok" /\ ReadTail(chip) = 0
        BY <2>4, <2>8, <2>11
      <3>2. chip.st = "back" /\ History(chip, op, 0)
        BY <2>1, <2>2, <2>5, <2>11, <3>1
      <3>3. Left' > IDLE /\ ~(Left' < IDLE + W + 2) /\ ~(Left' <= IDLE) /\ ~(Left' < IDLE)
        BY <2>4, <2>11, LineOnes
      <3>4. StepWrite'
        BY <1>2, <2>1, <2>3, <2>11, <3>1, <3>2, <3>3 DEF StepWrite
      <3>5. Lockstep'
        BY <1>2, <2>9, <2>11, <3>4, Zenon DEF Lockstep, StepIdle, StepSequence, StepAsk, StepAnswer, StepData, StepRead, StepFail
      <3> QED
        BY <1>2, <1>3, <3>5 DEF Inv
    <2>12. CASE \/ got = AckBits.wait /\ phase' = "end" /\ result'.st = "wait" /\ Left' = IDLE + 1
                \/ got = AckBits.fault /\ phase' = "end" /\ result'.st = "fault" /\ Left' = IDLE + 1
      <3>1. chip.ack # "ok" /\ ReadTail(chip) = 0 /\ result'.st \in {"wait", "fault"} /\ result'.st # "ok"
        BY <2>4, <2>8, <2>12
      <3>2. Before(op, cur) + 0 = Before(op, cur)
        BY <2>2
      <3>3. chip.st = "back" /\ History(chip, op, Before(op, cur))
        BY <2>1, <2>5, <3>1, <3>2
      <3>4. Left' > IDLE /\ ~(Left' <= IDLE)
        BY <2>12, LineOnes
      <3>5. StepFail'
        BY <1>2, <2>1, <3>1, <3>3, <3>4 DEF StepFail
      <3>6. Lockstep'
        BY <2>9, <2>12, <3>1, <3>5, Zenon DEF Lockstep, StepIdle, StepSequence, StepAsk, StepAnswer, StepData, StepRead, StepWrite
      <3> QED
        BY <1>2, <1>3, <3>6 DEF Inv
    <2> QED
      BY <2>6, <2>10, <2>11, <2>12
  <1> QED
    BY <1>4, <1>5

LEMMA ReadDataKeeps ==
  ASSUME Inv, ReadData
  PROVE  Inv'
  <1>1. Host /\ ChipOK(chip) /\ Lockstep
    BY DEF Inv
  <1>2. /\ phase = "data" /\ Left = 0 /\ op.kind \in Kinds /\ cur.rnw /\ Len(got) = W + 1
        /\ UNCHANGED <<op, cur, chip, noisy, misled>> /\ Host'
        /\ trusted' = trusted
        /\ \/ /\ got[W + 1] = Parity(SubSeq(got, 1, W)) /\ phase' = "end"
              /\ result' = [st |-> "ok", word |-> SubSeq(got, 1, W)]
           \/ phase' = "idle" /\ result'.st = "parity"
        /\ op'.kind \notin {"init", "sequence"}
    BY <1>1, ReadDataIs, KindsAre
  <1>3. ChipOK(chip') /\ Settling'
    BY <1>1, <1>2 DEF Settling
  <1>4. CASE ~Good'
    BY <1>2, <1>3, <1>4 DEF Inv, Lockstep
  <1>5. CASE Good'
    <2>1. Good
      BY <1>2, <1>5 DEF Good, OneFlip
    <2>2. /\ History(chip, op, Before(op, cur) + 1) /\ chip.ones = 0 /\ chip.st = "idle"
          /\ ~cur.ap => Near(got, Coded(chip.did[1].word), noisy)
      <3>1. ~(Left > 1) /\ Left # 1
        BY <1>2
      <3> QED
        BY <1>1, <1>2, <2>1, <3>1 DEF Lockstep, StepData
    <2>3. Before(op, cur) + 1 \in Nat \ {0} /\ Before(op, cur) + 1 \in 0 .. 2
      BY <1>1, <1>2, InTransfer
    <2>4. CASE /\ got[W + 1] = Parity(SubSeq(got, 1, W)) /\ phase' = "end"
               /\ result' = [st |-> "ok", word |-> SubSeq(got, 1, W)]
      <3>1. chip.did[1].word \in Words
        BY <1>1, <2>2, <2>3, DidWord
      <3>2. got \in Seq(Bit)
        BY <1>1 DEF Host, HostType
      <3>3. ~cur.ap => SubSeq(got, 1, W) = chip.did[1].word
        BY <1>2, <2>4, <2>2, <3>1, <3>2, NearWord
      <3>4. ~cur.ap => result'.word = chip.did[1].word
        BY <2>4, <3>3
      <3>5. StepRead'
        BY <1>2, <2>4, <2>2, <3>4 DEF StepRead, Synced
      <3>6. Lockstep'
        BY <1>2, <2>4, <3>5, Zenon DEF Lockstep, StepIdle, StepSequence, StepAsk, StepAnswer, StepData, StepWrite, StepFail
      <3> QED
        BY <1>2, <1>3, <3>6 DEF Inv
    <2>5. CASE phase' = "idle" /\ result'.st = "parity"
      <3>1. StepIdle'
        <4>1. Synced(chip) /\ \E n \in 0 .. 2 : History(chip, op, n)
          BY <2>2, <2>3 DEF Synced
        <4> QED
          BY <1>2, <2>5, <4>1 DEF StepIdle, Outcome
      <3>2. Lockstep'
        BY <2>5, <3>1, Zenon DEF Lockstep, StepSequence, StepAsk, StepAnswer, StepData, StepRead, StepWrite, StepFail
      <3> QED
        BY <1>2, <1>3, <3>2 DEF Inv
    <2> QED
      BY <1>2, <2>4, <2>5
  <1> QED
    BY <1>4, <1>5

\* init() has brought the chip to the start of a request.
LEMMA InitSettles ==
  ASSUME Settling, phase = "end", op.kind = "init", OneFlip, Left = 0
  PROVE  Synced(chip)
  <1>1. SettlingAt(chip, InitLength - 0, noisy)
    BY DEF Settling
  <1>2. /\ InitLength - 0 = InitLength /\ InitLength \in Nat
        /\ InitLength > LINE_ONES + 16 + LINE_ONES /\ InitLength - (LINE_ONES + 16 + LINE_ONES) = IDLE
    BY LineOnes DEF InitLength
  <1>3. Settled(chip, IDLE)
    BY <1>1, <1>2, SettlingParts
  <1> QED
    BY <1>3, SettledEnough DEF Synced

\* What the last operation returned, and what the chip has done for it.
LEMMA EndsWell ==
  ASSUME Host, Lockstep, Good, phase = "end", Left = 0, op.kind \in Kinds,
         ~(op.kind = "read_ap" /\ cur.ap /\ result.st = "ok")
  PROVE  Synced(chip) /\ Outcome
  <1>1. /\ op \in Accesses
        /\ cur.rnw <=> TransferOf(op).rnw
        /\ op.kind = "read_ap" /\ ~cur.ap => Before(op, cur) = 1
        /\ op.kind # "read_ap" => Before(op, cur) = 0 /\ cur = TransferOf(op)
        /\ Before(op, cur) \in 0 .. 1
    BY InTransfer
  <1>2. 0 < IDLE /\ 0 <= IDLE
    BY LineOnes
  <1>3. CASE result.st = "ok" /\ cur.rnw
    <2>1. Synced(chip) /\ History(chip, op, Before(op, cur) + 1) /\ (~cur.ap => result.word = chip.did[1].word)
      BY <1>3 DEF Lockstep, StepRead
    <2>2. ~cur.ap
      <3>1. CASE op.kind = "read_ap"
        BY <1>3, <3>1
      <3>2. CASE op.kind # "read_ap"
        <4>1. op.kind = "read_dp"
          BY <1>1, <1>3, <3>2, KindOfTransfer
        <4> QED
          BY <1>1, <3>2, <4>1, KindOfTransfer
      <3> QED
        BY <3>1, <3>2
    <2>3. Before(op, cur) + 1 = IF op.kind = "read_ap" THEN 2 ELSE 1
      BY <1>1, <2>2
    <2>4. (IF op.kind = "read_ap" THEN 2 ELSE 1) \in 0 .. 2
      OBVIOUS
    <2> QED
      BY <1>3, <2>1, <2>2, <2>3, <2>4 DEF Outcome
  <1>4. CASE result.st = "ok" /\ ~cur.rnw
    <2>1. chip.st = "idle" /\ chip.ones = 0 /\ \E n \in 0 .. 1 : History(chip, op, n)
      BY <1>2, <1>4 DEF Lockstep, StepWrite
    <2>2. \E n \in 0 .. 2 : History(chip, op, n)
      BY <2>1
    <2> QED
      BY <1>1, <1>4, <2>1, <2>2 DEF Outcome, Synced
  <1>5. CASE result.st # "ok"
    <2>1. Synced(chip) /\ History(chip, op, Before(op, cur))
      BY <1>2, <1>5 DEF Lockstep, StepFail
    <2>2. Before(op, cur) \in 0 .. 2
      BY <1>1
    <2> QED
      BY <1>5, <2>1, <2>2 DEF Outcome
  <1> QED
    BY <1>3, <1>4, <1>5

LEMMA EndOpKeeps ==
  ASSUME Inv, EndOp
  PROVE  Inv'
  <1>1. Host /\ ChipOK(chip) /\ Settling /\ Lockstep
    BY DEF Inv
  <1>2. /\ Host' /\ phase = "end" /\ Left = 0 /\ phase' = "idle"
        /\ ~(op.kind = "read_ap" /\ cur.ap /\ result.st = "ok")
        /\ trusted' = (trusted \/ op.kind = "init")
        /\ UNCHANGED <<op, cur, result, chip, noisy, misled>>
    BY <1>1, HostEndOp
  <1>3. ChipOK(chip') /\ Settling'
    BY <1>1, <1>2 DEF Settling
  <1>4. Good' => OneFlip /\ (op.kind # "init" => Good)
    BY <1>2 DEF Good, OneFlip
  <1>5. Good' => StepIdle'
    <2> SUFFICES ASSUME Good' PROVE Synced(chip) /\ (op.kind \in Kinds => Outcome)
      BY <1>2 DEF StepIdle, Outcome, Before
    <2>1. CASE op.kind = "init"
      BY <1>1, <1>2, <1>4, <2>1, InitSettles, KindsAre
    <2>2. CASE op.kind = "sequence"
      BY <1>1, <1>2, <1>4, <2>2, KindsAre DEF Lockstep, StepSequence
    <2>3. CASE op.kind = "pins"
      BY <1>1, <1>2, <2>3 DEF Host, HostOp
    <2>4. CASE op.kind \in Kinds
      BY <1>1, <1>2, <1>4, <2>4, EndsWell, KindsAre
    <2>5. op.kind \in Kinds \cup {"init", "sequence", "pins"}
      BY <1>1 DEF Host, HostType
    <2> QED
      BY <2>1, <2>2, <2>3, <2>4, <2>5
  <1>6. Lockstep'
    BY <1>2, <1>5, Zenon DEF Lockstep, StepSequence, StepAsk, StepAnswer, StepData, StepRead, StepWrite, StepFail
  <1> QED
    BY <1>2, <1>3, <1>6 DEF Inv

LEMMA ChipRestartsKeeps ==
  ASSUME Inv, ChipRestarts
  PROVE  Inv'
  <1>1. /\ phase' = "idle" /\ chip' = NewChip("jtag") /\ trusted' = FALSE
        /\ UNCHANGED <<host, noisy, misled>>
    BY DEF ChipRestarts, faults, host
  <1>2. noisy' \in Nat /\ misled' \in BOOLEAN
    BY <1>1 DEF Inv, Host, HostType
  <1>3. Host'
    BY <1>1, <1>2, HostKept DEF Inv
  <1>4. ChipOK(chip')
    BY <1>1, NewChipOK
  <1> QED
    BY <1>1, <1>3, <1>4 DEF Inv, Settling, Lockstep, Good

LEMMA NothingKeeps ==
  ASSUME Inv, UNCHANGED vars
  PROVE  Inv'
  <1>1. UNCHANGED <<host, chip, noisy, misled, trusted>> /\ UNCHANGED <<todo, got, phase, op, cur, result>>
    BY DEF vars, faults, host
  <1>2. Host'
    <2>1. noisy' \in Nat /\ misled' \in BOOLEAN /\ trusted' \in BOOLEAN /\ (trusted' => trusted)
      BY <1>1 DEF Inv, Host, HostType
    <2> QED
      BY <1>1, <2>1, HostKept DEF Inv
  <1>3. ChipOK(chip') /\ Settling'
    BY <1>1 DEF Inv, Settling, OneFlip, Left, InitLength
  <1>4. Good' = Good /\ Outcome' = Outcome /\ Garbled' = Garbled /\ Answering' = Answering /\ Left' = Left
    BY <1>1 DEF Good, OneFlip, Outcome, Garbled, Answering, Performed, Left
  <1>5. Lockstep'
    BY <1>1, <1>4 DEF Inv, Lockstep, StepIdle, StepSequence, StepAsk, StepAnswer, StepData, StepRead, StepWrite, StepFail
  <1> QED
    BY <1>2, <1>3, <1>5 DEF Inv

-----------------------------------------------------------------------------
\* What the chip and the firmware sample in a cycle.
Seen(flip) == (Line(todo[1]) + flip) % 2

\* What a cycle does while the two ends are in lockstep.
LEMMA GoodCycle ==
  ASSUME Inv, NEW flip \in Bit, Cycle(flip), Good'
  PROVE  /\ Good /\ Host /\ Host' /\ HostType /\ ChipOK(chip) /\ ChipOK(chip')
         /\ Lockstep
         /\ noisy \in Bit /\ noisy + flip <= 1 /\ noisy' = noisy + flip /\ noisy' \in Bit
         /\ chip.st \in Waiting => flip = 0
         /\ Left \in Nat \ {0} /\ Left' = Left - 1 /\ todo[1] \in Cycles
         /\ Seen(flip) \in Bit /\ chip' \in Edge(chip, Seen(flip))
         /\ todo[1].do = "read" => got' = Append(got, Seen(flip))
         /\ todo[1].do # "read" => got' = got
         /\ got \in Seq(Bit) /\ Len(got) \in Nat
         /\ UNCHANGED <<phase, op, cur, result>>
  <1>1. Host /\ HostType /\ ChipOK(chip) /\ Lockstep /\ Host'
    BY HostCycle DEF Inv, Host
  <1>2. OneFlip' /\ trusted'
    BY DEF Good
  <1>3. OneFlip /\ noisy \in Bit /\ noisy + flip <= 1 /\ noisy' = noisy + flip /\ noisy' \in Bit
        /\ (chip.st \in Waiting => flip = 0) /\ trusted' = trusted
    BY <1>1, <1>2, OneFlipCycle
  <1>4. /\ Left \in Nat \ {0} /\ Left' = Left - 1 /\ todo[1] \in Cycles
        /\ Seen(flip) \in Bit /\ chip' \in Edge(chip, Seen(flip)) /\ ChipOK(chip')
        /\ got' = (IF todo[1].do = "read" THEN Append(got, Seen(flip)) ELSE got)
        /\ Len(got) \in Nat
        /\ UNCHANGED <<phase, op, cur, result>>
    BY <1>1, CycleIs DEF Seen
  <1>5. got \in Seq(Bit)
    BY <1>1 DEF HostType
  <1>6. Good
    BY <1>2, <1>3 DEF Good
  <1> QED
    BY <1>1, <1>3, <1>4, <1>5, <1>6

\* What is sampled when the firmware writes, and when nobody drives the line.
LEMMA SeenIs ==
  ASSUME HostType, ChipOK(chip), todo[1] \in Cycles, NEW flip \in Bit
  PROVE  /\ ~Drives(chip) /\ todo[1].do = "write" /\ driving => Seen(flip) = (todo[1].bit + flip) % 2
         /\ ~Drives(chip) /\ todo[1].do = "read" /\ ~driving => Seen(flip) = (1 + flip) % 2
         /\ ~Drives(chip) /\ todo[1].do = "turn" => Seen(flip) = (1 + flip) % 2
         /\ Drives(chip) => Seen(flip) = (chip.send[1] + flip) % 2
  BY OnTheLine DEF Seen

\* An idle cycle before or behind a transfer.
LEMMA ZeroSeen ==
  ASSUME Inv, NEW flip \in Bit, Cycle(flip), Good', chip.st = "idle", todo[1] = Out(0), driving
  PROVE  Synced(chip') /\ Same(chip, chip')
  <1>1. /\ HostType /\ ChipOK(chip) /\ todo[1] \in Cycles /\ (chip.st \in Waiting => flip = 0)
        /\ chip' \in Edge(chip, Seen(flip))
    BY GoodCycle
  <1>2. flip = 0 /\ ~Drives(chip)
    BY <1>1 DEF Waiting, Drives
  <1>3. todo[1].do = "write" /\ todo[1].bit = 0
    BY CycleKinds
  <1>4. Seen(flip) = (0 + 0) % 2
    BY <1>1, <1>2, <1>3, SeenIs
  <1>5. chip' \in Edge(chip, 0)
    BY <1>1, <1>4
  <1> QED
    BY <1>1, <1>5, IdleKept

LEMMA SameHistory ==
  ASSUME NEW o, NEW n, History(chip, o, n), Same(chip, chip')
  PROVE  History(chip', o, n)
  BY HistoryKept DEF Same

LEMMA SequenceCycle ==
  ASSUME Inv, NEW flip \in Bit, Cycle(flip), Good'
  PROVE  StepSequence'
  <1> SUFFICES ASSUME phase' = "end", op'.kind = "sequence"
               PROVE  Synced(chip') /\ \A i \in 1 .. Left' : todo'[i] = Out(0)
    BY DEF StepSequence
  <1>1. /\ Good /\ HostType /\ ChipOK(chip) /\ Lockstep /\ Host /\ phase = "end" /\ op.kind = "sequence"
        /\ Left \in Nat \ {0} /\ Left' = Left - 1
    BY GoodCycle
  <1>2. Synced(chip) /\ \A i \in 1 .. Left : todo[i] = Out(0)
    BY <1>1 DEF Lockstep, StepSequence
  <1>3. driving
    BY <1>1 DEF Host, HostSequence
  <1>4. todo[1] = Out(0)
    BY <1>1, <1>2
  <1>5. Synced(chip')
    BY <1>2, <1>3, <1>4, ZeroSeen DEF Synced
  <1>6. \A i \in 1 .. Left' : i + 1 \in 1 .. Left /\ todo'[i] = todo[i + 1]
    BY <1>1, CycleIs
  <1> QED
    BY <1>2, <1>5, <1>6

LEMMA AskCycle ==
  ASSUME Inv, NEW flip \in Bit, Cycle(flip), Good'
  PROVE  StepAsk'
  <1> SUFFICES ASSUME phase' = "ack", Left' > 4
               PROVE  Hearing(chip', cur', 12 - Left', noisy') /\ History(chip', op', Before(op', cur'))
    BY DEF StepAsk
  <1> DEFINE k == 12 - Left
  <1>1. /\ Good /\ Host /\ HostType /\ ChipOK(chip) /\ Lockstep
        /\ noisy \in Bit /\ noisy + flip <= 1 /\ noisy' = noisy + flip
        /\ chip.st \in Waiting => flip = 0
        /\ Left \in Nat \ {0} /\ Left' = Left - 1 /\ todo[1] \in Cycles
        /\ Seen(flip) \in Bit /\ chip' \in Edge(chip, Seen(flip))
        /\ phase = "ack" /\ op' = op /\ cur' = cur
    BY GoodCycle
  <1>2. /\ Left <= 12 /\ todo[1] = AckTo(cur, Left) /\ (driving <=> Left > 3)
    <2>1. 1 \in 1 .. Left /\ Left + 1 - 1 = Left
      BY <1>1
    <2> QED
      BY <1>1, <2>1 DEF Host, HostAck
  <1>3. /\ k \in 0 .. 6 /\ Left > 5 /\ 13 - Left = k + 1 /\ 12 - Left' = k + 1 /\ Left > 4
        /\ Left > 3 /\ ~(Left <= 3) /\ Left # 4
    BY <1>1, <1>2
  <1>4. driving
    BY <1>2, <1>3, Zenon
  <1>5. todo[1] = Out(Request(cur)[k + 1])
    <2>1. todo[1] = Out(Request(cur)[13 - Left])
      BY <1>2, <1>3, Zenon DEF AckTo
    <2> QED
      BY <1>3, <2>1
  <1>6. Hearing(chip, cur, k, noisy) /\ History(chip, op, Before(op, cur))
    BY <1>1, <1>3 DEF Lockstep, StepAsk
  <1>7. ~Drives(chip)
    BY <1>6 DEF Hearing, Synced, Drives
  <1>8. todo[1].do = "write" /\ todo[1].bit = Request(cur)[k + 1]
    BY <1>5, CycleKinds
  <1>9. Seen(flip) = (Request(cur)[k + 1] + flip) % 2
    BY <1>1, <1>4, <1>7, <1>8, SeenIs
  <1>10. cur \in Transfers /\ (chip.st = "idle" => flip = 0)
    BY <1>1 DEF HostType, Waiting
  <1> HIDE DEF k
  <1>11. Hearing(chip', cur, k + 1, noisy + flip) /\ Same(chip, chip')
    BY <1>1, <1>3, <1>6, <1>9, <1>10, Hear
  <1>12. Hearing(chip', cur', 12 - Left', noisy')
    BY <1>1, <1>3, <1>11
  <1> QED
    BY <1>1, <1>6, <1>11, <1>12, SameHistory

LEMMA ReadCycle ==
  ASSUME Inv, NEW flip \in Bit, Cycle(flip), Good'
  PROVE  StepRead'
  <1> SUFFICES ASSUME phase' = "end", op'.kind \in Kinds, result'.st = "ok", cur'.rnw
               PROVE  /\ Synced(chip') /\ History(chip', op', Before(op', cur') + 1)
                      /\ ~cur'.ap => result'.word = chip'.did[1].word
    BY DEF StepRead, Kinds
  <1>1. /\ Good /\ Host /\ Lockstep /\ Left \in Nat \ {0}
        /\ phase = "end" /\ op' = op /\ cur' = cur /\ result' = result
        /\ op.kind \in Kinds /\ result.st = "ok" /\ cur.rnw
    BY GoodCycle
  <1>2. driving /\ todo[1] = Out(0)
    BY <1>1 DEF Host, HostRead
  <1>3. /\ Synced(chip) /\ History(chip, op, Before(op, cur) + 1)
        /\ ~cur.ap => result.word = chip.did[1].word
    BY <1>1 DEF Lockstep, StepRead
  <1>4. Synced(chip') /\ Same(chip, chip')
    BY <1>2, <1>3, ZeroSeen DEF Synced
  <1> QED
    BY <1>1, <1>3, <1>4, SameHistory DEF Same

LEMMA FailCycle ==
  ASSUME Inv, NEW flip \in Bit, Cycle(flip), Good'
  PROVE  StepFail'
  <1> SUFFICES ASSUME phase' = "end", op'.kind \in Kinds, result'.st # "ok"
               PROVE  /\ result'.st \in {"wait", "fault"} /\ History(chip', op', Before(op', cur'))
                      /\ Left' > IDLE => chip'.st = "back" /\ chip'.ack # "ok" /\ chip'.ones = 0
                      /\ Left' <= IDLE => Synced(chip')
    BY DEF StepFail, Kinds
  <1>1. /\ Good /\ Host /\ Lockstep /\ ChipOK(chip) /\ Left \in Nat \ {0} /\ Left' = Left - 1
        /\ phase = "end" /\ op' = op /\ cur' = cur /\ result' = result
        /\ Seen(flip) \in Bit /\ chip' \in Edge(chip, Seen(flip))
        /\ op.kind \in Kinds /\ result.st # "ok"
    BY GoodCycle
  <1>2. Left <= IDLE + 1 /\ (driving <=> Left <= IDLE) /\ todo[1] = FailTo(Left)
    <2>1. 1 \in 1 .. Left /\ Left + 1 - 1 = Left
      BY <1>1
    <2> QED
      BY <1>1, <2>1 DEF Host, HostFail
  <1>3. /\ result.st \in {"wait", "fault"} /\ History(chip, op, Before(op, cur))
        /\ Left > IDLE => chip.st = "back" /\ chip.ack # "ok" /\ chip.ones = 0
        /\ Left <= IDLE => Synced(chip)
    BY <1>1 DEF Lockstep, StepFail
  <1>4. ~(Left' > IDLE)
    BY <1>1, <1>2, LineOnes
  <1>5. CASE Left > IDLE
    <2>1. chip.st = "back" /\ chip.ack # "ok" /\ chip.ones = 0
      BY <1>3, <1>5
    <2>2. chip'.st = "idle" /\ chip'.ones = 0 /\ Same(chip, chip')
      BY <1>1, <2>1, TakenBack
    <2> QED
      BY <1>1, <1>3, <1>4, <2>2, SameHistory DEF Synced
  <1>6. CASE Left <= IDLE
    <2>1. Left # IDLE + 1
      BY <1>6, LineOnes
    <2>2. todo[1] = Out(0)
      BY <1>2, <2>1 DEF FailTo
    <2>3. Synced(chip') /\ Same(chip, chip')
      BY <1>2, <1>3, <1>6, <2>2, ZeroSeen DEF Synced
    <2> QED
      BY <1>1, <1>3, <1>4, <2>3, SameHistory
  <1> QED
    BY <1>1, <1>5, <1>6, LineOnes

\* Nothing was taken yet.
LEMMA NearNothing ==
  ASSUME NEW s, Len(s) = 0, NEW t \in Seq(Bit), NEW m
  PROVE  Near(s, t, m)
  BY DEF Near

\* A flip elsewhere.
LEMMA NearMore ==
  ASSUME NEW s, NEW t, NEW m \in Bit, Near(s, t, m), NEW flip \in Bit, NEW n, n = m + flip
  PROVE  Near(s, t, n)
  <1>1. n = 0 => m = 0
    BY DEF Bit
  <1> QED
    BY <1>1 DEF Near

\* A bit more of what is taken for t, by another name.
LEMMA NearNext ==
  ASSUME NEW s \in Seq(Bit), NEW t \in Seq(Bit), NEW m \in Bit, NEW flip \in Bit, m + flip <= 1,
         Near(s, t, m), NEW i, i = Len(s) + 1, Len(s) < Len(t), NEW b, b = (t[i] + flip) % 2,
         NEW r, r = Append(s, b), NEW n, n = m + flip
  PROVE  Near(r, t, n)
  BY NearGrows

\* What the chip has performed stays.
LEMMA PerformedKept ==
  ASSUME Performed, Same(chip, chip'), UNCHANGED <<op, cur>>
  PROVE  Performed' /\ ReadTail(chip') = ReadTail(chip)
  <1>1. ReadTail(chip') = ReadTail(chip)
    BY Zenon DEF Same, ReadTail
  <1>2. History(chip', op, Before(op, cur) + (IF ReadTail(chip) = 0 THEN 0 ELSE 1))
    BY SameHistory DEF Performed
  <1> QED
    BY <1>1, <1>2 DEF Performed

\* The chip did not understand the request: nobody answers.
LEMMA GarbledCycle ==
  ASSUME Inv, NEW flip \in Bit, Cycle(flip), Good', phase = "ack", Left <= 4, Garbled
  PROVE  Garbled'
  <1>1. /\ Good /\ Host /\ Host' /\ HostType /\ ChipOK(chip)
        /\ chip.st \in Waiting => flip = 0
        /\ Left \in Nat \ {0} /\ Left' = Left - 1 /\ todo[1] \in Cycles
        /\ Seen(flip) \in Bit /\ chip' \in Edge(chip, Seen(flip))
        /\ todo[1].do = "read" => got' = Append(got, Seen(flip))
        /\ todo[1].do # "read" => got' = got
        /\ got \in Seq(Bit)
        /\ phase' = phase /\ op' = op /\ cur' = cur
    BY GoodCycle
  <1>2. /\ chip.st = "lost" /\ chip.ones + Left <= 12 /\ History(chip, op, Before(op, cur))
        /\ \A i \in 1 .. Len(got) : got[i] = 1
    BY DEF Garbled
  <1>3. flip = 0 /\ ~Drives(chip)
    BY <1>1, <1>2 DEF Waiting, Drives
  <1>4. todo[1] = AckTo(cur, Left) /\ (driving <=> Left > 3)
    <2>1. 1 \in 1 .. Left /\ Left + 1 - 1 = Left
      BY <1>1
    <2> QED
      BY <1>1, <2>1 DEF Host, HostAck
  <1>5. (todo[1].do = "turn" \/ (todo[1].do = "read" /\ ~driving))
    <2>1. CASE Left = 4
      <3>1. ~(Left <= 3)
        BY <2>1
      <3> QED
        BY <1>4, <2>1, <3>1, CycleKinds DEF AckTo
    <2>2. CASE Left <= 3
      <3>1. ~(Left > 3)
        BY <1>1, <2>2
      <3>2. ~driving
        BY <1>4, <3>1, Zenon
      <3> QED
        BY <1>4, <2>2, <3>2, CycleKinds DEF AckTo
    <2> QED
      BY <1>1, <2>1, <2>2
  <1>6. Seen(flip) = 1
    <2>1. Seen(flip) = (1 + flip) % 2
      BY <1>1, <1>3, <1>5, SeenIs
    <2> QED
      BY <1>3, <2>1
  <1>7. chip.ones \in Nat
    BY <1>1, ChipFields DEF ChipOK
  <1>8. chip'.st = "lost" /\ chip'.ones <= chip.ones + 1 /\ Same(chip, chip')
    BY <1>1, <1>2, <1>6, <1>7, LostKept
  <1>9. chip'.ones \in Nat
    <2>1. ChipOK(chip')
      BY GoodCycle
    <2> QED
      BY <2>1, ChipFields DEF ChipOK
  <1>10. chip'.ones + Left' <= 12
    BY <1>1, <1>2, <1>7, <1>8, <1>9
  <1>11. \A i \in 1 .. Len(got') : got'[i] = 1
    <2>1. CASE todo[1].do = "read"
      <3>1. got' = Append(got, 1) /\ 1 \in Bit
        BY <1>1, <1>6, <2>1 DEF Bit
      <3> QED
        BY <1>1, <1>2, <3>1, Appended
    <2>2. CASE todo[1].do # "read"
      BY <1>1, <1>2, <2>2
    <2> QED
      BY <2>1, <2>2
  <1>12. History(chip', op, Before(op, cur))
    BY <1>2, <1>8, SameHistory
  <1> QED
    BY <1>1, <1>8, <1>10, <1>11, <1>12 DEF Garbled

\* The request has been heard to its end.
LEMMA HeardCycle ==
  ASSUME Inv, NEW flip \in Bit, Cycle(flip), Good', phase = "ack", Left = 5
  PROVE  Garbled' \/ Answering'
  <1>1. /\ Good /\ Host /\ Host' /\ HostType /\ ChipOK(chip) /\ Lockstep
        /\ noisy \in Bit /\ noisy + flip <= 1 /\ noisy' = noisy + flip
        /\ Left' = 4 /\ todo[1] \in Cycles
        /\ chip' \in Edge(chip, Seen(flip))
        /\ phase' = "ack" /\ op' = op /\ cur' = cur
    BY GoodCycle
  <1>2. todo[1] = AckTo(cur, 5) /\ driving
    <2>1. 1 \in 1 .. Left /\ Left + 1 - 1 = 5 /\ Left > 3
      OBVIOUS
    <2>2. todo[1] = AckTo(cur, Left + 1 - 1) /\ (driving <=> Left > 3)
      BY <1>1, <2>1 DEF Host, HostAck
    <2> QED
      BY <2>1, <2>2
  <1>3. Hearing(chip, cur, 7, noisy) /\ History(chip, op, Before(op, cur))
    <2>1. Left > 4 /\ 12 - Left = 7
      OBVIOUS
    <2> QED
      BY <1>1, <2>1 DEF Lockstep, StepAsk
  <1>4. todo[1] = Out(Request(cur)[8])
    <2>1. ~(5 <= 3) /\ 5 # 4 /\ 13 - 5 = 8
      OBVIOUS
    <2> QED
      BY <1>2, <2>1 DEF AckTo
  <1>5. ~Drives(chip)
    BY <1>3 DEF Hearing, Drives
  <1>6. Seen(flip) = (Request(cur)[8] + flip) % 2
    BY <1>1, <1>2, <1>4, <1>5, SeenIs, CycleKinds
  <1>7. op \in Accesses /\ cur \in Transfers /\ IsTransferOf(op, cur)
    BY <1>1, InTransfer DEF Host, HostAck
  <1>8. \/ chip'.st = "lost" /\ noisy + flip = 1 /\ chip'.ones <= 8 /\ Same(chip, chip')
        \/ IsAnswer(chip, chip', AccessOf(cur))
    BY <1>1, <1>3, <1>6, <1>7, HearAll
  <1>9. CASE chip'.st = "lost" /\ chip'.ones <= 8 /\ Same(chip, chip')
    <2>1. Len(got') = 0
      BY <1>1 DEF Host, HostAck
    <2>2. History(chip', op, Before(op, cur))
      BY <1>3, <1>9, SameHistory
    <2>3. chip'.ones \in Nat
      <3>1. ChipOK(chip')
        BY GoodCycle
      <3> QED
        BY <3>1, ChipFields DEF ChipOK
    <2>4. chip'.ones + Left' <= 12 /\ \A i \in 1 .. Len(got') : got'[i] = 1
      BY <1>1, <1>9, <2>1, <2>3
    <2> QED
      BY <1>1, <1>9, <2>2, <2>4 DEF Garbled
  <1>10. CASE IsAnswer(chip, chip', AccessOf(cur))
    <2>1. /\ AnswerIs(chip', cur, 3) /\ chip'.st = "turn"
          /\ History(chip', op, Before(op, cur) + (IF ReadTail(chip') = 0 THEN 0 ELSE 1))
      BY <1>1, <1>3, <1>7, <1>10, AnswerDone
    <2>2. Performed'
      BY <1>1, <2>1 DEF Performed
    <2>3. ~(Left' < 4) /\ Left' = 4
      BY <1>1
    <2> QED
      BY <1>1, <2>1, <2>2, <2>3 DEF Answering
  <1> QED
    BY <1>8, <1>9, <1>10

\* The answer, behind the request.
LEMMA AnsweringCycle ==
  ASSUME Inv, NEW flip \in Bit, Cycle(flip), Good', phase = "ack", Left <= 4, Answering
  PROVE  Answering'
  <1>1. /\ Good /\ Host /\ Host' /\ HostType /\ ChipOK(chip)
        /\ noisy \in Bit /\ noisy + flip <= 1 /\ noisy' = noisy + flip
        /\ Left \in Nat \ {0} /\ Left' = Left - 1 /\ todo[1] \in Cycles
        /\ Seen(flip) \in Bit /\ chip' \in Edge(chip, Seen(flip))
        /\ todo[1].do = "read" => got' = Append(got, Seen(flip))
        /\ got \in Seq(Bit) /\ Len(got) \in Nat
        /\ phase' = "ack" /\ op' = op /\ cur' = cur
    BY GoodCycle
  <1>2. chip.ack \in Acks
    BY <1>1, ChipFields DEF ChipOK
  <1>3. AckBits[chip.ack] \in Seq(Bit) /\ Len(AckBits[chip.ack]) = 3
    BY <1>2, AckFacts
  <1>4. Performed
    BY DEF Answering
  <1>5. Left' < 4 /\ Left' # 4
    BY <1>1
  <1>6. SUFFICES /\ Same(chip, chip')
                 /\ chip'.st = (IF Left' = 0 /\ ReadTail(chip') = 0 THEN "back" ELSE "drive")
                 /\ chip'.ones = 0 /\ AnswerIs(chip', cur, Left')
                 /\ Near(got', AckBits[chip.ack], noisy')
    <2>1. Same(chip, chip') => Performed' /\ chip'.ack = chip.ack
      BY <1>1, <1>4, PerformedKept DEF Same
    <2> QED
      BY <1>1, <1>5, <2>1, Zenon DEF Answering
  <1>7. CASE Left = 4
    <2>1. chip.st = "turn" /\ AnswerIs(chip, cur, 3)
      BY <1>7 DEF Answering
    <2>2. AnswerIs(chip', cur, 3) /\ chip'.st = "drive" /\ chip'.ones = 0 /\ Same(chip, chip')
      BY <1>1, <2>1, HandedOver
    <2>3. Left' = 3 /\ Left' # 0
      BY <1>1, <1>7
    <2>4. Len(got') = 0
      BY <1>1, <2>3 DEF Host, HostAck
    <2>5. Near(got', AckBits[chip.ack], noisy')
      BY <1>3, <2>4, NearNothing
    <2> QED
      BY <2>2, <2>3, <2>5
  <1>8. CASE Left <= 3
    <2>1. Left < 4 /\ Left # 0 /\ Left \in 1 .. 3 /\ 4 - Left = 3 - Left + 1 /\ Left' = Left - 1 /\ ~(Left > 3)
      BY <1>1, <1>8
    <2>2. /\ chip.st = "drive" /\ chip.ones = 0 /\ AnswerIs(chip, cur, Left)
          /\ Near(got, AckBits[chip.ack], noisy)
      BY <2>1, Zenon DEF Answering
    <2>3. todo[1] = In /\ Len(got) = 3 - Left
      <3>1. 1 \in 1 .. Left /\ Left + 1 - 1 = Left
        BY <1>1
      <3>2. todo[1] = AckTo(cur, Left) /\ Len(got) = IF Left < 3 THEN 3 - Left ELSE 0
        BY <1>1, <3>1 DEF Host, HostAck
      <3> QED
        BY <1>8, <2>1, <3>2 DEF AckTo
    <2>4. /\ chip.send[1] = AckBits[chip.ack][4 - Left]
          /\ AnswerIs(chip', cur, Left - 1) /\ chip'.ones = chip.ones /\ Same(chip, chip')
          /\ chip'.st = IF Left = 1 /\ ReadTail(chip') = 0 THEN "back" ELSE "drive"
      BY <1>1, <2>1, <2>2, AckBit
    <2>5. Seen(flip) = (AckBits[chip.ack][4 - Left] + flip) % 2
      BY <1>1, <2>2, <2>4, SeenIs DEF Drives
    <2>6. got' = Append(got, Seen(flip))
      BY <1>1, <2>3, CycleKinds
    <2> DEFINE ack == AckBits[chip.ack]
               i == 4 - Left
               b == Seen(flip)
    <2>7. ack \in Seq(Bit) /\ Near(got, ack, noisy) /\ b = (ack[i] + flip) % 2 /\ got' = Append(got, b)
          /\ i = Len(got) + 1 /\ Len(got) < Len(ack)
      BY <1>3, <2>1, <2>2, <2>3, <2>5, <2>6
    <2> HIDE DEF ack, i, b
    <2>8. Near(got', ack, noisy')
      BY <1>1, <2>7, NearNext
    <2>9. Left' = 0 <=> Left = 1
      BY <2>1
    <2> QED
      BY <2>1, <2>2, <2>4, <2>8, <2>9 DEF ack
  <1> QED
    BY <1>1, <1>7, <1>8

LEMMA AnswerCycle ==
  ASSUME Inv, NEW flip \in Bit, Cycle(flip), Good'
  PROVE  StepAnswer'
  <1> SUFFICES ASSUME phase' = "ack", Left' <= 4 PROVE Garbled' \/ Answering'
    BY DEF StepAnswer
  <1>1. Good /\ Lockstep /\ phase = "ack" /\ Left \in Nat \ {0} /\ Left' = Left - 1
    BY GoodCycle
  <1>2. CASE Left = 5
    BY <1>1, <1>2, HeardCycle
  <1>3. CASE Left <= 4
    <2>1. Garbled \/ Answering
      BY <1>1, <1>3 DEF Lockstep, StepAnswer
    <2> QED
      BY <1>1, <1>3, <2>1, GarbledCycle, AnsweringCycle
  <1> QED
    BY <1>1, <1>2, <1>3

\* A word that is read.
LEMMA DataCycle ==
  ASSUME Inv, NEW flip \in Bit, Cycle(flip), Good'
  PROVE  StepData'
  <1> SUFFICES ASSUME phase' = "data"
               PROVE  /\ History(chip', op', Before(op', cur') + 1) /\ chip'.ones = 0
                      /\ chip'.st = IF Left' > 1 THEN "drive" ELSE IF Left' = 1 THEN "back" ELSE "idle"
                      /\ Left' >= 1 => Sending(chip', cur', Left' - 1) /\ chip'.access.rnw
                      /\ ~cur'.ap => Near(got', Coded(chip'.did[1].word), noisy')
    BY DEF StepData
  <1>1. /\ Good /\ Host /\ HostType /\ ChipOK(chip) /\ Lockstep
        /\ noisy \in Bit /\ noisy + flip <= 1 /\ noisy' = noisy + flip
        /\ Left \in Nat \ {0} /\ Left' = Left - 1 /\ todo[1] \in Cycles
        /\ Seen(flip) \in Bit /\ chip' \in Edge(chip, Seen(flip))
        /\ todo[1].do = "read" => got' = Append(got, Seen(flip))
        /\ todo[1].do # "read" => got' = got
        /\ got \in Seq(Bit) /\ Len(got) \in Nat
        /\ phase = "data" /\ op' = op /\ cur' = cur
    BY GoodCycle
  <1>2. /\ todo[1] = DataTo(Left) /\ Left <= W + 2 /\ op.kind \in Kinds
        /\ Len(got) = W + 2 - Left
    <2>1. 1 \in 1 .. Left /\ Left + 1 - 1 = Left /\ Left # 0
      BY <1>1
    <2> QED
      BY <1>1, <2>1 DEF Host, HostData
  <1>3. /\ History(chip, op, Before(op, cur) + 1) /\ chip.ones = 0
        /\ chip.st = IF Left > 1 THEN "drive" ELSE IF Left = 1 THEN "back" ELSE "idle"
        /\ Sending(chip, cur, Left - 1) /\ chip.access.rnw
        /\ ~cur.ap => Near(got, Coded(chip.did[1].word), noisy)
    <2>1. Left >= 1
      BY <1>1
    <2> QED
      BY <1>1, <2>1 DEF Lockstep, StepData
  <1>4. W \in Nat \ {0}
    BY LineOnes
  <1>5. chip.did[1].word \in Words
    <2>1. Before(op, cur) + 1 \in Nat \ {0}
      BY <1>1, <1>2, InTransfer
    <2> QED
      BY <1>1, <1>3, <2>1, DidWord
  <1> DEFINE coded == Coded(chip.did[1].word)
  <1>6. coded \in Seq(Bit) /\ Len(coded) = W + 1
    BY <1>5, CodedWord
  <1>7. CASE Left > 1
    <2> DEFINE j == Left - 1
    <2>1. /\ j \in 1 .. W + 1 /\ W + 2 - j = Len(got) + 1 /\ Len(got) < W + 1
          /\ Left' = j /\ Left # 1 /\ (Left' > 1 <=> j # 1) /\ (Left' = 1 <=> j = 1) /\ Left' - 1 = j - 1
      BY <1>1, <1>2, <1>4, <1>7
    <2>2. chip.st = "drive" /\ todo[1] = In /\ Sending(chip, cur, j)
      BY <1>2, <1>3, <1>7, <2>1 DEF DataTo
    <2> HIDE DEF j
    <2>3. /\ ~cur.ap => chip.send[1] = coded[W + 2 - j]
          /\ Sending(chip', cur, j - 1) /\ chip'.ones = chip.ones /\ Same(chip, chip')
          /\ j = 1 => chip'.st = "back"
          /\ j # 1 => chip'.st = "drive"
      <3> DEFINE b == Seen(flip)
                 d == chip'
                 c == chip
                 t == cur
      <3>1. ChipOK(c) /\ c.st = "drive" /\ j \in 1 .. W + 1 /\ Sending(c, t, j) /\ b \in Bit /\ d \in Edge(c, b)
        BY <1>1, <2>1, <2>2
      <3> HIDE DEF b, c, d, t, coded
      <3>2. /\ ~t.ap => c.send[1] = Coded(c.did[1].word)[W + 2 - j]
            /\ Sending(d, t, j - 1) /\ d.ones = c.ones /\ Same(c, d)
            /\ j = 1 => d.st = "back"
            /\ j # 1 => d.st = "drive"
        BY <3>1, WordBit
      <3> QED
        BY <3>2 DEF c, d, t, coded
    <2>4. Seen(flip) = (chip.send[1] + flip) % 2 /\ got' = Append(got, Seen(flip))
      BY <1>1, <2>2, SeenIs, CycleKinds DEF Drives
    <2>5. ~cur.ap => Near(got', coded, noisy')
      <3> SUFFICES ASSUME ~cur.ap PROVE Near(got', coded, noisy')
        OBVIOUS
      <3> DEFINE i == W + 2 - j
                 b == Seen(flip)
      <3>1. /\ Near(got, coded, noisy) /\ b = (coded[i] + flip) % 2 /\ got' = Append(got, b)
            /\ i = Len(got) + 1 /\ Len(got) < Len(coded)
        BY <1>3, <1>6, <2>1, <2>3, <2>4
      <3> HIDE DEF i, b, coded
      <3> QED
        BY <1>1, <1>6, <3>1, NearNext
    <2>6. /\ chip'.did = chip.did /\ chip'.access = chip.access
          /\ History(chip', op, Before(op, cur) + 1)
      BY <1>3, <2>3, SameHistory DEF Same
    <2> QED
      BY <1>1, <1>3, <2>1, <2>3, <2>5, <2>6
  <1>8. CASE Left = 1
    <2>1. /\ Left' = 0 /\ ~(Left' > 1) /\ Left' # 1 /\ ~(Left' >= 1) /\ ~(Left > 1)
      BY <1>1, <1>8
    <2>2. chip.st = "back" /\ todo[1] = Turn
      BY <1>2, <1>3, <1>8, <2>1 DEF DataTo
    <2>3. chip'.st = "idle" /\ chip'.ones = 0 /\ Same(chip, chip')
      BY <1>1, <1>3, <2>2, TakenBack
    <2>4. got' = got
      BY <1>1, <2>2, CycleKinds
    <2>5. ~cur.ap => Near(got', coded, noisy')
      BY <1>1, <1>3, <2>4, NearMore
    <2>6. chip'.did = chip.did /\ History(chip', op, Before(op, cur) + 1)
      BY <1>3, <2>3, SameHistory DEF Same
    <2> QED
      BY <1>1, <2>1, <2>3, <2>5, <2>6
  <1> QED
    BY <1>1, <1>7, <1>8

\* A word that is written.
LEMMA WriteCycle ==
  ASSUME Inv, NEW flip \in Bit, Cycle(flip), Good'
  PROVE  StepWrite'
  <1> SUFFICES ASSUME phase' = "end", op'.kind \in Kinds, result'.st = "ok", ~cur'.rnw
               PROVE  /\ Left' > IDLE => History(chip', op', 0)
                      /\ Left' # IDLE + W + 2
                      /\ Left' > IDLE /\ Left' < IDLE + W + 2 =>
                           Taking(chip', cur', IDLE + W + 1 - Left', noisy')
                      /\ Left' <= IDLE => chip'.st = "idle" /\ \E n \in 0 .. 1 : History(chip', op', n)
                      /\ Left' < IDLE => chip'.ones = 0
    BY DEF StepWrite, Kinds
  <1>1. /\ Good /\ Host /\ HostType /\ ChipOK(chip) /\ Lockstep
        /\ noisy \in Bit /\ noisy + flip <= 1 /\ noisy' = noisy + flip
        /\ Left \in Nat \ {0} /\ Left' = Left - 1 /\ todo[1] \in Cycles
        /\ Seen(flip) \in Bit /\ chip' \in Edge(chip, Seen(flip))
        /\ phase = "end" /\ op' = op /\ cur' = cur
        /\ op.kind \in Kinds /\ result.st = "ok" /\ ~cur.rnw
    BY GoodCycle
  <1>2. /\ todo[1] = WriteTo(cur.word, Left) /\ Left <= IDLE + W + 2
        /\ driving <=> Left <= IDLE + W + 1
    <2>1. 1 \in 1 .. Left /\ Left + 1 - 1 = Left
      BY <1>1
    <2> QED
      BY <1>1, <2>1 DEF Host, HostWrite
  <1>3. /\ Left > IDLE => History(chip, op, 0)
        /\ Left = IDLE + W + 2 => chip.st = "back" /\ chip.ack = "ok" /\ chip.ones = 0 /\ chip.access = AccessOf(cur)
        /\ Left > IDLE /\ Left < IDLE + W + 2 => Taking(chip, cur, IDLE + W + 1 - Left, noisy)
        /\ Left <= IDLE => chip.st = "idle" /\ \E n \in 0 .. 1 : History(chip, op, n)
        /\ Left < IDLE => chip.ones = 0
    BY <1>1 DEF Lockstep, StepWrite
  <1>4. op \in Accesses /\ cur \in Transfers /\ cur = TransferOf(op) /\ cur.word \in Words
    BY <1>1, InTransfer, AccessOfType
  <1>5. W \in Nat \ {0} /\ IDLE \in Nat /\ IDLE >= 2
    BY LineOnes
  <1>6. Left' # IDLE + W + 2
    BY <1>1, <1>2, <1>5
  <1> DEFINE coded == Coded(cur.word)
  <1>7. coded \in Seq(Bit) /\ Len(coded) = W + 1
    BY <1>4, CodedWord
  <1> HIDE DEF coded
  <1>8. CASE Left = IDLE + W + 2
    <2>1. chip.st = "back" /\ chip.ack = "ok" /\ chip.ones = 0 /\ chip.access = AccessOf(cur) /\ History(chip, op, 0)
      BY <1>3, <1>5, <1>8
    <2>2. ~chip.access.rnw
      BY <1>1, <1>4, <2>1, AccessOfType
    <2>3. chip'.ones = 0 /\ Same(chip, chip') /\ chip'.st = "data" /\ Len(chip'.bits) = 0
      BY <1>1, <2>1, <2>2, TakenBack
    <2>4. Near(chip'.bits, coded, noisy')
      BY <1>7, <2>3, NearNothing
    <2>5. Taking(chip', cur, 0, noisy')
      BY <2>1, <2>3, <2>4 DEF Taking, Same, coded
    <2>6. History(chip', op, 0)
      BY <2>1, <2>3, SameHistory
    <2>7. IDLE + W + 1 - Left' = 0 /\ ~(Left' <= IDLE) /\ ~(Left' < IDLE)
      BY <1>1, <1>5, <1>8
    <2> QED
      BY <1>1, <1>6, <2>5, <2>6, <2>7
  <1>9. CASE Left > IDLE /\ Left < IDLE + W + 2
    <2> DEFINE k == IDLE + W + 1 - Left
    <2>1. /\ k \in 0 .. W /\ IDLE + W + 2 - Left = k + 1 /\ IDLE + W + 1 - Left' = k + 1
          /\ ~(Left <= IDLE) /\ Left # IDLE + W + 2 /\ Left <= IDLE + W + 1
          /\ (k < W <=> Left' > IDLE) /\ (k = W <=> Left' <= IDLE) /\ ~(Left' < IDLE)
      BY <1>1, <1>5, <1>9
    <2>2. Taking(chip, cur, k, noisy) /\ History(chip, op, 0)
      BY <1>3, <1>9
    <2>3. driving /\ ~Drives(chip)
      BY <1>2, <2>1, <2>2, Zenon DEF Taking, Drives
    <2>4. todo[1] = Out(coded[k + 1])
      <3>1. todo[1] = Out(coded[IDLE + W + 2 - Left])
        BY <1>2, <2>1, Zenon DEF WriteTo, coded
      <3> QED
        BY <2>1, <3>1
    <2>5. todo[1].do = "write" /\ todo[1].bit = coded[k + 1]
      BY <2>4, CycleKinds
    <2>6. Seen(flip) = (coded[k + 1] + flip) % 2
      BY <1>1, <2>3, <2>5, SeenIs
    <2> HIDE DEF k
    <2>7. /\ k < W => Taking(chip', cur, k + 1, noisy + flip) /\ Same(chip, chip')
          /\ k = W => /\ chip'.st = "idle" /\ chip'.posted = chip.posted
                      /\ chip'.did = chip.did \/ chip'.did = Append(chip.did, Acked(AccessOf(cur), cur.word))
      <3>1. Seen(flip) = (Coded(cur.word)[k + 1] + flip) % 2
        BY <2>6 DEF coded
      <3> DEFINE b == Seen(flip)
                 d == chip'
                 c == chip
                 t == cur
                 m == noisy
      <3>2. /\ ChipOK(c) /\ t \in Transfers /\ k \in 0 .. W /\ m \in Bit /\ m + flip <= 1
            /\ Taking(c, t, k, m) /\ b = (Coded(t.word)[k + 1] + flip) % 2 /\ d \in Edge(c, b)
        BY <1>1, <1>4, <2>1, <2>2, <3>1
      <3> HIDE DEF b, c, d, t, m
      <3>3. /\ k < W => Taking(d, t, k + 1, m + flip) /\ Same(c, d)
            /\ k = W => /\ d.st = "idle" /\ d.ones < ResetOnes /\ d.posted = c.posted
                        /\ d.did = c.did \/ d.did = Append(c.did, Acked(AccessOf(t), t.word))
        BY <3>2, Take
      <3> QED
        BY <3>3 DEF c, d, t, m
    <2>8. CASE k < W
      <3>1. Taking(chip', cur, k + 1, noisy') /\ History(chip', op, 0)
        BY <1>1, <2>2, <2>7, <2>8, SameHistory
      <3>2. ~(Left' <= IDLE)
        BY <2>1, <2>8
      <3> QED
        BY <1>1, <1>6, <2>1, <3>1, <3>2
    <2>9. CASE k = W
      <3>1. \E n \in 0 .. 1 : History(chip', op, n)
        BY <1>1, <1>4, <2>2, <2>7, <2>9, WriteDone
      <3>2. ~(Left' > IDLE)
        BY <2>1, <2>9
      <3> QED
        BY <1>1, <1>6, <2>1, <2>7, <2>9, <3>1, <3>2
    <2>10. k < W \/ k = W
      BY <1>5, <2>1
    <2> QED
      BY <2>8, <2>9, <2>10
  <1>10. CASE Left <= IDLE
    <2>1. Left <= IDLE + W + 1 /\ ~(Left' > IDLE)
      BY <1>1, <1>5, <1>10
    <2>2. driving /\ todo[1] = Out(0)
      BY <1>2, <1>10, <2>1, Zenon DEF WriteTo
    <2>3. chip.st = "idle"
      BY <1>3, <1>10
    <2>4. Synced(chip') /\ Same(chip, chip')
      BY <2>2, <2>3, ZeroSeen
    <2>5. \E n \in 0 .. 1 : History(chip', op, n)
      <3>1. PICK n \in 0 .. 1 : History(chip, op, n)
        BY <1>3, <1>10
      <3> QED
        BY <2>4, <3>1, SameHistory
    <2> QED
      BY <1>1, <1>6, <2>1, <2>4, <2>5 DEF Synced
  <1> QED
    BY <1>1, <1>2, <1>5, <1>8, <1>9, <1>10

LEMMA CycleKeeps ==
  ASSUME Inv, NEW flip \in Bit, Cycle(flip)
  PROVE  Inv'
  <1>1. Host /\ HostType /\ ChipOK(chip) /\ Settling
    BY DEF Inv, Host
  <1>2. Host'
    BY <1>1, HostCycle
  <1>3. ChipOK(chip') /\ phase' = phase /\ todo # <<>>
    BY <1>1, CycleIs DEF Cycle
  <1>4. Settling'
    BY <1>1, SettlingCycle
  <1>5. phase' # "idle"
    BY <1>1, <1>3 DEF Host, HostIdle
  <1>6. Good' => StepIdle'
    BY <1>5 DEF StepIdle
  <1>7. Lockstep'
    BY <1>6, SequenceCycle, AskCycle, AnswerCycle, DataCycle, ReadCycle, WriteCycle, FailCycle DEF Lockstep
  <1> QED
    BY <1>2, <1>3, <1>4, <1>7 DEF Inv

-----------------------------------------------------------------------------
\* The invariant holds of every behaviour.
LEMMA InvAtFirst ==
  ASSUME Init
  PROVE  Inv
  <1>1. Host /\ phase = "idle" /\ ~trusted
    BY HostAtFirst
  <1>2. ChipOK(chip)
    BY NewChipOK DEF Init
  <1> QED
    BY <1>1, <1>2 DEF Inv, Settling, Lockstep, Good

LEMMA InvKept ==
  ASSUME Inv, [Next]_vars
  PROVE  Inv'
  <1>1. CASE \E o \in Accesses : DoAccess(o)
    BY <1>1, DoAccessKeeps
  <1>2. CASE InitLine
    BY <1>2, InitLineKeeps
  <1>3. CASE \E s \in Sequences : SwjSequence(s)
    BY <1>3, SwjSequenceKeeps
  <1>4. CASE \E selected, high \in BOOLEAN : SwjPins(selected, high)
    BY <1>4, SwjPinsKeeps
  <1>5. CASE \E flip \in Bit : Cycle(flip)
    BY <1>5, CycleKeeps
  <1>6. CASE ReadAck
    BY <1>6, ReadAckKeeps
  <1>7. CASE ReadData
    BY <1>7, ReadDataKeeps
  <1>8. CASE FetchPosted
    BY <1>8, FetchPostedKeeps
  <1>9. CASE EndOp
    BY <1>9, EndOpKeeps
  <1>10. CASE ChipRestarts
    BY <1>10, ChipRestartsKeeps
  <1>11. CASE Done \/ UNCHANGED vars
    BY <1>11, NothingKeeps DEF Done
  <1> QED
    BY <1>1, <1>2, <1>3, <1>4, <1>5, <1>6, <1>7, <1>8, <1>9, <1>10, <1>11 DEF Next

LEMMA InvAlways == Spec => []Inv
  <1>1. Init => Inv
    BY InvAtFirst
  <1>2. Inv /\ [Next]_vars => Inv'
    BY InvKept
  <1> QED
    BY <1>1, <1>2, PTL DEF Spec

-----------------------------------------------------------------------------
\* At every moment of an operation the history is a part of what it asks for.
LEMMA SomeHistory ==
  ASSUME Inv, Good, op.kind \in Kinds
  PROVE  \E n \in 0 .. 2 : History(chip, op, n)
  <1>1. Host /\ Lockstep /\ phase \in {"idle", "ack", "data", "end"} /\ Left \in Nat
    BY DEF Inv, Host, HostType, Left
  <1>2. \A n : History(chip, op, n) => n \in 0 .. 2
    BY DEF History
  <1>3. CASE phase = "idle"
    BY <1>1, <1>3 DEF Lockstep, StepIdle, Outcome
  <1>4. CASE phase = "ack"
    <2>1. CASE Left > 4
      BY <1>1, <1>2, <1>4, <2>1 DEF Lockstep, StepAsk
    <2>2. CASE Left <= 4
      <3>1. CASE Garbled
        BY <1>2, <3>1 DEF Garbled
      <3>2. CASE Answering
        BY <1>2, <3>2 DEF Answering, Performed
      <3> QED
        BY <1>1, <1>4, <2>2, <3>1, <3>2 DEF Lockstep, StepAnswer
    <2> QED
      BY <1>1, <2>1, <2>2
  <1>5. CASE phase = "data"
    BY <1>1, <1>2, <1>5 DEF Lockstep, StepData
  <1>6. CASE phase = "end" /\ result.st = "ok" /\ cur.rnw
    BY <1>1, <1>2, <1>6 DEF Lockstep, StepRead
  <1>7. CASE phase = "end" /\ result.st = "ok" /\ ~cur.rnw
    <2>1. Left > IDLE \/ Left <= IDLE
      BY <1>1, LineOnes
    <2>2. History(chip, op, 0) \/ \E n \in 0 .. 1 : History(chip, op, n)
      BY <1>1, <1>7, <2>1 DEF Lockstep, StepWrite
    <2> QED
      BY <1>2, <2>2
  <1>8. CASE phase = "end" /\ result.st # "ok"
    BY <1>1, <1>2, <1>8 DEF Lockstep, StepFail
  <1> QED
    BY <1>1, <1>3, <1>4, <1>5, <1>6, <1>7, <1>8

\* While the firmware drives the line the chip does not.
LEMMA OneDriver ==
  ASSUME Inv, Good, driving
  PROVE  ~Drives(chip)
  <1>1. /\ Host /\ Lockstep /\ phase \in {"idle", "ack", "data", "end"} /\ Left \in Nat
        /\ op.kind \in Kinds \cup {"init", "sequence", "pins"}
    BY DEF Inv, Host, HostType, Left
  <1>2. CASE phase = "idle"
    BY <1>1, <1>2 DEF Lockstep, StepIdle, Synced, Drives
  <1>3. CASE phase = "ack"
    <2>1. Left > 3
      BY <1>1, <1>3 DEF Host, HostAck
    <2>2. CASE Left > 4
      BY <1>1, <1>3, <2>2 DEF Lockstep, StepAsk, Hearing, Synced, Drives
    <2>3. CASE Left = 4
      <3>1. Left <= 4
        BY <2>3
      <3>2. CASE Garbled
        BY <3>2 DEF Garbled, Drives
      <3>3. CASE Answering
        BY <2>3, <3>3 DEF Answering, Drives
      <3> QED
        BY <1>1, <1>3, <3>1, <3>2, <3>3 DEF Lockstep, StepAnswer
    <2> QED
      BY <1>1, <2>1, <2>2, <2>3
  <1>4. CASE phase = "data"
    <2>1. Left = 0
      BY <1>1, <1>4 DEF Host, HostData
    <2>2. ~(Left > 1) /\ Left # 1
      BY <2>1
    <2> QED
      BY <1>1, <1>4, <2>2 DEF Lockstep, StepData, Drives
  <1>5. CASE phase = "end" /\ op.kind \in Kinds /\ result.st = "ok" /\ cur.rnw
    BY <1>1, <1>5 DEF Lockstep, StepRead, Synced, Drives
  <1>6. CASE phase = "end" /\ op.kind \in Kinds /\ result.st = "ok" /\ ~cur.rnw
    <2>1. Left <= IDLE + W + 2
      BY <1>1, <1>6 DEF Host, HostWrite
    <2>2. Left <= IDLE \/ (Left > IDLE /\ Left < IDLE + W + 2) \/ Left = IDLE + W + 2
      BY <1>1, <2>1, LineOnes
    <2> QED
      BY <1>1, <1>6, <2>2 DEF Lockstep, StepWrite, Taking, Drives
  <1>7. CASE phase = "end" /\ op.kind \in Kinds /\ result.st # "ok"
    <2>1. Left <= IDLE \/ Left > IDLE
      BY <1>1, LineOnes
    <2> QED
      BY <1>1, <1>7, <2>1 DEF Lockstep, StepFail, Synced, Drives
  <1>8. CASE phase = "end" /\ op.kind = "init"
    BY <1>1, <1>8 DEF Host, HostInit, Good
  <1>9. CASE phase = "end" /\ op.kind = "sequence"
    BY <1>1, <1>9 DEF Lockstep, StepSequence, Synced, Drives
  <1>10. CASE phase = "end" /\ op.kind = "pins"
    BY <1>1, <1>10 DEF Host, HostOp
  <1> QED
    BY <1>1, <1>2, <1>3, <1>4, <1>5, <1>6, <1>7, <1>8, <1>9, <1>10

-----------------------------------------------------------------------------
(***************************************************************************)
(* Whatever an operation met, it leaves the line with the firmware; and    *)
(* init(), from any state of the chip, brings both ends to the start of a  *)
(* request, where every later operation leaves them, a failed one and one  *)
(* with a flipped sample as well, until an acknowledgement was unreadable. *)
(* For every width, every line reset long enough and every sequence of     *)
(* operations.                                                             *)
(***************************************************************************)
THEOREM SwdInStep == Spec => []InStep
  <1>1. Inv => InStep
    <2> SUFFICES ASSUME Inv, AtRest
                 PROVE  out /\ driving /\ (trusted /\ OneFlip => chip.st = "idle")
      BY DEF InStep
    <2>1. out /\ driving
      BY DEF Inv, Host, HostType, HostIdle, AtRest
    <2>2. trusted /\ OneFlip => Synced(chip)
      BY DEF Inv, AtRest, Lockstep, StepIdle, Good
    <2> QED
      BY <2>1, <2>2 DEF Synced
  <1> QED
    BY <1>1, InvAlways, PTL

\* The two ends never drive the line against each other, with at most one
\* flipped sample, as long as every answer was readable (turnaround, transfer).
THEOREM SwdNoFight == Spec => []NoFight
  <1>1. Inv => NoFight
    <2> SUFFICES ASSUME Inv, out, Drives(chip), OneFlip, trusted
                 PROVE  FALSE
      BY DEF NoFight, Inv, Host, HostType
    <2>1. driving
      BY DEF Inv, Host, HostType
    <2> QED
      BY <2>1, OneDriver DEF Good
  <1> QED
    BY <1>1, InvAlways, PTL

\* The chip performs the accesses the firmware asked for, in their order and
\* none twice, in the middle of an operation as well: a request that was
\* heard with one flip is refused (make_request's parity, stop and park bits).
THEOREM SwdOnlyTheRequest == Spec => []OnlyTheRequest
  <1>1. Inv => OnlyTheRequest
    <2> DEFINE t == TransferOf(op)
    <2> SUFFICES ASSUME Inv, trusted, OneFlip, op.kind \in Kinds
                 PROVE  /\ Len(chip.did) <= 2
                        /\ \A i \in DOMAIN chip.did :
                             LET d == chip.did[i]
                             IN  IF i = 1 THEN d.ap = t.ap /\ d.rnw = t.rnw /\ d.addr = t.addr
                                               /\ (~t.rnw => d.word = t.word)
                                 ELSE op.kind = "read_ap" /\ ~d.ap /\ d.rnw /\ d.addr = 3
      BY DEF OnlyTheRequest
    <2>1. PICK n \in 0 .. 2 : History(chip, op, n)
      BY SomeHistory DEF Good
    <2>2. Len(chip.did) = n /\ n \in 0 .. 2
      BY <2>1 DEF History
    <2>3. DOMAIN chip.did = 1 .. n
      <3> DEFINE did == chip.did
      <3>1. did \in Seq(Done1)
        BY ChipFields DEF Inv, ChipOK
      <3>2. Len(did) = n
        BY <2>2
      <3> HIDE DEF did
      <3>3. DOMAIN did = 1 .. n
        BY <3>1, <3>2
      <3> QED
        BY <3>3 DEF did
    <2>4. ASSUME NEW i \in 1 .. n
          PROVE  LET d == chip.did[i]
                 IN  IF i = 1 THEN d.ap = t.ap /\ d.rnw = t.rnw /\ d.addr = t.addr
                                   /\ (~t.rnw => d.word = t.word)
                     ELSE op.kind = "read_ap" /\ ~d.ap /\ d.rnw /\ d.addr = 3
      <3>1. CASE i = 1
        <4>1. n >= 1
          BY <2>2
        <4> QED
          BY <2>1, <3>1, <4>1 DEF History
      <3>2. CASE i # 1
        <4>1. n = 2 /\ i = 2
          BY <2>2, <3>2
        <4> QED
          BY <2>1, <3>2, <4>1 DEF History
      <3> QED
        BY <3>1, <3>2
    <2> QED
      BY <2>2, <2>3, <2>4
  <1> QED
    BY <1>1, InvAlways, PTL

\* A read that succeeds was performed, once, and returns the word the chip
\* gave: one flipped bit of a word is noticed (transfer's parity check, the
\* RDBUFF read of read_ap).
THEOREM SwdReadIsTrue == Spec => []ReadIsTrue
  <1>1. Inv => ReadIsTrue
    <2> SUFFICES ASSUME Inv, Ended, result.st = "ok", TransferOf(op).rnw
                 PROVE  /\ Len(chip.did) = IF op.kind = "read_ap" THEN 2 ELSE 1
                        /\ result.word = chip.did[1].word
      BY DEF ReadIsTrue
    <2>1. Outcome
      BY DEF Inv, Ended, AtRest, Lockstep, StepIdle, Good
    <2>2. /\ History(chip, op, IF op.kind = "read_ap" THEN 2 ELSE 1)
          /\ result.word = chip.did[1].word
      BY <2>1 DEF Outcome
    <2> QED
      BY <2>2 DEF History
  <1> QED
    BY <1>1, InvAlways, PTL

\* A transfer that was answered with WAIT or FAULT was not performed: what
\* exec_transfer repeats after WAIT was done once at most.
THEOREM SwdRefusalIsTrue == Spec => []RefusalIsTrue
  <1>1. Inv => RefusalIsTrue
    <2> SUFFICES ASSUME Inv, Ended, result.st \in {"wait", "fault"}
                 PROVE  Len(chip.did) = IF op.kind = "read_ap" /\ ~cur.ap THEN 1 ELSE 0
      BY DEF RefusalIsTrue
    <2>1. Outcome
      BY DEF Inv, Ended, AtRest, Lockstep, StepIdle, Good
    <2>2. History(chip, op, Before(op, cur))
      BY <2>1 DEF Outcome
    <2> QED
      BY <2>2 DEF History, Before
  <1> QED
    BY <1>1, InvAlways, PTL
=============================================================================
