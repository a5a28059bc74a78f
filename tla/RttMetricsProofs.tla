-------------------------- MODULE RttMetricsProofs --------------------------
(***************************************************************************)
(* The safety properties of note_rtt() for any number of sessions, calls   *)
(* and samples, any width of the statics, and accesses to different        *)
(* statics in any order.                                                   *)
(***************************************************************************)
EXTENDS RttMetrics, TLAPS

\* The average of two values lies between them, and fits if they do.
LEMMA AverageBetween ==
  ASSUME NEW o \in U32, NEW x \in U32
  PROVE  /\ Clamp(Average(o, x)) = Average(o, x)
         /\ Average(o, x) \in U32
         /\ o = 0 => Average(o, x) = x
         /\ o # 0 => \/ o <= Average(o, x) /\ Average(o, x) <= x
                     \/ x <= Average(o, x) /\ Average(o, x) <= o
  <1>1. U32_MAX \in Nat
    BY RttAssumption
  <1>2. o \in Nat /\ x \in Nat /\ o <= U32_MAX /\ x <= U32_MAX
    BY <1>1 DEF U32
  <1>3. CASE o = 0
    BY <1>1, <1>2, <1>3 DEF Average, Clamp, U32
  <1>4. CASE o # 0
    <2> DEFINE q == (o * 4 + x) \div 5
    <2>1. q \in Nat /\ 5 * q <= o * 4 + x /\ o * 4 + x < 5 * q + 5
      BY <1>2
    <2>2. Average(o, x) = q
      BY <1>4 DEF Average
    <2> HIDE DEF q
    <2>3. \/ o <= q /\ q <= x
          \/ x <= q /\ q <= o
      BY <1>2, <2>1
    <2> QED
      BY <1>1, <1>2, <1>4, <2>1, <2>2, <2>3 DEF Clamp, U32
  <1> QED
    BY <1>3, <1>4

LEMMA ClampFits ==
  ASSUME NEW micros \in Micros
  PROVE  Clamp(micros) \in U32
  BY RttAssumption DEF Clamp, U32

-----------------------------------------------------------------------------
\* Every step keeps the types.
LEMMA TypeStep == TypeOK /\ [Next]_vars => TypeOK'
  <1> SUFFICES ASSUME TypeOK, [Next]_vars PROVE TypeOK'
    OBVIOUS
  <1> USE DEF TypeOK, statics, PCs
  <1>1. ASSUME NEW s \in Sessions, NEW micros \in Micros, Call(s, micros)
        PROVE TypeOK'
    <2>1. Clamp(micros) \in U32
      BY ClampFits
    <2>2. notes' \in 0 .. MaxNotes
      BY <1>1, RttAssumption DEF Call
    <2> QED
      BY <1>1, <2>1, <2>2 DEF Call
  <1>2. ASSUME NEW s \in Sessions, StoreLast(s) PROVE TypeOK'
    BY <1>2 DEF StoreLast
  <1>3. ASSUME NEW s \in Sessions, LoadAvg(s) PROVE TypeOK'
    BY <1>3 DEF LoadAvg
  <1>4. ASSUME NEW s \in Sessions, StoreAvg(s) PROVE TypeOK'
    <2>1. Clamp(Average(old[s], v[s])) \in U32
      BY AverageBetween
    <2> QED
      BY <1>4, <2>1 DEF StoreAvg
  <1>5. ASSUME NEW s \in Sessions, LoadMax(s) \/ CasErr(s) PROVE TypeOK'
    BY <1>5 DEF LoadMax, CasErr, Compare, Break
  <1>6. ASSUME NEW s \in Sessions, CasOk(s) PROVE TypeOK'
    BY <1>6 DEF CasOk, Break
  <1>7. ASSUME Poll PROVE TypeOK'
    BY <1>7 DEF Poll, PollAvg, PollLast, PollMax
  <1>8. CASE UNCHANGED vars
    BY <1>8 DEF vars
  <1> QED
    BY <1>1, <1>2, <1>3, <1>4, <1>5, <1>6, <1>7, <1>8 DEF Next, Note, UpdateAvg, RaiseMax

\* Every value fits 32 bits, also where the page has loaded it.
THEOREM RttTypes == Spec => []TypeOK
  <1>1. Init => TypeOK
    <2>1. 0 \in U32 /\ 0 \in 0 .. MaxNotes
      BY RttAssumption DEF U32
    <2> QED
      BY <2>1 DEF Init, TypeOK, PCs, Returned
  <1> QED
    BY <1>1, TypeStep, PTL DEF Spec

-----------------------------------------------------------------------------
\* What the exchange relies on: a session that is about to exchange has seen
\* a maximum below its sample.
MaxInv ==
  /\ MaxIsReached
  /\ \A s \in Sessions : pc[s] # Returned => v[s] \in taken
  /\ \A s \in Sessions : pc[s].max = "cas" => v[s] > cur[s]

\* A step leaves the maximum where it is, or raises it.
LEMMA MaxStep ==
  TypeOK /\ MaxInv /\ [Next]_vars => MaxInv' /\ LINK_RTT_US_MAX' >= LINK_RTT_US_MAX
  <1> SUFFICES ASSUME TypeOK, MaxInv, [Next]_vars
               PROVE  MaxInv' /\ LINK_RTT_US_MAX' >= LINK_RTT_US_MAX
    OBVIOUS
  <1>0. /\ \A x \in U32 : x \in Int
        /\ LINK_RTT_US_MAX \in U32 /\ v \in [Sessions -> U32] /\ cur \in [Sessions -> U32]
        /\ pc \in [Sessions -> PCs] /\ noted \subseteq U32
    BY RttAssumption DEF U32, TypeOK
  <1> USE <1>0 DEF MaxInv, MaxIsReached, statics, PCs, Returned
  <1>1. ASSUME NEW s \in Sessions, NEW micros \in Micros, Call(s, micros)
        PROVE  MaxInv' /\ LINK_RTT_US_MAX' >= LINK_RTT_US_MAX
    BY <1>1 DEF Call
  <1>2. ASSUME NEW s \in Sessions, StoreLast(s) \/ LoadAvg(s) \/ StoreAvg(s)
        PROVE  MaxInv' /\ LINK_RTT_US_MAX' >= LINK_RTT_US_MAX
    BY <1>2 DEF StoreLast, LoadAvg, StoreAvg
  <1>3. ASSUME NEW s \in Sessions, LoadMax(s) \/ CasErr(s)
        PROVE  MaxInv' /\ LINK_RTT_US_MAX' >= LINK_RTT_US_MAX
    BY <1>3 DEF LoadMax, CasErr, Compare, Break
  <1>4. ASSUME NEW s \in Sessions, CasOk(s)
        PROVE  MaxInv' /\ LINK_RTT_US_MAX' >= LINK_RTT_US_MAX
    BY <1>4 DEF CasOk, Break
  <1>5. ASSUME Poll
        PROVE  MaxInv' /\ LINK_RTT_US_MAX' >= LINK_RTT_US_MAX
    BY <1>5 DEF Poll, PollAvg, PollLast, PollMax
  <1>6. CASE UNCHANGED vars
    BY <1>6 DEF vars
  <1> QED
    BY <1>1, <1>2, <1>3, <1>4, <1>5, <1>6 DEF Next, Note, UpdateAvg, RaiseMax

LEMMA MaxInit == Init => MaxInv
  BY DEF Init, MaxInv, MaxIsReached, Returned

LEMMA MaxAlways == Spec => [](TypeOK /\ MaxInv)
  BY RttTypes, MaxInit, MaxStep, PTL DEF Spec

\* No sample that is done with the maximum is above it, and the maximum was
\* measured.
THEOREM RttMaxIsReached == Spec => []MaxIsReached
  <1>1. MaxInv => MaxIsReached
    BY DEF MaxInv
  <1> QED
    BY <1>1, MaxAlways, PTL

\* The maximum never falls.
THEOREM RttMaxNeverFalls == Spec => MaxNeverFalls
  <1>1. TypeOK /\ MaxInv /\ [Next]_vars => [LINK_RTT_US_MAX' >= LINK_RTT_US_MAX]_vars
    BY MaxStep
  <1> QED
    BY <1>1, MaxAlways, PTL DEF Spec, MaxNeverFalls

-----------------------------------------------------------------------------
\* Nothing, or between two of the samples.
InRange(a) ==
  a # 0 => /\ \E x \in taken : x <= a
           /\ \E x \in taken : a <= x

\* The averages the sessions have loaded are in range as well, or storing
\* one would take the static out of it.
RangeInv ==
  /\ InRange(LINK_RTT_US_EWMA)
  /\ \A s \in Sessions : InRange(old[s])

LEMMA AverageKeepsRange ==
  ASSUME TypeOK, NEW o \in U32, InRange(o), NEW x \in taken
  PROVE  InRange(Clamp(Average(o, x)))
  <1>1. x \in U32 /\ \A y \in U32 : y \in Int
    BY RttAssumption DEF TypeOK, U32
  <1>2. \A y \in taken : y \in Int
    BY <1>1 DEF TypeOK
  <1> DEFINE a == Average(o, x)
  <1>3. /\ Clamp(a) = a /\ a \in Int
        /\ o = 0 => a = x
        /\ o # 0 => \/ o <= a /\ a <= x
                    \/ x <= a /\ a <= o
    BY <1>1, AverageBetween
  <1> HIDE DEF a
  <1>4. o \in Int /\ x \in Int
    BY <1>1
  <1> QED
    BY <1>2, <1>3, <1>4 DEF InRange, a

LEMMA RangeStep ==
  TypeOK /\ MaxInv /\ RangeInv /\ [Next]_vars => RangeInv'
  <1> SUFFICES ASSUME TypeOK, MaxInv, RangeInv, [Next]_vars PROVE RangeInv'
    OBVIOUS
  <1>0. /\ LINK_RTT_US_EWMA \in U32
        /\ old \in [Sessions -> U32]
    BY DEF TypeOK
  <1>1. ASSUME NEW s \in Sessions, NEW micros \in Micros, Call(s, micros)
        PROVE  RangeInv'
    BY <1>1 DEF Call, RangeInv, InRange, statics
  <1>2. ASSUME NEW s \in Sessions, LoadAvg(s) PROVE RangeInv'
    BY <1>0, <1>2 DEF LoadAvg, RangeInv, InRange, statics
  <1>3. ASSUME NEW s \in Sessions, StoreAvg(s) PROVE RangeInv'
    <2>1. v[s] \in taken /\ InRange(old[s])
      BY <1>3 DEF StoreAvg, MaxInv, RangeInv, Returned
    <2>2. InRange(Clamp(Average(old[s], v[s])))
      BY <1>0, <2>1, AverageKeepsRange
    <2> QED
      BY <1>3, <2>2 DEF StoreAvg, RangeInv, InRange
  <1>4. ASSUME NEW s \in Sessions, StoreLast(s) \/ RaiseMax(s) PROVE RangeInv'
    BY <1>4 DEF StoreLast, RaiseMax, LoadMax, CasErr, CasOk, RangeInv, InRange, statics
  <1>5. ASSUME Poll PROVE RangeInv'
    BY <1>5 DEF Poll, PollAvg, PollLast, PollMax, RangeInv, InRange, statics
  <1>6. CASE UNCHANGED vars
    BY <1>6 DEF vars, RangeInv, InRange, statics
  <1> QED
    BY <1>1, <1>2, <1>3, <1>4, <1>5, <1>6 DEF Next, Note, UpdateAvg

\* Lost updates never take the average out of the range of the samples.
THEOREM RttAverageInRange == Spec => []AverageInRange
  <1>1. Init => RangeInv
    BY DEF Init, RangeInv, InRange
  <1>2. RangeInv => AverageInRange
    BY DEF RangeInv, InRange, AverageInRange
  <1> QED
    BY <1>1, <1>2, RangeStep, MaxAlways, PTL DEF Spec
-----------------------------------------------------------------------------
\* A sample that has not been compared with the maximum yet is one of a
\* session that still has to do so, and the last sample is one of them all.
PeakInv ==
  /\ \A x \in taken : x \in noted \/ \E s \in Sessions : pc[s].max # "done" /\ v[s] = x
  /\ LINK_RTT_US_LAST \in taken \cup {0}

LEMMA PeakStep ==
  TypeOK /\ MaxInv /\ PeakInv /\ [Next]_vars => PeakInv'
  <1> SUFFICES ASSUME TypeOK, MaxInv, PeakInv, [Next]_vars PROVE PeakInv'
    OBVIOUS
  <1>0. v \in [Sessions -> U32] /\ pc \in [Sessions -> PCs]
    BY DEF TypeOK
  <1> USE <1>0 DEF PeakInv, statics, PCs, Returned
  <1>1. ASSUME NEW s \in Sessions, NEW micros \in Micros, Call(s, micros) PROVE PeakInv'
    BY <1>1 DEF Call
  <1>2. ASSUME NEW s \in Sessions, StoreLast(s) PROVE PeakInv'
    <2>1. v[s] \in taken
      BY <1>2 DEF StoreLast, MaxInv
    <2> QED
      BY <1>2, <2>1 DEF StoreLast
  <1>3. ASSUME NEW s \in Sessions, LoadAvg(s) \/ StoreAvg(s) PROVE PeakInv'
    BY <1>3 DEF LoadAvg, StoreAvg
  <1>4. ASSUME NEW s \in Sessions, RaiseMax(s) PROVE PeakInv'
    BY <1>4 DEF RaiseMax, LoadMax, CasErr, CasOk, Compare, Break
  <1>5. ASSUME Poll PROVE PeakInv'
    BY <1>5 DEF Poll, PollAvg, PollLast, PollMax
  <1>6. CASE UNCHANGED vars
    BY <1>6 DEF vars
  <1> QED
    BY <1>1, <1>2, <1>3, <1>4, <1>5, <1>6 DEF Next, Note, UpdateAvg

\* Once every call has had its effect, the maximum is above all samples, the
\* last one and the average: what PageSettles says the page then comes to
\* show, but for its getting there (note_rtt).
THEOREM RttQuietPeak ==
  Spec => [](Quiet => /\ \A x \in taken : x <= LINK_RTT_US_MAX
                      /\ LINK_RTT_US_LAST <= LINK_RTT_US_MAX
                      /\ LINK_RTT_US_EWMA <= LINK_RTT_US_MAX)
  <1> DEFINE Peak == /\ \A x \in taken : x <= LINK_RTT_US_MAX
                     /\ LINK_RTT_US_LAST <= LINK_RTT_US_MAX
                     /\ LINK_RTT_US_EWMA <= LINK_RTT_US_MAX
  <1>1. Init => PeakInv
    BY DEF Init, PeakInv
  <1>2. TypeOK /\ MaxInv /\ PeakInv /\ AverageInRange => (Quiet => Peak)
    <2> SUFFICES ASSUME TypeOK, MaxInv, PeakInv, AverageInRange, Quiet PROVE Peak
      OBVIOUS
    <2>1. /\ \A x \in U32 : x \in Int /\ x >= 0
          /\ LINK_RTT_US_MAX \in U32 /\ LINK_RTT_US_EWMA \in U32 /\ taken \subseteq U32
      BY RttAssumption DEF U32, TypeOK
    <2>2. \A x \in taken : x <= LINK_RTT_US_MAX
      BY DEF PeakInv, MaxInv, MaxIsReached, Quiet, Returned
    <2>3. LINK_RTT_US_LAST <= LINK_RTT_US_MAX
      BY <2>1, <2>2 DEF PeakInv
    <2>4. LINK_RTT_US_EWMA <= LINK_RTT_US_MAX
      <3>1. CASE LINK_RTT_US_EWMA = 0
        BY <2>1, <3>1
      <3>2. CASE LINK_RTT_US_EWMA # 0
        <4>1. PICK x \in taken : LINK_RTT_US_EWMA <= x
          BY <3>2 DEF AverageInRange
        <4>2. x \in Int /\ LINK_RTT_US_EWMA \in Int /\ LINK_RTT_US_MAX \in Int
          BY <2>1
        <4> QED
          BY <2>2, <4>1, <4>2
      <3> QED
        BY <3>1, <3>2
    <2> QED
      BY <2>2, <2>3, <2>4
  <1> HIDE DEF Peak
  <1>3. Spec => [](Quiet => Peak)
    BY <1>1, <1>2, PeakStep, MaxAlways, RttAverageInRange, PTL DEF Spec
  <1> QED
    BY <1>3 DEF Peak
=============================================================================
