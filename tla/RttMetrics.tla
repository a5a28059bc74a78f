----------------------------- MODULE RttMetrics -----------------------------
(***************************************************************************)
(* metrics.rs note_rtt(), called by any number of sessions at once, and    *)
(* the status page that reads what it left.                                *)
(*                                                                         *)
(* Every access is Relaxed: those to one static have one order that all    *)
(* threads agree on and that respects the order of each thread, those to   *)
(* different statics have none.  So one step is one access taking its      *)
(* place among those to the same static.  A call of note_rtt() has three   *)
(* parts, one for each static, which share nothing but the sample and go   *)
(* on independently; the page loads each static whenever it likes.  A call *)
(* whose accesses take effect after its session has begun another is one   *)
(* of a further session here.                                              *)
(***************************************************************************)
EXTENDS Integers, FiniteSets

CONSTANTS
  Sessions,  \* callers of note_rtt()
  Micros,    \* round trips that are measured
  U32_MAX,   \* u32::MAX
  MaxNotes   \* bound: calls of note_rtt()

ASSUME RttAssumption ==
  /\ Micros \subseteq Nat
  /\ U32_MAX \in Nat
  /\ MaxNotes \in Nat

VARIABLES
  LINK_RTT_US_LAST, LINK_RTT_US_EWMA, LINK_RTT_US_MAX,
  pc,      \* the next access of each part of each session's call
  v,       \* its sample
  old,     \* the average it has loaded
  cur,     \* the maximum it has loaded
  shown,   \* what the status page has loaded last, of each static
  notes,   \* calls so far
  taken,   \* history: the samples of all calls
  noted    \* history: the samples that are done with the maximum

statics == <<LINK_RTT_US_LAST, LINK_RTT_US_EWMA, LINK_RTT_US_MAX>>
vars == <<statics, pc, v, old, cur, shown, notes, taken, noted>>

U32 == 0 .. U32_MAX
PCs == [last : {"done", "store"}, avg : {"done", "load", "store"}, max : {"done", "load", "cas"}]
Returned == [last |-> "done", avg |-> "done", max |-> "done"]

Init ==
  /\ LINK_RTT_US_LAST = 0 /\ LINK_RTT_US_EWMA = 0 /\ LINK_RTT_US_MAX = 0
  /\ pc = [s \in Sessions |-> Returned]
  /\ v = [s \in Sessions |-> 0]
  /\ old = [s \in Sessions |-> 0]
  /\ cur = [s \in Sessions |-> 0]
  /\ shown = [last |-> 0, avg |-> 0, max |-> 0]
  /\ notes = 0 /\ taken = {} /\ noted = {}

-----------------------------------------------------------------------------
\* Mutant of Clamp: the microseconds are not cut off at 32 bits.
ClampNot(micros) == micros

\* The cast to u32.
Clamp(micros) == IF micros <= U32_MAX THEN micros ELSE U32_MAX

\* Mutant of Average: the weights add up to six fifths.
AverageTooHeavy(o, x) == IF o = 0 THEN x ELSE (o * 5 + x) \div 5

\* The new sample weighs one fifth, the first one all.
Average(o, x) == IF o = 0 THEN x ELSE (o * 4 + x) \div 5

\* note_rtt() is called.
Call(s, micros) ==
  /\ pc[s] = Returned
  /\ notes < MaxNotes
  /\ notes' = notes + 1
  /\ v' = [v EXCEPT ![s] = Clamp(micros)]
  /\ taken' = taken \cup {Clamp(micros)}
  /\ pc' = [pc EXCEPT ![s] = [last |-> "store", avg |-> "load", max |-> "load"]]
  /\ UNCHANGED <<statics, old, cur, shown, noted>>

StoreLast(s) ==
  /\ pc[s].last = "store"
  /\ LINK_RTT_US_LAST' = v[s]
  /\ pc' = [pc EXCEPT ![s].last = "done"]
  /\ UNCHANGED <<LINK_RTT_US_EWMA, LINK_RTT_US_MAX, v, old, cur, shown, notes, taken, noted>>

LoadAvg(s) ==
  /\ pc[s].avg = "load"
  /\ old' = [old EXCEPT ![s] = LINK_RTT_US_EWMA]
  /\ pc' = [pc EXCEPT ![s].avg = "store"]
  /\ UNCHANGED <<statics, v, cur, shown, notes, taken, noted>>

StoreAvg(s) ==
  /\ pc[s].avg = "store"
  /\ LINK_RTT_US_EWMA' = Clamp(Average(old[s], v[s]))
  /\ pc' = [pc EXCEPT ![s].avg = "done"]
  /\ UNCHANGED <<LINK_RTT_US_LAST, LINK_RTT_US_MAX, v, old, cur, shown, notes, taken, noted>>

\* The loop ends.
Break(s) ==
  /\ pc' = [pc EXCEPT ![s].max = "done"]
  /\ noted' = noted \cup {v[s]}

\* The loop's condition, with the maximum just loaded.
Compare(s, max) ==
  /\ cur' = [cur EXCEPT ![s] = max]
  /\ IF v[s] > max THEN pc' = [pc EXCEPT ![s].max = "cas"] /\ UNCHANGED noted
                   ELSE Break(s)

LoadMax(s) ==
  /\ pc[s].max = "load"
  /\ Compare(s, LINK_RTT_US_MAX)
  /\ UNCHANGED <<statics, v, old, shown, notes, taken>>

\* Mutant of CasOk: a plain store.
CasOkBlind(s) ==
  /\ pc[s].max = "cas"
  /\ LINK_RTT_US_MAX' = v[s]
  /\ Break(s)
  /\ UNCHANGED <<LINK_RTT_US_LAST, LINK_RTT_US_EWMA, v, old, cur, shown, notes, taken>>

\* compare_exchange_weak() succeeds ...
CasOk(s) ==
  /\ pc[s].max = "cas"
  /\ LINK_RTT_US_MAX = cur[s]
  /\ LINK_RTT_US_MAX' = v[s]
  /\ Break(s)
  /\ UNCHANGED <<LINK_RTT_US_LAST, LINK_RTT_US_EWMA, v, old, cur, shown, notes, taken>>

\* Mutant of CasErr: the loop gives up after one failure.
CasErrBreaks(s) ==
  /\ pc[s].max = "cas"
  /\ Break(s)
  /\ UNCHANGED <<statics, v, old, cur, shown, notes, taken>>

\* ... or fails, perhaps spuriously, and returns the maximum there is.
CasErr(s) ==
  /\ pc[s].max = "cas"
  /\ Compare(s, LINK_RTT_US_MAX)
  /\ UNCHANGED <<statics, v, old, shown, notes, taken>>

UpdateAvg(s) == LoadAvg(s) \/ StoreAvg(s)
RaiseMax(s) == LoadMax(s) \/ CasOk(s) \/ CasErr(s)

Note(s) ==
  \/ \E micros \in Micros : Call(s, micros)
  \/ StoreLast(s) \/ UpdateAvg(s) \/ RaiseMax(s)

-----------------------------------------------------------------------------
\* rtt_stats(): the three loads of the status page.
PollAvg ==
  /\ shown' = [shown EXCEPT !.avg = LINK_RTT_US_EWMA]
  /\ UNCHANGED <<statics, pc, v, old, cur, notes, taken, noted>>

PollLast ==
  /\ shown' = [shown EXCEPT !.last = LINK_RTT_US_LAST]
  /\ UNCHANGED <<statics, pc, v, old, cur, notes, taken, noted>>

\* Mutant of PollMax: the line above it, copied.
PollMaxOfLast ==
  /\ shown' = [shown EXCEPT !.max = LINK_RTT_US_LAST]
  /\ UNCHANGED <<statics, pc, v, old, cur, notes, taken, noted>>

PollMax ==
  /\ shown' = [shown EXCEPT !.max = LINK_RTT_US_MAX]
  /\ UNCHANGED <<statics, pc, v, old, cur, notes, taken, noted>>

Poll == PollAvg \/ PollLast \/ PollMax

Next == Poll \/ \E s \in Sessions : Note(s)

(***************************************************************************)
(* A call goes on to its end, an exchange does not fail for ever while     *)
(* nobody else changes the maximum, and the page, which asks every two     *)
(* seconds, does not load one old value for ever.  Nobody has to call.     *)
(***************************************************************************)
Fairness ==
  /\ \A s \in Sessions : WF_vars(StoreLast(s)) /\ WF_vars(UpdateAvg(s)) /\ WF_vars(RaiseMax(s))
  /\ WF_vars(PollAvg) /\ WF_vars(PollLast) /\ WF_vars(PollMax)

Spec == Init /\ [][Next]_vars /\ Fairness
-----------------------------------------------------------------------------
\* Type invariant: every value fits 32 bits.
TypeOK ==
  /\ LINK_RTT_US_LAST \in U32 /\ LINK_RTT_US_EWMA \in U32 /\ LINK_RTT_US_MAX \in U32
  /\ pc \in [Sessions -> PCs]
  /\ v \in [Sessions -> U32] /\ old \in [Sessions -> U32] /\ cur \in [Sessions -> U32]
  /\ shown \in [last : U32, avg : U32, max : U32]
  /\ notes \in 0 .. MaxNotes
  /\ taken \subseteq U32 /\ noted \subseteq U32

(***************************************************************************)
(* Once a call of note_rtt() has left its loop, the maximum is at least    *)
(* its sample, whatever other sessions stored in between and however often *)
(* the exchange failed; and the maximum is a sample that was measured.     *)
(***************************************************************************)
MaxIsReached ==
  /\ \A x \in noted : x <= LINK_RTT_US_MAX
  /\ LINK_RTT_US_MAX \in taken \cup {0}

\* The maximum never falls, also when sessions raise it at the same time
\* (note_rtt: "monotone").
MaxNeverFalls == [][LINK_RTT_US_MAX' >= LINK_RTT_US_MAX]_vars

(***************************************************************************)
(* The average stays between the samples measured so far, although two     *)
(* sessions that load and store it at the same time lose updates.          *)
(***************************************************************************)
AverageInRange ==
  LINK_RTT_US_EWMA # 0 =>
    /\ \E x \in taken : x <= LINK_RTT_US_EWMA
    /\ \E x \in taken : LINK_RTT_US_EWMA <= x

Quiet == \A s \in Sessions : pc[s] = Returned

\* The page shows the largest sample as the maximum, and nothing above it.
Settled ==
  /\ \A x \in taken : x <= shown.max
  /\ shown.last <= shown.max
  /\ shown.avg <= shown.max

(***************************************************************************)
(* While calls go on, and for as long after them as a load may return an   *)
(* old value, the page can show a last sample or an average above the      *)
(* maximum: nothing orders the accesses to different statics.  But when    *)
(* calls cease, it comes to show a true maximum and nothing above it, and  *)
(* that is the maximum of all sessions, lost exchanges or not (rtt_stats). *)
(***************************************************************************)
PageSettles == <>[]Quiet => <>[]Settled
=============================================================================
