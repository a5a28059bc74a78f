----------------------------- MODULE LogHubProofs -----------------------------
(***************************************************************************)
(* What the page shows and refuses, for every number of threads and events *)
(* and every capacity of the ring and of the channel.                      *)
(***************************************************************************)
EXTENDS LogHub, TLAPS

LogEvent == [run : Nat, seq : Nat]

\* The state has its types.
TypeOK ==
  /\ run \in Nat /\ SEQ \in Nat /\ faults \in Nat
  /\ sent \in Nat /\ pushed \in Nat /\ taken \in Nat
  /\ ring \in Seq(LogEvent) /\ queue \in Seq(LogEvent) /\ list \in Seq(LogEvent)
  /\ at \in [Threads -> {"idle", "ring", "send"}]
  /\ ev \in [Threads -> LogEvent]
  /\ rx \in BOOLEAN
  /\ hist \in {"asked", "got", "showing", "done", "failed"}
  /\ page \in [lastSeq : Int, shown : Seq(LogEvent), hidden : SUBSET LogEvent]
  /\ overtaken \subseteq LogEvent /\ dropped \subseteq LogEvent
  /\ late \subseteq LogEvent /\ heard \subseteq LogEvent
  /\ causes \subseteq {"lag", "gap", "break", "restart", "liveFirst"}

\* What the page shows has growing numbers, and lastSeq is the last of them.
Growing ==
  /\ \A i, j \in 1 .. Len(page.shown) : i < j => page.shown[i].seq < page.shown[j].seq
  /\ page.lastSeq = IF page.shown = <<>> THEN -1 ELSE page.shown[Len(page.shown)].seq

\* A thread that has a number: it is of this run and below the next.
Busy(t) == at[t] # "idle"
Numbers == \A t \in Threads : Busy(t) => ev[t].run = run /\ ev[t].seq < SEQ

\* The events that left a thread and may still be shown, or are.
Placed == ToSet(ring) \cup ToSet(queue) \cup ToSet(list) \cup ToSet(page.shown)

Past == \A f \in Placed : f.run <= run /\ (f.run = run => f.seq < SEQ)

\* Whoever has a number smaller than one placed in this run is overtaken.
Behind ==
  \A t \in Threads : \A f \in Placed :
    Busy(t) /\ f.run = run /\ ev[t].seq < f.seq => ev[t] \in overtaken

\* Where a number comes after a larger one, it is in over.
Turned(s, over) ==
  \A i, j \in 1 .. Len(s) : i < j /\ s[j].seq < s[i].seq => s[j] \in over

OfOneRun(s) == \A i, j \in 1 .. Len(s) : s[i].run = s[j].run

Hub ==
  /\ \A e \in ToSet(ring) \cup ToSet(queue) : e.run = run
  /\ Turned(ring, overtaken) /\ Turned(queue, overtaken) /\ Turned(list, overtaken)
  /\ OfOneRun(list)
  /\ ToSet(queue) \subseteq ToSet(ring) \cup dropped
  /\ \A t \in Threads : at[t] = "send" => ev[t] \in ToSet(ring) \cup dropped

\* An event that the page may refuse.
Excused(e) ==
  \/ e \in overtaken \/ e \in late \/ e \in ToSet(page.shown) \/ e \in page.hidden

\* A live event behind a larger number the page shows, or the history will show.
BehindShown ==
  \A e \in ToSet(queue) : \A f \in ToSet(page.shown) :
    f.run = e.run /\ e.seq < f.seq => Excused(e)

BehindList ==
  \A e \in ToSet(queue) : \A j \in 1 .. Len(list) :
    list[j].run = e.run /\ e.seq < list[j].seq =>
      Excused(e) \/ \E i \in 1 .. j - 1 : list[i] = e

\* The history that is being shown came late, or all that is shown is of it.
OfHistory ==
  hist = "showing" =>
    \/ ToSet(list) \subseteq late
    \/ \A f \in ToSet(page.shown) : \A e \in ToSet(list) :
         f.run = e.run /\ (e.seq < f.seq => e \in overtaken)

HiddenInv ==
  /\ TypeOK /\ Growing /\ Numbers /\ Past /\ Behind /\ Hub
  /\ BehindShown /\ BehindList /\ OfHistory /\ HiddenForAReason

\* While nothing went wrong, threads publish one after the other:
InTurn ==
  /\ run = 0 /\ sent <= SEQ
  /\ \A t \in Threads : Busy(t) => sent <= ev[t].seq
  /\ \A n \in sent .. SEQ - 1 : \E t \in Threads : Busy(t) /\ ev[t].seq = n
  /\ \A t, u \in Threads : Busy(t) /\ Busy(u) /\ ev[t].seq = ev[u].seq => t = u
  /\ \A t \in Threads : at[t] = "send" => ev[t].seq = sent /\ pushed = sent + 1
  /\ pushed = sent \/ \E t \in Threads : at[t] = "send"

\* s holds, in order, the numbers up to n.
UpTo(s, n) ==
  /\ Len(s) <= n
  /\ \A i \in 1 .. Len(s) : s[i] = [run |-> 0, seq |-> n - Len(s) + i - 1]

Least(a, b) == IF a < b THEN a ELSE b
Waiting == sent - Len(queue)   \* the first number the page has not been sent

\* the ring, the channel and the history hold the numbers in order,
InOrder ==
  /\ UpTo(ring, pushed) /\ Len(ring) = Least(pushed, RING_CAPACITY)
  /\ UpTo(queue, sent) /\ Len(queue) <= CHANNEL_CAPACITY
  /\ ~rx => queue = <<>>
  /\ hist \in {"got", "showing", "done"} /\ ~rx => sent <= taken
  /\ hist \in {"got", "showing", "done"} => taken <= pushed

\* and the page shows them without a hole, from the first of its history on.
First == taken - Least(taken, RING_CAPACITY)

NoHole ==
  /\ hist = "got" /\ page.shown = <<>> => Waiting <= taken
  /\ hist = "got" => UpTo(list, taken) /\ Len(list) = Least(taken, RING_CAPACITY)
  /\ hist = "showing" =>
       /\ Waiting <= taken
       /\ UpTo(list, taken) /\ UpTo(page.shown, taken - Len(list))
       /\ Len(page.shown) + Len(list) = taken - First
  /\ hist = "done" =>
       LET end == IF taken > Waiting THEN taken ELSE Waiting
       IN  UpTo(page.shown, end) /\ Len(page.shown) = end - First

\* Nothing went wrong: no cause, and no thread overtaken.
Clean == causes = {} /\ overtaken = {}
CompleteInv == Clean => InTurn /\ InOrder /\ NoHole
-----------------------------------------------------------------------------
\* What a sequence holds.
LEMMA Members ==
  ASSUME NEW S, NEW s \in Seq(S)
  PROVE  /\ ToSet(s) \subseteq S
         /\ \A x : x \in ToSet(s) <=> \E i \in 1 .. Len(s) : s[i] = x
  BY SMT DEF ToSet

\* Appending an event adds it,
LEMMA Appended ==
  ASSUME NEW S, NEW s \in Seq(S), NEW x \in S
  PROVE  /\ Append(s, x) \in Seq(S) /\ Len(Append(s, x)) = Len(s) + 1
         /\ s \o <<x>> = Append(s, x)
         /\ \A i \in 1 .. Len(s) : Append(s, x)[i] = s[i]
         /\ Append(s, x)[Len(s) + 1] = x
         /\ ToSet(Append(s, x)) = ToSet(s) \cup {x}
  <1>1. /\ Append(s, x) \in Seq(S) /\ Len(Append(s, x)) = Len(s) + 1
        /\ s \o <<x>> = Append(s, x)
        /\ \A i \in 1 .. Len(s) : Append(s, x)[i] = s[i]
        /\ Append(s, x)[Len(s) + 1] = x
    OBVIOUS
  <1>2. ASSUME NEW y PROVE y \in ToSet(Append(s, x)) <=> y \in ToSet(s) \cup {x}
    <2>1. y \in ToSet(Append(s, x)) <=> \E i \in 1 .. Len(Append(s, x)) : Append(s, x)[i] = y
      BY <1>1, Members
    <2>2. y \in ToSet(s) <=> \E i \in 1 .. Len(s) : s[i] = y
      BY Members
    <2>3. Len(s) \in Nat
      OBVIOUS
    <2>4. ASSUME y \in ToSet(s) \cup {x} PROVE \E i \in 1 .. Len(s) + 1 : Append(s, x)[i] = y
      BY <1>1, <2>2, <2>3, <2>4
    <2>5. ASSUME NEW i \in 1 .. Len(s) + 1, Append(s, x)[i] = y PROVE y \in ToSet(s) \cup {x}
      BY <1>1, <2>2, <2>3, <2>5
    <2> QED
      BY <1>1, <2>1, <2>4, <2>5
  <1> QED
    BY <1>1, <1>2

\* and taking the first away leaves the others.
LEMMA Shortened ==
  ASSUME NEW S, NEW s \in Seq(S), s # <<>>
  PROVE  /\ Tail(s) \in Seq(S) /\ Len(Tail(s)) = Len(s) - 1 /\ Len(s) \in Nat \ {0}
         /\ \A i \in 1 .. Len(s) - 1 : Tail(s)[i] = s[i + 1]
         /\ Head(s) = s[1] /\ Head(s) \in S
         /\ ToSet(s) = ToSet(Tail(s)) \cup {Head(s)}
  <1>1. /\ Tail(s) \in Seq(S) /\ Len(Tail(s)) = Len(s) - 1 /\ Len(s) \in Nat \ {0}
        /\ \A i \in 1 .. Len(s) - 1 : Tail(s)[i] = s[i + 1]
        /\ Head(s) = s[1] /\ Head(s) \in S
    OBVIOUS
  <1> DEFINE t == Tail(s)
  <1>2. t \in Seq(S)
    BY <1>1
  <1> HIDE DEF t
  <1>3. \A y : y \in ToSet(t) <=> \E j \in 1 .. Len(t) : t[j] = y
    BY <1>2, Members
  <1>4. ASSUME NEW y PROVE y \in ToSet(s) <=> y \in ToSet(Tail(s)) \cup {Head(s)}
    <2>1. ASSUME y \in ToSet(s) PROVE y \in ToSet(Tail(s)) \cup {Head(s)}
      <3>1. PICK i \in 1 .. Len(s) : s[i] = y
        BY <2>1, Members
      <3>2. CASE i = 1
        BY <3>1, <3>2, <1>1
      <3>3. CASE i # 1
        <4>1. i - 1 \in 1 .. Len(s) - 1 /\ Tail(s)[i - 1] = y
          BY <3>1, <3>3, <1>1
        <4>2. i - 1 \in 1 .. Len(Tail(s))
          BY <4>1, <1>1
        <4>3. y \in ToSet(Tail(s)) <=> \E j \in 1 .. Len(Tail(s)) : Tail(s)[j] = y
          BY <1>3 DEF t
        <4> QED
          BY <4>1, <4>2, <4>3
      <3> QED
        BY <3>2, <3>3
    <2>2. ASSUME y \in ToSet(Tail(s)) PROVE y \in ToSet(s)
      <3>1. PICK i \in 1 .. Len(s) - 1 : Tail(s)[i] = y
        <4>1. y \in ToSet(Tail(s)) <=> \E j \in 1 .. Len(Tail(s)) : Tail(s)[j] = y
          BY <1>3 DEF t
        <4> QED
          BY <2>2, <1>1, <4>1
      <3>2. i + 1 \in 1 .. Len(s) /\ s[i + 1] = y
        BY <3>1, <1>1
      <3> QED
        BY <3>2, Members
    <2>3. Head(s) \in ToSet(s)
      BY <1>1, Members
    <2> QED
      BY <2>1, <2>2, <2>3
  <1> QED
    BY <1>1, <1>4

LEMMA EmptySet == ToSet(<<>>) = {}
  BY DEF ToSet

\* Two events of the same run with the same number are one.
LEMMA SameEvent ==
  ASSUME NEW e \in LogEvent, NEW f \in LogEvent, e.run = f.run, e.seq = f.seq
  PROVE  e = f
  BY DEF LogEvent

-----------------------------------------------------------------------------
\* Turned: with more that may be in over,
LEMMA TurnedMore ==
  ASSUME NEW s, NEW over, NEW more, Turned(s, over), over \subseteq more
  PROVE  Turned(s, more)
  BY DEF Turned

\* with the first gone,
LEMMA TurnedTail ==
  ASSUME NEW s \in Seq(LogEvent), NEW over, Turned(s, over), s # <<>>
  PROVE  Turned(Tail(s), over)
  BY Shortened DEF Turned

\* and with one behind that is in over if one before it is larger.
LEMMA TurnedAppend ==
  ASSUME NEW s \in Seq(LogEvent), NEW over, NEW e \in LogEvent, Turned(s, over),
         \A f \in ToSet(s) : e.seq < f.seq => e \in over
  PROVE  Turned(Append(s, e), over)
  <1> SUFFICES ASSUME NEW i \in 1 .. Len(s) + 1, NEW j \in 1 .. Len(s) + 1,
                      i < j, Append(s, e)[j].seq < Append(s, e)[i].seq
               PROVE  Append(s, e)[j] \in over
    BY Appended DEF Turned
  <1>1. i \in 1 .. Len(s) /\ Append(s, e)[i] = s[i] /\ s[i] \in ToSet(s)
    BY Appended, Members
  <1>2. CASE j = Len(s) + 1
    BY <1>1, <1>2, Appended
  <1>3. CASE j # Len(s) + 1
    <2>1. j \in 1 .. Len(s) /\ Append(s, e)[j] = s[j]
      BY <1>3, Appended
    <2> QED
      BY <1>1, <2>1 DEF Turned
  <1> QED
    BY <1>2, <1>3

\* UpTo: with the first gone
LEMMA UpToTail ==
  ASSUME NEW s \in Seq(LogEvent), NEW n \in Nat, UpTo(s, n), s # <<>>
  PROVE  UpTo(Tail(s), n) /\ Head(s) = [run |-> 0, seq |-> n - Len(s)] /\ Len(s) <= n
  <1>1. Len(s) \in Nat \ {0} /\ Len(Tail(s)) = Len(s) - 1 /\ Head(s) = s[1]
        /\ \A i \in 1 .. Len(s) - 1 : Tail(s)[i] = s[i + 1]
    BY Shortened
  <1>2. Len(s) <= n /\ \A i \in 1 .. Len(s) : s[i] = [run |-> 0, seq |-> n - Len(s) + i - 1]
    BY DEF UpTo
  <1>3. ASSUME NEW i \in 1 .. Len(Tail(s))
        PROVE  Tail(s)[i] = [run |-> 0, seq |-> n - Len(Tail(s)) + i - 1]
    <2>1. i \in 1 .. Len(s) - 1 /\ i + 1 \in 1 .. Len(s)
      BY <1>1
    <2>2. n - Len(s) + (i + 1) - 1 = n - Len(Tail(s)) + i - 1
      BY <1>1
    <2> QED
      BY <1>1, <1>2, <2>1, <2>2
  <1>4. s[1] = [run |-> 0, seq |-> n - Len(s) + 1 - 1] /\ n - Len(s) + 1 - 1 = n - Len(s)
    BY <1>1, <1>2
  <1> QED
    BY <1>1, <1>2, <1>3, <1>4 DEF UpTo

\* and with the next behind.
LEMMA UpToAppend ==
  ASSUME NEW s \in Seq(LogEvent), NEW n \in Nat, UpTo(s, n)
  PROVE  UpTo(Append(s, [run |-> 0, seq |-> n]), n + 1)
  <1> DEFINE e == [run |-> 0, seq |-> n]
             a == Append(s, e)
  <1>0. e \in LogEvent
    BY DEF LogEvent
  <1>1. /\ Len(a) = Len(s) + 1 /\ a[Len(s) + 1] = e
        /\ \A i \in 1 .. Len(s) : a[i] = s[i]
    BY <1>0, Appended
  <1>2. Len(s) <= n /\ Len(s) \in Nat
        /\ \A i \in 1 .. Len(s) : s[i] = [run |-> 0, seq |-> n - Len(s) + i - 1]
    BY DEF UpTo
  <1> HIDE DEF a
  <1>3. ASSUME NEW i \in 1 .. Len(a)
        PROVE  a[i] = [run |-> 0, seq |-> (n + 1) - Len(a) + i - 1]
    <2>1. CASE i = Len(s) + 1
      <3>1. (n + 1) - Len(a) + i - 1 = n
        BY <1>1, <1>2, <2>1
      <3> QED
        BY <1>1, <2>1, <3>1
    <2>2. CASE i # Len(s) + 1
      <3>1. i \in 1 .. Len(s) /\ (n + 1) - Len(a) + i - 1 = n - Len(s) + i - 1
        BY <1>1, <1>2, <2>2
      <3> QED
        BY <1>1, <1>2, <3>1
    <2> QED
      BY <2>1, <2>2
  <1>4. Len(a) <= n + 1
    BY <1>1, <1>2
  <1>5. UpTo(a, n + 1)
    BY <1>3, <1>4 DEF UpTo
  <1> QED
    BY <1>5 DEF a

-----------------------------------------------------------------------------
\* What addLog() does with an event: it shows it or refuses it, and then a
\* number as large is shown already.
LEMMA Added ==
  ASSUME page \in [lastSeq : Int, shown : Seq(LogEvent), hidden : SUBSET LogEvent], Growing,
         NEW e \in LogEvent, page' = AddLog(page, e)
  PROVE  /\ page' \in [lastSeq : Int, shown : Seq(LogEvent), hidden : SUBSET LogEvent]
         /\ Growing'
         /\ ToSet(page'.shown) \subseteq ToSet(page.shown) \cup {e}
         /\ ToSet(page.shown) \subseteq ToSet(page'.shown)
         /\ page.hidden \subseteq page'.hidden
         /\ e \in ToSet(page'.shown) \/ e \in page'.hidden
         /\ page'.hidden \subseteq page.hidden \cup {e}
         /\ page'.hidden = page.hidden \/ \E f \in ToSet(page.shown) : f.seq >= e.seq
  <1> DEFINE old == page.shown
  <1>0. /\ old \in Seq(LogEvent) /\ Len(old) \in Nat /\ e.seq \in Nat /\ page.lastSeq \in Int
        /\ page.hidden \subseteq LogEvent
        /\ \A i \in 1 .. Len(old) : old[i] \in LogEvent /\ old[i].seq \in Nat
    <2>1. old \in Seq(LogEvent) /\ page.lastSeq \in Int /\ page.hidden \subseteq LogEvent
      OBVIOUS
    <2> HIDE DEF old
    <2>2. Len(old) \in Nat /\ \A i \in 1 .. Len(old) : old[i] \in LogEvent
      BY <2>1
    <2>3. \A d \in LogEvent : d.seq \in Nat
      BY DEF LogEvent
    <2> QED
      BY <2>1, <2>2, <2>3
  <1>1. CASE e.seq <= page.lastSeq
    <2>1. page' = [page EXCEPT !.hidden = @ \cup {e}]
      BY <1>1 DEF AddLog
    <2>2. page'.lastSeq = page.lastSeq /\ page'.shown = old /\ page'.hidden = page.hidden \cup {e}
      BY <2>1
    <2>3. old # <<>> /\ page.lastSeq = old[Len(old)].seq /\ Len(old) \in 1 .. Len(old)
      BY <1>0, <1>1 DEF Growing
    <2>4. old[Len(old)] \in ToSet(old) /\ old[Len(old)].seq >= e.seq
      BY <1>0, <1>1, <2>3, Members
    <2>5. page' \in [lastSeq : Int, shown : Seq(LogEvent), hidden : SUBSET LogEvent]
      BY <1>0, <2>1
    <2>6. Growing'
      BY <2>2 DEF Growing
    <2> QED
      BY <2>2, <2>4, <2>5, <2>6
  <1>2. CASE ~(e.seq <= page.lastSeq)
    <2> DEFINE new == Append(old, e)
    <2>1. page' = [page EXCEPT !.lastSeq = e.seq, !.shown = Append(@, e)]
      BY <1>2 DEF AddLog
    <2>2. page'.lastSeq = e.seq /\ page'.shown = new /\ page'.hidden = page.hidden
      BY <2>1
    <2>3. /\ new \in Seq(LogEvent) /\ Len(new) = Len(old) + 1 /\ new[Len(old) + 1] = e
          /\ \A i \in 1 .. Len(old) : new[i] = old[i]
          /\ ToSet(new) = ToSet(old) \cup {e}
      BY <1>0, Appended
    <2>4. page' \in [lastSeq : Int, shown : Seq(LogEvent), hidden : SUBSET LogEvent]
      <3>1. page' = [lastSeq |-> e.seq, shown |-> new, hidden |-> page.hidden]
        BY <2>1
      <3> HIDE DEF new
      <3> QED
        BY <1>0, <2>3, <3>1
    <2> HIDE DEF new
    <2>5. ASSUME NEW i \in 1 .. Len(old) PROVE old[i].seq < e.seq
      <3>1. old # <<>> /\ page.lastSeq = old[Len(old)].seq
        BY <1>0 DEF Growing
      <3>2. i = Len(old) \/ old[i].seq < old[Len(old)].seq
        BY <1>0 DEF Growing
      <3>3. Len(old) \in 1 .. Len(old)
        BY <1>0
      <3> QED
        BY <1>0, <1>2, <3>1, <3>2, <3>3
    <2>6. ASSUME NEW i \in 1 .. Len(new), NEW j \in 1 .. Len(new), i < j
          PROVE  new[i].seq < new[j].seq
      <3>1. i \in 1 .. Len(old) /\ new[i] = old[i]
        BY <1>0, <2>3, <2>6
      <3>2. CASE j = Len(old) + 1
        BY <2>3, <2>5, <3>1, <3>2
      <3>3. CASE j # Len(old) + 1
        <4>1. j \in 1 .. Len(old) /\ new[j] = old[j]
          BY <1>0, <2>3, <3>3
        <4> QED
          BY <2>6, <3>1, <4>1 DEF Growing
      <3> QED
        BY <3>2, <3>3
    <2>7. new # <<>> /\ new[Len(new)] = e
      BY <1>0, <2>3
    <2>8. Growing'
      BY <2>2, <2>6, <2>7 DEF Growing
    <2> QED
      BY <2>2, <2>3, <2>4, <2>8
  <1> QED
    BY <1>1, <1>2

\* The page refuses an event from the queue or the history for a reason.
LEMMA RefusedForAReason ==
  ASSUME TypeOK, Growing, HiddenForAReason, NEW e \in LogEvent, page' = AddLog(page, e),
         overtaken' = overtaken, late' = late,
         \/ e \in late
         \/ \A f \in ToSet(page.shown) :
              f.run <= e.run /\ (f.run = e.run /\ e.seq < f.seq => Excused(e))
  PROVE  HiddenForAReason'
  <1>1. page \in [lastSeq : Int, shown : Seq(LogEvent), hidden : SUBSET LogEvent]
    BY DEF TypeOK
  <1>2. /\ ToSet(page.shown) \subseteq ToSet(page'.shown)
        /\ page'.hidden \subseteq page.hidden \cup {e}
        /\ page'.hidden = page.hidden \/ \E f \in ToSet(page.shown) : f.seq >= e.seq
    BY <1>1, Added
  <1>3. ASSUME NEW d \in page.hidden
        PROVE  \/ d \in ToSet(page'.shown) \/ d \in overtaken' \/ d \in late'
               \/ \E f \in ToSet(page'.shown) : f.run < d.run /\ f.seq >= d.seq
    BY <1>2 DEF HiddenForAReason
  <1>4. ASSUME page'.hidden # page.hidden
        PROVE  \/ e \in ToSet(page'.shown) \/ e \in overtaken' \/ e \in late'
               \/ \E f \in ToSet(page'.shown) : f.run < e.run /\ f.seq >= e.seq
    <2>1. CASE e \in late
      BY <2>1
    <2>2. CASE e \notin late
      <3>1. PICK f \in ToSet(page.shown) : f.seq >= e.seq
        BY <1>2, <1>4
      <3>2. f \in LogEvent /\ f.seq \in Nat /\ f.run \in Nat /\ e.seq \in Nat /\ e.run \in Nat
        <4>1. page.shown \in Seq(LogEvent)
          BY <1>1
        <4>2. f \in LogEvent
          BY <3>1, <4>1, Members
        <4> QED
          BY <4>2 DEF LogEvent
      <3>3. f.run <= e.run /\ (f.run = e.run /\ e.seq < f.seq => Excused(e))
        BY <2>2
      <3>4. CASE f.run < e.run
        BY <1>2, <3>1, <3>4
      <3>5. CASE f.run = e.run /\ f.seq = e.seq
        <4>1. f = e
          BY <3>2, <3>5, SameEvent
        <4> QED
          BY <4>1, <1>2
      <3>6. CASE f.run = e.run /\ e.seq < f.seq
        <4>1. Excused(e)
          BY <3>3, <3>6
        <4>2. CASE e \in page.hidden
          BY <1>3, <4>2
        <4> QED
          BY <1>2, <4>1, <4>2 DEF Excused
      <3> QED
        BY <3>1, <3>2, <3>3, <3>4, <3>5, <3>6
    <2> QED
      BY <2>1, <2>2
  <1>5. ASSUME NEW d \in page'.hidden
        PROVE  \/ d \in ToSet(page'.shown) \/ d \in overtaken' \/ d \in late'
               \/ \E f \in ToSet(page'.shown) : f.run < d.run /\ f.seq >= d.seq
    BY <1>2, <1>3, <1>4
  <1> QED
    BY <1>5 DEF HiddenForAReason

-----------------------------------------------------------------------------
\* The ring pushes an event behind what it keeps.
LEMMA KeptIs ==
  ASSUME NEW s \in Seq(LogEvent), NEW e \in LogEvent
  PROVE  \E r \in Seq(LogEvent) :
           /\ Kept(s, e) = Append(r, e)
           /\ \/ r = s /\ Len(s) < RING_CAPACITY
              \/ r = Tail(s) /\ s # <<>> /\ Len(s) >= RING_CAPACITY
  <1>1. Len(s) \in Nat /\ RING_CAPACITY \in Nat \ {0}
    BY LogAssumption
  <1>2. CASE Len(s) >= RING_CAPACITY
    <2>1. s # <<>>
      BY <1>1, <1>2
    <2>2. Tail(s) \in Seq(LogEvent)
      BY <2>1, Shortened
    <2>3. Kept(s, e) = Append(Tail(s), e)
      BY <1>2, <2>2, Appended DEF Kept
    <2> QED
      BY <1>2, <2>1, <2>2, <2>3
  <1>3. CASE ~(Len(s) >= RING_CAPACITY)
    <2>1. Kept(s, e) = Append(s, e)
      BY <1>3, Appended DEF Kept
    <2> QED
      BY <1>1, <1>3, <2>1
  <1> QED
    BY <1>2, <1>3

\* What is on its way to the page after a thread sends its event.
LEMMA SentIs ==
  ASSUME TypeOK, NEW t \in Threads, Send(t)
  PROVE  /\ ev[t] \in LogEvent /\ Append(queue, ev[t]) \in Seq(LogEvent)
         /\ Append(queue, ev[t]) # <<>>
         /\ \/ ~rx /\ queue' = queue
            \/ rx /\ queue' = Append(queue, ev[t]) /\ Len(queue) < CHANNEL_CAPACITY
            \/ rx /\ queue' = Tail(Append(queue, ev[t])) /\ Len(queue) >= CHANNEL_CAPACITY
         /\ queue' \in Seq(LogEvent)
         /\ ToSet(queue') \subseteq ToSet(queue) \cup {ev[t]}
  <1>1. ev[t] \in LogEvent /\ queue \in Seq(LogEvent) /\ Len(queue) \in Nat
        /\ CHANNEL_CAPACITY \in Nat
    BY LogAssumption DEF TypeOK
  <1>2. /\ Append(queue, ev[t]) \in Seq(LogEvent)
        /\ Len(Append(queue, ev[t])) = Len(queue) + 1
        /\ ToSet(Append(queue, ev[t])) = ToSet(queue) \cup {ev[t]}
    BY <1>1, Appended
  <1> DEFINE all == Append(queue, ev[t])
  <1>3. queue' = IF ~rx THEN queue ELSE IF Len(all) > CHANNEL_CAPACITY THEN Tail(all) ELSE all
    BY DEF Send
  <1> HIDE DEF all
  <1>4. all # <<>> /\ Len(all) = Len(queue) + 1 /\ all \in Seq(LogEvent)
        /\ ToSet(all) = ToSet(queue) \cup {ev[t]}
    BY <1>1, <1>2 DEF all
  <1>5. Tail(all) \in Seq(LogEvent) /\ ToSet(all) = ToSet(Tail(all)) \cup {Head(all)}
    BY <1>4, Shortened
  <1>6. IF Len(all) > CHANNEL_CAPACITY THEN Len(queue) >= CHANNEL_CAPACITY
                                        ELSE Len(queue) < CHANNEL_CAPACITY
    BY <1>1, <1>4
  <1>7. /\ \/ ~rx /\ queue' = queue
           \/ rx /\ queue' = all /\ Len(queue) < CHANNEL_CAPACITY
           \/ rx /\ queue' = Tail(all) /\ Len(queue) >= CHANNEL_CAPACITY
        /\ queue' \in Seq(LogEvent)
        /\ ToSet(queue') \subseteq ToSet(queue) \cup {ev[t]}
    BY <1>1, <1>3, <1>4, <1>5, <1>6
  <1> QED
    BY <1>1, <1>4, <1>7 DEF all

LEMMA TypeInit == Init => TypeOK
  <1> SUFFICES ASSUME Init PROVE TypeOK
    OBVIOUS
  <1>1. \A S : <<>> \in Seq(S)
    OBVIOUS
  <1>2. [run |-> 0, seq |-> 0] \in LogEvent
    BY DEF LogEvent
  <1>3. at \in [Threads -> {"idle", "ring", "send"}] /\ ev \in [Threads -> LogEvent]
    BY <1>2 DEF Init
  <1>4. page \in [lastSeq : Int, shown : Seq(LogEvent), hidden : SUBSET LogEvent]
    BY <1>1 DEF Init
  <1> QED
    BY <1>1, <1>2, <1>3, <1>4 DEF Init, TypeOK

\* Every step keeps the types.
LEMMA TypeStep ==
  ASSUME TypeOK, [Next]_vars, Growing
  PROVE  TypeOK'
  <1> USE DEF hub, browser, history
  <1>0. /\ run \in Nat /\ SEQ \in Nat /\ faults \in Nat
        /\ sent \in Nat /\ pushed \in Nat /\ taken \in Nat
        /\ page \in [lastSeq : Int, shown : Seq(LogEvent), hidden : SUBSET LogEvent]
        /\ ring \in Seq(LogEvent) /\ queue \in Seq(LogEvent) /\ list \in Seq(LogEvent)
    BY DEF TypeOK
  <1>1. ASSUME NEW t \in Threads, TakeNumber(t) PROVE TypeOK'
    <2>1. [run |-> run, seq |-> SEQ] \in LogEvent
      BY <1>0 DEF LogEvent
    <2> QED
      BY <1>1, <2>1 DEF TakeNumber, TypeOK
  <1>2. ASSUME NEW t \in Threads, Push(t) PROVE TypeOK'
    <2>1. ev[t] \in LogEvent /\ Overtaken(t) \subseteq LogEvent
      BY DEF TypeOK, Overtaken
    <2>2. PICK r \in Seq(LogEvent) : ring' = Append(r, ev[t])
      BY <1>0, <1>2, <2>1, KeptIs DEF Push
    <2>3. ring' \in Seq(LogEvent)
      BY <2>1, <2>2, Appended
    <2>4. ToSet(ring) \subseteq LogEvent
      BY <1>0, Members
    <2> QED
      BY <1>2, <2>1, <2>3, <2>4 DEF Push, TypeOK
  <1>3. ASSUME NEW t \in Threads, Send(t) PROVE TypeOK'
    <2>1. ev[t] \in LogEvent /\ Overtaken(t) \subseteq LogEvent
      BY DEF TypeOK, Overtaken
    <2>2. queue' \in Seq(LogEvent)
      BY <1>3, SentIs
    <2>3. causes' \subseteq {"lag", "gap", "break", "restart", "liveFirst"}
      BY <1>3 DEF Send, TypeOK
    <2>4. heard' \subseteq LogEvent
      BY <1>3, <2>1 DEF Send, TypeOK
    <2> QED
      BY <1>3, <2>1, <2>2, <2>3, <2>4 DEF Send, TypeOK
  <1>4. ASSUME Subscribe PROVE TypeOK'
    BY <1>4 DEF Subscribe, TypeOK
  <1>5. ASSUME History PROVE TypeOK'
    BY <1>5 DEF History, TypeOK
  <1>6. ASSUME ShowHistory PROVE TypeOK'
    <2>1. ToSet(list) \subseteq LogEvent
      BY <1>0, Members
    <2> QED
      BY <1>6, <2>1 DEF ShowHistory, TypeOK
  <1>7. ASSUME ShowNext PROVE TypeOK'
    <2>1. Tail(list) \in Seq(LogEvent) /\ Head(list) \in LogEvent
      BY <1>0, <1>7, Shortened DEF ShowNext
    <2>2. page' \in [lastSeq : Int, shown : Seq(LogEvent), hidden : SUBSET LogEvent]
      BY <1>0, <1>7, <2>1, Added DEF ShowNext
    <2> QED
      BY <1>7, <2>1, <2>2 DEF ShowNext, TypeOK
  <1>8. ASSUME HistoryShown PROVE TypeOK'
    BY <1>8 DEF HistoryShown, TypeOK
  <1>9. ASSUME ShowLive PROVE TypeOK'
    <2>1. Tail(queue) \in Seq(LogEvent) /\ Head(queue) \in LogEvent
      BY <1>0, <1>9, Shortened DEF ShowLive
    <2>2. page' \in [lastSeq : Int, shown : Seq(LogEvent), hidden : SUBSET LogEvent]
      BY <1>0, <1>9, <2>1, Added DEF ShowLive
    <2> QED
      BY <1>9, <2>1, <2>2 DEF ShowLive, TypeOK
  <1>10. ASSUME StreamBreaks PROVE TypeOK'
    <2>1. <<>> \in Seq(LogEvent)
      OBVIOUS
    <2>2. causes' \subseteq {"lag", "gap", "break", "restart", "liveFirst"} /\ faults' \in Nat
      BY <1>0, <1>10 DEF StreamBreaks, TypeOK
    <2> QED
      BY <1>10, <2>1, <2>2 DEF StreamBreaks, TypeOK
  <1>11. ASSUME HostRestarts PROVE TypeOK'
    <2>1. <<>> \in Seq(LogEvent)
      OBVIOUS
    <2>2. causes' \subseteq {"lag", "gap", "break", "restart", "liveFirst"}
          /\ faults' \in Nat /\ run' \in Nat
      BY <1>0, <1>11 DEF HostRestarts, TypeOK
    <2>3. /\ at' \in [Threads -> {"idle", "ring", "send"}]
          /\ hist' \in {"asked", "got", "showing", "done", "failed"}
      BY <1>11 DEF HostRestarts, TypeOK
    <2> QED
      BY <1>11, <2>1, <2>2, <2>3 DEF HostRestarts, TypeOK
  <1>12. CASE UNCHANGED vars
    BY <1>12 DEF vars, TypeOK
  <1> QED
    BY <1>1, <1>2, <1>3, <1>4, <1>5, <1>6, <1>7, <1>8, <1>9, <1>10, <1>11, <1>12
    DEF Next, Publish, LoadHistory

-----------------------------------------------------------------------------
\* A step that leaves the page alone, and puts on its way to it only an event
\* that is overtaken by what the page has.
LEMMA PageKept ==
  ASSUME TypeOK, UNCHANGED <<page, list>>, hist' = "showing" => hist = "showing",
         overtaken \subseteq overtaken', late \subseteq late',
         \A e \in ToSet(queue') \ ToSet(queue) : \A f \in ToSet(page.shown) \cup ToSet(list) :
           f.run = e.run /\ e.seq < f.seq => e \in overtaken',
         BehindShown, BehindList, OfHistory, HiddenForAReason
  PROVE  BehindShown' /\ BehindList' /\ OfHistory' /\ HiddenForAReason'
  <1>1. ASSUME NEW e, Excused(e) PROVE Excused(e)'
    BY <1>1 DEF Excused
  <1>2. ASSUME NEW e, e \in overtaken' PROVE Excused(e)'
    BY <1>2 DEF Excused
  <1>3. BehindShown'
    <2> SUFFICES ASSUME NEW e \in ToSet(queue'), NEW f \in ToSet(page.shown),
                        f.run = e.run, e.seq < f.seq
                 PROVE  Excused(e)'
      BY DEF BehindShown
    <2>1. CASE e \in ToSet(queue)
      BY <1>1, <2>1 DEF BehindShown
    <2>2. CASE e \notin ToSet(queue)
      BY <1>2, <2>2
    <2> QED
      BY <2>1, <2>2
  <1>4. BehindList'
    <2> SUFFICES ASSUME NEW e \in ToSet(queue'), NEW j \in 1 .. Len(list),
                        list[j].run = e.run, e.seq < list[j].seq
                 PROVE  Excused(e)' \/ \E i \in 1 .. j - 1 : list[i] = e
      BY DEF BehindList
    <2>1. CASE e \in ToSet(queue)
      BY <1>1, <2>1 DEF BehindList
    <2>2. CASE e \notin ToSet(queue)
      <3>1. list \in Seq(LogEvent)
        BY DEF TypeOK
      <3>2. list[j] \in ToSet(list)
        BY <3>1, Members
      <3> QED
        BY <1>2, <2>2, <3>2
    <2> QED
      BY <2>1, <2>2
  <1>5. OfHistory'
    BY DEF OfHistory
  <1>6. HiddenForAReason'
    BY DEF HiddenForAReason
  <1> QED
    BY <1>3, <1>4, <1>5, <1>6

LEMMA PlacedEvents == TypeOK => Placed \subseteq LogEvent
  <1> SUFFICES ASSUME TypeOK PROVE Placed \subseteq LogEvent
    OBVIOUS
  <1>1. ToSet(ring) \subseteq LogEvent
    BY Members DEF TypeOK
  <1>2. ToSet(queue) \subseteq LogEvent
    BY Members DEF TypeOK
  <1>3. ToSet(list) \subseteq LogEvent
    BY Members DEF TypeOK
  <1>4. page.shown \in Seq(LogEvent)
    BY DEF TypeOK
  <1>5. ToSet(page.shown) \subseteq LogEvent
    BY <1>4, Members
  <1> QED
    BY <1>1, <1>2, <1>3, <1>5 DEF Placed

\* A thread takes a number: nothing placed has one as large.
LEMMA HiddenTake ==
  ASSUME HiddenInv, NEW t \in Threads, TakeNumber(t)
  PROVE  Numbers' /\ Past' /\ Behind' /\ Hub' /\ BehindShown' /\ BehindList'
         /\ OfHistory' /\ HiddenForAReason'
  <1>0. /\ TypeOK /\ Numbers /\ Past /\ Behind /\ Hub
        /\ BehindShown /\ BehindList /\ OfHistory /\ HiddenForAReason
    BY DEF HiddenInv
  <1>1. /\ run' = run /\ SEQ' = SEQ + 1 /\ SEQ \in Nat
        /\ UNCHANGED <<ring, queue, list, page, hist, overtaken, dropped, late>>
        /\ at[t] = "idle" /\ at'[t] = "ring" /\ ev'[t].run = run /\ ev'[t].seq = SEQ
        /\ \A u \in Threads : u # t => at'[u] = at[u] /\ ev'[u] = ev[u]
        /\ \A u \in Threads : ev[u].seq \in Nat
    BY <1>0 DEF TakeNumber, TypeOK, browser, history, LogEvent
  <1>2. Placed' = Placed
    BY <1>1 DEF Placed
  <1>3. ASSUME NEW f \in Placed PROVE f.seq \in Nat
    BY <1>0, <1>3, PlacedEvents DEF LogEvent
  <1>4. Numbers'
    BY <1>0, <1>1 DEF Numbers, Busy
  <1>5. Past'
    BY <1>0, <1>1, <1>2, <1>3 DEF Past
  <1>6. Behind'
    BY <1>0, <1>1, <1>2, <1>3 DEF Behind, Past, Busy
  <1>7. Hub'
    BY <1>0, <1>1 DEF Hub, Turned, OfOneRun
  <1>8. BehindShown' /\ BehindList' /\ OfHistory' /\ HiddenForAReason'
    BY <1>0, <1>1, PageKept
  <1> QED
    BY <1>4, <1>5, <1>6, <1>7, <1>8

\* A thread pushes its event: who still has a smaller number is overtaken now,
\* and it is itself if the ring holds a larger one.
LEMMA HiddenPush ==
  ASSUME HiddenInv, NEW t \in Threads, Push(t)
  PROVE  Numbers' /\ Past' /\ Behind' /\ Hub' /\ BehindShown' /\ BehindList'
         /\ OfHistory' /\ HiddenForAReason'
  <1>0. /\ TypeOK /\ Numbers /\ Past /\ Behind /\ Hub
        /\ BehindShown /\ BehindList /\ OfHistory /\ HiddenForAReason
    BY DEF HiddenInv
  <1>1. /\ UNCHANGED <<run, SEQ, ev, queue, list, page, hist, late>>
        /\ ring' = Kept(ring, ev[t])
        /\ dropped' = dropped \cup (ToSet(ring) \ ToSet(ring'))
        /\ overtaken' = overtaken \cup Overtaken(t)
        /\ at[t] = "ring" /\ at'[t] = "send"
        /\ \A u \in Threads : u # t => at'[u] = at[u]
        /\ ring \in Seq(LogEvent) /\ ev[t] \in LogEvent
    BY <1>0 DEF Push, TypeOK, browser
  <1>2. PICK r \in Seq(LogEvent) :
          /\ ring' = Append(r, ev[t])
          /\ r = ring \/ (r = Tail(ring) /\ ring # <<>>)
    <2>1. \E r \in Seq(LogEvent) :
            /\ Kept(ring, ev[t]) = Append(r, ev[t])
            /\ \/ r = ring /\ Len(ring) < RING_CAPACITY
               \/ r = Tail(ring) /\ ring # <<>> /\ Len(ring) >= RING_CAPACITY
      BY <1>1, KeptIs
    <2> QED
      BY <1>1, <2>1
  <1>3. ToSet(r) \subseteq ToSet(ring) /\ Turned(r, overtaken)
    BY <1>0, <1>1, <1>2, Shortened, TurnedTail DEF Hub
  <1>4. ToSet(ring') = ToSet(r) \cup {ev[t]}
    BY <1>1, <1>2, Appended
  <1>5. ev[t].run = run /\ ev[t].seq < SEQ
    BY <1>0, <1>1 DEF Numbers, Busy
  <1>6. \A u \in Threads : Busy(u)' <=> Busy(u)
    BY <1>1 DEF Busy
  <1>7. Placed' \subseteq Placed \cup {ev[t]} /\ ToSet(ring) \subseteq Placed
    BY <1>1, <1>3, <1>4 DEF Placed
  <1>8. Numbers'
    BY <1>0, <1>1, <1>6 DEF Numbers
  <1>9. Past'
    <2>1. ev[t].run <= run
      BY <1>0, <1>5 DEF TypeOK
    <2> QED
      BY <1>0, <1>1, <1>5, <1>7, <2>1 DEF Past
  <1>10. Behind'
    <2> SUFFICES ASSUME NEW u \in Threads, NEW f \in Placed', Busy(u), f.run = run,
                        ev[u].seq < f.seq
                 PROVE  ev[u] \in overtaken'
      BY <1>1, <1>6 DEF Behind
    <2>1. CASE f \in Placed
      BY <1>0, <1>1, <2>1 DEF Behind
    <2>2. CASE f = ev[t]
      BY <1>1, <2>2 DEF Overtaken, Busy
    <2> QED
      BY <1>7, <2>1, <2>2
  <1>11. Hub'
    <2>1. ToSet(ring) \cup dropped \subseteq ToSet(ring') \cup dropped'
      BY <1>1
    <2>2. \A e \in ToSet(ring') \cup ToSet(queue') : e.run = run'
      BY <1>0, <1>1, <1>3, <1>4, <1>5 DEF Hub
    <2>3. ToSet(queue') \subseteq ToSet(ring') \cup dropped'
      BY <1>0, <1>1, <2>1 DEF Hub
    <2>4. \A u \in Threads : at'[u] = "send" => ev'[u] \in ToSet(ring') \cup dropped'
      BY <1>0, <1>1, <1>4, <2>1 DEF Hub
    <2>5. overtaken \subseteq overtaken'
      BY <1>1
    <2>6. Turned(queue', overtaken') /\ Turned(list', overtaken')
      BY <1>0, <1>1, <2>5, TurnedMore DEF Hub
    <2>7. \A f \in ToSet(r) : ev[t].seq < f.seq => ev[t] \in overtaken
      BY <1>0, <1>1, <1>3, <1>7 DEF Behind, Busy, Hub
    <2>8. Turned(ring', overtaken)
      BY <1>1, <1>2, <1>3, <2>7, TurnedAppend
    <2>9. Turned(ring', overtaken')
      BY <2>5, <2>8, TurnedMore
    <2>10. OfOneRun(list)'
      BY <1>0, <1>1 DEF Hub, OfOneRun
    <2> QED
      BY <2>2, <2>3, <2>4, <2>6, <2>9, <2>10 DEF Hub
  <1>12. BehindShown' /\ BehindList' /\ OfHistory' /\ HiddenForAReason'
    BY <1>0, <1>1, PageKept
  <1> QED
    BY <1>8, <1>9, <1>10, <1>11, <1>12

\* A thread sends its event: it is overtaken if the page has a larger one.
LEMMA HiddenSend ==
  ASSUME HiddenInv, NEW t \in Threads, Send(t)
  PROVE  Numbers' /\ Past' /\ Behind' /\ Hub' /\ BehindShown' /\ BehindList'
         /\ OfHistory' /\ HiddenForAReason'
  <1>0. /\ TypeOK /\ Numbers /\ Past /\ Behind /\ Hub
        /\ BehindShown /\ BehindList /\ OfHistory /\ HiddenForAReason
    BY DEF HiddenInv
  <1>1. /\ UNCHANGED <<run, SEQ, ring, ev, list, page, hist, dropped, late>>
        /\ overtaken' = overtaken \cup Overtaken(t)
        /\ at[t] = "send" /\ at'[t] = "idle"
        /\ \A u \in Threads : u # t => at'[u] = at[u]
        /\ queue \in Seq(LogEvent) /\ ev[t] \in LogEvent
    BY <1>0 DEF Send, TypeOK, browser
  <1>2. /\ Append(queue, ev[t]) \in Seq(LogEvent) /\ Append(queue, ev[t]) # <<>>
        /\ \/ queue' = queue \/ queue' = Append(queue, ev[t])
           \/ queue' = Tail(Append(queue, ev[t]))
        /\ ToSet(queue') \subseteq ToSet(queue) \cup {ev[t]}
    BY <1>0, SentIs
  <1>3. ev[t].run = run /\ ev[t].seq < SEQ
    BY <1>0, <1>1 DEF Numbers, Busy
  <1>4. \A u \in Threads : Busy(u)' => Busy(u)
    BY <1>1 DEF Busy
  <1>5. Placed' \subseteq Placed \cup {ev[t]}
    BY <1>1, <1>2 DEF Placed
  <1>6. \A f \in Placed : f.run = run /\ ev[t].seq < f.seq => ev[t] \in overtaken
    BY <1>0, <1>1 DEF Behind, Busy
  <1>7. Numbers'
    BY <1>0, <1>1, <1>4 DEF Numbers
  <1>8. Past'
    <2>1. ev[t].run <= run
      BY <1>0, <1>3 DEF TypeOK
    <2> QED
      BY <1>0, <1>1, <1>3, <1>5, <2>1 DEF Past
  <1>9. Behind'
    <2> SUFFICES ASSUME NEW u \in Threads, NEW f \in Placed', Busy(u), f.run = run,
                        ev[u].seq < f.seq
                 PROVE  ev[u] \in overtaken'
      BY <1>1, <1>4 DEF Behind
    <2>1. CASE f \in Placed
      BY <1>0, <1>1, <2>1 DEF Behind
    <2>2. CASE f = ev[t]
      BY <1>1, <2>2 DEF Overtaken, Busy
    <2> QED
      BY <1>5, <2>1, <2>2
  <1>10. Hub'
    <2>1. \A e \in ToSet(ring') \cup ToSet(queue') : e.run = run'
      BY <1>0, <1>1, <1>2, <1>3 DEF Hub
    <2>2. ToSet(queue') \subseteq ToSet(ring') \cup dropped'
      BY <1>0, <1>1, <1>2 DEF Hub
    <2>3. \A u \in Threads : at'[u] = "send" => ev'[u] \in ToSet(ring') \cup dropped'
      BY <1>0, <1>1 DEF Hub
    <2>4. overtaken \subseteq overtaken'
      BY <1>1
    <2>5. Turned(ring', overtaken') /\ Turned(list', overtaken')
      BY <1>0, <1>1, <2>4, TurnedMore DEF Hub
    <2>6. \A f \in ToSet(queue) : ev[t].seq < f.seq => ev[t] \in overtaken
      BY <1>0, <1>6 DEF Hub, Placed
    <2>7. Turned(queue, overtaken)
      BY <1>0 DEF Hub
    <2>8. Turned(Append(queue, ev[t]), overtaken)
      BY <1>1, <2>6, <2>7, TurnedAppend
    <2>9. Turned(Tail(Append(queue, ev[t])), overtaken)
      BY <1>2, <2>8, TurnedTail
    <2>10. Turned(queue', overtaken)
      BY <1>2, <2>7, <2>8, <2>9
    <2>11. Turned(queue', overtaken')
      BY <2>4, <2>10, TurnedMore
    <2>12. OfOneRun(list)'
      BY <1>0, <1>1 DEF Hub, OfOneRun
    <2> QED
      BY <2>1, <2>2, <2>3, <2>5, <2>11, <2>12 DEF Hub
  <1>11. \A e \in ToSet(queue') \ ToSet(queue) : \A f \in ToSet(page.shown) \cup ToSet(list) :
           f.run = e.run /\ e.seq < f.seq => e \in overtaken'
    BY <1>1, <1>2, <1>3, <1>6 DEF Placed
  <1>12. BehindShown' /\ BehindList' /\ OfHistory' /\ HiddenForAReason'
    BY <1>0, <1>1, <1>11, PageKept
  <1> QED
    BY <1>7, <1>8, <1>9, <1>10, <1>12

\* Excused events stay so while the page and the reasons grow.
LEMMA ExcusedKept ==
  ASSUME overtaken \subseteq overtaken', late \subseteq late',
         ToSet(page.shown) \subseteq ToSet(page'.shown), page.hidden \subseteq page'.hidden
  PROVE  \A e : Excused(e) => Excused(e)'
  BY DEF Excused

\* The history is answered: a live event on its way is in it, or the ring has
\* given it up.
LEMMA HiddenHistory ==
  ASSUME HiddenInv, History
  PROVE  Numbers' /\ Past' /\ Behind' /\ Hub' /\ BehindShown' /\ BehindList'
         /\ OfHistory' /\ HiddenForAReason'
  <1>0. /\ TypeOK /\ Numbers /\ Past /\ Behind /\ Hub
        /\ BehindShown /\ BehindList /\ OfHistory /\ HiddenForAReason
    BY DEF HiddenInv
  <1>1. /\ UNCHANGED <<run, SEQ, ring, at, ev, queue, page, overtaken, dropped>>
        /\ hist' = "got" /\ list' = ring /\ late' = late \cup dropped
        /\ ring \in Seq(LogEvent) /\ Len(ring) \in Nat
    BY <1>0 DEF History, TypeOK, hub
  <1>2. Placed' \subseteq Placed
    BY <1>1 DEF Placed
  <1>3. Numbers' /\ Past' /\ Behind'
    BY <1>0, <1>1, <1>2 DEF Numbers, Past, Behind, Busy
  <1>4. Hub'
    <2>1. \A i, j \in 1 .. Len(ring) : ring[i].run = ring[j].run
      BY <1>0, <1>1, Members DEF Hub
    <2>2. OfOneRun(list)'
      BY <1>1, <2>1 DEF OfOneRun
    <2> QED
      BY <1>0, <1>1, <2>2 DEF Hub
  <1>5. \A e : Excused(e) => Excused(e)'
    BY <1>1, ExcusedKept
  <1>6. BehindShown'
    BY <1>0, <1>1, <1>5 DEF BehindShown
  <1>7. BehindList'
    <2> SUFFICES ASSUME NEW e \in ToSet(queue), NEW j \in 1 .. Len(ring),
                        e.seq < ring[j].seq
                 PROVE  Excused(e)' \/ \E i \in 1 .. j - 1 : ring[i] = e
      BY <1>1 DEF BehindList
    <2>1. CASE e \in dropped
      BY <1>1, <2>1 DEF Excused
    <2>2. CASE e \in ToSet(ring)
      <3>1. PICK i \in 1 .. Len(ring) : ring[i] = e
        BY <1>1, <2>2, Members
      <3>2. e.seq \in Nat /\ ring[j].seq \in Nat
        <4>1. ring[i] \in LogEvent /\ ring[j] \in LogEvent
          BY <1>1
        <4> QED
          BY <3>1, <4>1 DEF LogEvent
      <3>3. i # j
        BY <3>1, <3>2
      <3>4. CASE i < j
        <4>1. i \in 1 .. j - 1
          BY <1>1, <3>4
        <4> QED
          BY <3>1, <4>1
      <3>5. CASE j < i
        <4>1. ring[i] \in overtaken
          BY <1>0, <3>1, <3>5 DEF Hub, Turned
        <4> QED
          BY <1>1, <3>1, <4>1 DEF Excused
      <3> QED
        BY <1>1, <3>3, <3>4, <3>5
    <2> QED
      BY <1>0, <2>1, <2>2 DEF Hub
  <1>8. OfHistory' /\ HiddenForAReason'
    BY <1>0, <1>1 DEF OfHistory, HiddenForAReason
  <1> QED
    BY <1>3, <1>4, <1>6, <1>7, <1>8

\* The page begins to show the history: if it shows nothing yet, all it shows
\* will be of the history.
LEMMA HiddenShow ==
  ASSUME HiddenInv, ShowHistory
  PROVE  Numbers' /\ Past' /\ Behind' /\ Hub' /\ BehindShown' /\ BehindList'
         /\ OfHistory' /\ HiddenForAReason'
  <1>0. /\ TypeOK /\ Numbers /\ Past /\ Behind /\ Hub
        /\ BehindShown /\ BehindList /\ OfHistory /\ HiddenForAReason
    BY DEF HiddenInv
  <1>1. /\ UNCHANGED <<run, SEQ, ring, at, ev, queue, list, page, overtaken, dropped>>
        /\ hist' = "showing"
        /\ late' = IF page.shown = <<>> THEN late ELSE late \cup ToSet(list)
    BY DEF ShowHistory, hub
  <1>2. Placed' = Placed /\ late \subseteq late'
    BY <1>1 DEF Placed
  <1>3. Numbers' /\ Past' /\ Behind'
    BY <1>0, <1>1, <1>2 DEF Numbers, Past, Behind, Busy
  <1>4. Hub'
    BY <1>0, <1>1 DEF Hub, OfOneRun
  <1>5. \A e : Excused(e) => Excused(e)'
    BY <1>1, <1>2, ExcusedKept
  <1>6. BehindShown' /\ BehindList'
    BY <1>0, <1>1, <1>5 DEF BehindShown, BehindList
  <1>7. OfHistory'
    BY <1>1, EmptySet DEF OfHistory
  <1>8. HiddenForAReason'
    BY <1>0, <1>1, <1>2 DEF HiddenForAReason
  <1> QED
    BY <1>3, <1>4, <1>6, <1>7, <1>8

\* The page goes on through the history.
LEMMA HiddenNext ==
  ASSUME HiddenInv, ShowNext
  PROVE  Numbers' /\ Past' /\ Behind' /\ Hub' /\ BehindShown' /\ BehindList'
         /\ OfHistory' /\ HiddenForAReason'
  <1>0. /\ TypeOK /\ Growing /\ Numbers /\ Past /\ Behind /\ Hub
        /\ BehindShown /\ BehindList /\ OfHistory /\ HiddenForAReason
    BY DEF HiddenInv
  <1>1. PICK h : h = Head(list)
    OBVIOUS
  <1>2. /\ UNCHANGED <<run, SEQ, ring, at, ev, queue, overtaken, dropped, late, hist>>
        /\ hist = "showing" /\ list # <<>>
        /\ list' = Tail(list) /\ page' = AddLog(page, h)
        /\ list \in Seq(LogEvent)
        /\ page \in [lastSeq : Int, shown : Seq(LogEvent), hidden : SUBSET LogEvent]
    BY <1>0, <1>1 DEF ShowNext, TypeOK, hub, history
  <1>3. /\ Tail(list) \in Seq(LogEvent) /\ Len(Tail(list)) = Len(list) - 1
        /\ Len(list) \in Nat \ {0}
        /\ \A i \in 1 .. Len(list) - 1 : Tail(list)[i] = list[i + 1]
        /\ h = list[1] /\ h \in LogEvent
        /\ ToSet(list) = ToSet(Tail(list)) \cup {h}
    BY <1>2, <1>1, Shortened
  <1>4. /\ ToSet(page'.shown) \subseteq ToSet(page.shown) \cup {h}
        /\ ToSet(page.shown) \subseteq ToSet(page'.shown)
        /\ page.hidden \subseteq page'.hidden
        /\ h \in ToSet(page'.shown) \/ h \in page'.hidden
    BY <1>0, <1>2, <1>3, Added
  <1>5. Placed' \subseteq Placed
    BY <1>2, <1>3, <1>4 DEF Placed
  <1>6. Numbers' /\ Past' /\ Behind'
    BY <1>0, <1>2, <1>5 DEF Numbers, Past, Behind, Busy
  <1>7. Hub'
    <2>1. Turned(list', overtaken')
      BY <1>0, <1>2, TurnedTail DEF Hub
    <2>2. OfOneRun(list)'
      BY <1>0, <1>2, <1>3 DEF Hub, OfOneRun
    <2> QED
      BY <1>0, <1>2, <2>1, <2>2 DEF Hub
  <1>8. \A e : Excused(e) => Excused(e)'
    BY <1>2, <1>4, ExcusedKept
  <1>9. Excused(h)'
    BY <1>4 DEF Excused
  <1>10. BehindShown'
    <2> SUFFICES ASSUME NEW e \in ToSet(queue), NEW f \in ToSet(page'.shown),
                        f.run = e.run, e.seq < f.seq
                 PROVE  Excused(e)'
      BY <1>2 DEF BehindShown
    <2>1. CASE f \in ToSet(page.shown)
      BY <1>0, <1>8, <2>1 DEF BehindShown
    <2>2. CASE f = h
      <3>1. 1 \in 1 .. Len(list) /\ ~ \E i \in 1 .. 1 - 1 : list[i] = e
        BY <1>3
      <3>2. Excused(e)
        BY <1>0, <1>3, <2>2, <3>1 DEF BehindList
      <3> QED
        BY <1>8, <3>2
    <2> QED
      BY <1>4, <2>1, <2>2
  <1>11. BehindList'
    <2> SUFFICES ASSUME NEW e \in ToSet(queue), NEW j \in 1 .. Len(list) - 1,
                        list[j + 1].run = e.run, e.seq < list[j + 1].seq
                 PROVE  Excused(e)' \/ \E i \in 1 .. j - 1 : Tail(list)[i] = e
      BY <1>2, <1>3 DEF BehindList
    <2>1. j + 1 \in 1 .. Len(list)
      BY <1>3
    <2>2. Excused(e) \/ \E i \in 1 .. (j + 1) - 1 : list[i] = e
      BY <1>0, <2>1 DEF BehindList
    <2>3. ASSUME NEW i \in 1 .. (j + 1) - 1, list[i] = e
          PROVE  Excused(e)' \/ \E k \in 1 .. j - 1 : Tail(list)[k] = e
      <3>1. CASE i = 1
        BY <1>3, <1>9, <2>3, <3>1
      <3>2. CASE i # 1
        <4>1. i - 1 \in 1 .. j - 1 /\ i - 1 \in 1 .. Len(list) - 1 /\ (i - 1) + 1 = i
          BY <1>3, <3>2
        <4>2. Tail(list)[i - 1] = e
          BY <1>3, <2>3, <4>1
        <4> QED
          BY <4>1, <4>2
      <3> QED
        BY <3>1, <3>2
    <2> QED
      BY <1>8, <2>2, <2>3
  <1>12. OfHistory'
    <2>1. CASE ToSet(list) \subseteq late
      BY <1>2, <1>3, <2>1 DEF OfHistory
    <2>2. CASE ~(ToSet(list) \subseteq late)
      <3>1. ASSUME NEW f \in ToSet(page'.shown), NEW e \in ToSet(Tail(list))
            PROVE  f.run = e.run /\ (e.seq < f.seq => e \in overtaken)
        <4>1. CASE f \in ToSet(page.shown)
          BY <1>0, <1>2, <1>3, <2>2, <4>1 DEF OfHistory
        <4>2. CASE f = h
          <5>1. PICK i \in 1 .. Len(list) - 1 : Tail(list)[i] = e
            <6> DEFINE s == Tail(list)
            <6>1. s \in Seq(LogEvent) /\ e \in ToSet(s) /\ Len(s) = Len(list) - 1
              BY <1>3
            <6> HIDE DEF s
            <6>2. \E i \in 1 .. Len(s) : s[i] = e
              BY <6>1, Members
            <6> QED
              BY <6>1, <6>2 DEF s
          <5>2. i + 1 \in 1 .. Len(list) /\ 1 \in 1 .. Len(list) /\ 1 < i + 1 /\ list[i + 1] = e
            BY <1>3, <5>1
          <5> QED
            BY <1>0, <1>3, <4>2, <5>2 DEF Hub, Turned, OfOneRun
        <4> QED
          BY <1>4, <4>1, <4>2
      <3> QED
        BY <1>2, <3>1 DEF OfHistory
    <2> QED
      BY <2>1, <2>2
  <1>13. HiddenForAReason'
    <2>1. h \in ToSet(list) /\ h.run \in Nat
      BY <1>3 DEF LogEvent
    <2>2. \/ h \in late
          \/ \A f \in ToSet(page.shown) :
               f.run <= h.run /\ (f.run = h.run /\ h.seq < f.seq => Excused(h))
      BY <1>0, <1>2, <2>1 DEF OfHistory, Excused
    <2> QED
      BY <1>0, <1>2, <1>3, <2>2, RefusedForAReason
  <1> QED
    BY <1>6, <1>7, <1>10, <1>11, <1>12, <1>13

\* The page gets a live event.
LEMMA HiddenLive ==
  ASSUME HiddenInv, ShowLive
  PROVE  Numbers' /\ Past' /\ Behind' /\ Hub' /\ BehindShown' /\ BehindList'
         /\ OfHistory' /\ HiddenForAReason'
  <1>0. /\ TypeOK /\ Growing /\ Numbers /\ Past /\ Behind /\ Hub
        /\ BehindShown /\ BehindList /\ OfHistory /\ HiddenForAReason
    BY DEF HiddenInv
  <1> DEFINE h == Head(queue)
  <1>1. /\ UNCHANGED <<run, SEQ, ring, at, ev, list, overtaken, dropped, late, hist>>
        /\ hist # "showing" /\ queue # <<>>
        /\ queue' = Tail(queue) /\ page' = AddLog(page, h)
        /\ queue \in Seq(LogEvent)
        /\ page \in [lastSeq : Int, shown : Seq(LogEvent), hidden : SUBSET LogEvent]
    BY <1>0 DEF ShowLive, TypeOK, hub, history
  <1>2. /\ Tail(queue) \in Seq(LogEvent) /\ Len(Tail(queue)) = Len(queue) - 1
        /\ Len(queue) \in Nat \ {0}
        /\ \A i \in 1 .. Len(queue) - 1 : Tail(queue)[i] = queue[i + 1]
        /\ h = queue[1] /\ h \in LogEvent
        /\ ToSet(queue) = ToSet(Tail(queue)) \cup {h}
    BY <1>1, Shortened
  <1> HIDE DEF h
  <1>3. /\ ToSet(page'.shown) \subseteq ToSet(page.shown) \cup {h}
        /\ ToSet(page.shown) \subseteq ToSet(page'.shown)
        /\ page.hidden \subseteq page'.hidden
    BY <1>0, <1>1, <1>2, Added
  <1>4. Placed' \subseteq Placed
    BY <1>1, <1>2, <1>3 DEF Placed
  <1>5. Numbers' /\ Past' /\ Behind'
    BY <1>0, <1>1, <1>4 DEF Numbers, Past, Behind, Busy
  <1>6. Hub'
    <2>1. Turned(queue', overtaken')
      BY <1>0, <1>1, TurnedTail DEF Hub
    <2>2. OfOneRun(list)'
      BY <1>0, <1>1 DEF Hub, OfOneRun
    <2> QED
      BY <1>0, <1>1, <1>2, <2>1, <2>2 DEF Hub
  <1>7. \A e : Excused(e) => Excused(e)'
    BY <1>1, <1>3, ExcusedKept
  <1>8. BehindShown'
    <2> SUFFICES ASSUME NEW e \in ToSet(Tail(queue)), NEW f \in ToSet(page'.shown),
                        f.run = e.run, e.seq < f.seq
                 PROVE  Excused(e)'
      BY <1>1 DEF BehindShown
    <2>1. CASE f \in ToSet(page.shown)
      BY <1>0, <1>2, <1>7, <2>1 DEF BehindShown
    <2>2. CASE f = h
      <3>1. PICK i \in 1 .. Len(queue) - 1 : Tail(queue)[i] = e
        <4> DEFINE s == Tail(queue)
        <4>1. s \in Seq(LogEvent) /\ e \in ToSet(s) /\ Len(s) = Len(queue) - 1
          BY <1>2
        <4> HIDE DEF s
        <4>2. \E i \in 1 .. Len(s) : s[i] = e
          BY <4>1, Members
        <4> QED
          BY <4>1, <4>2 DEF s
      <3>2. i + 1 \in 1 .. Len(queue) /\ 1 \in 1 .. Len(queue) /\ 1 < i + 1 /\ queue[i + 1] = e
        BY <1>2, <3>1
      <3>3. e \in overtaken
        BY <1>0, <1>2, <2>2, <3>2 DEF Hub, Turned
      <3> QED
        BY <1>1, <3>3 DEF Excused
    <2> QED
      BY <1>3, <2>1, <2>2
  <1>9. BehindList'
    BY <1>0, <1>1, <1>2, <1>7 DEF BehindList
  <1>10. OfHistory'
    BY <1>1 DEF OfHistory
  <1>11. HiddenForAReason'
    <2>1. h \in ToSet(queue) /\ h.run = run
      BY <1>0, <1>2 DEF Hub
    <2>2. \A f \in ToSet(page.shown) :
            f.run <= h.run /\ (f.run = h.run /\ h.seq < f.seq => Excused(h))
      BY <1>0, <2>1 DEF BehindShown, Past, Placed
    <2> QED
      BY <1>0, <1>1, <1>2, <2>2, RefusedForAReason
  <1> QED
    BY <1>5, <1>6, <1>8, <1>9, <1>10, <1>11

\* The stream breaks: what was on its way is no longer.
LEMMA HiddenBreak ==
  ASSUME HiddenInv, StreamBreaks
  PROVE  Numbers' /\ Past' /\ Behind' /\ Hub' /\ BehindShown' /\ BehindList'
         /\ OfHistory' /\ HiddenForAReason'
  <1>0. /\ TypeOK /\ Numbers /\ Past /\ Behind /\ Hub
        /\ BehindShown /\ BehindList /\ OfHistory /\ HiddenForAReason
    BY DEF HiddenInv
  <1>1. /\ UNCHANGED <<run, SEQ, ring, at, ev, list, page, overtaken, dropped, late, hist>>
        /\ queue' = <<>> /\ ToSet(<<>>) = {}
    BY EmptySet DEF StreamBreaks, hub, browser
  <1>2. Placed' \subseteq Placed
    BY <1>1 DEF Placed
  <1>3. Numbers' /\ Past' /\ Behind'
    BY <1>0, <1>1, <1>2 DEF Numbers, Past, Behind, Busy
  <1>4. Hub'
    BY <1>0, <1>1 DEF Hub, Turned, OfOneRun
  <1>5. BehindShown' /\ BehindList' /\ OfHistory' /\ HiddenForAReason'
    BY <1>0, <1>1, PageKept
  <1> QED
    BY <1>3, <1>4, <1>5

\* The host is restarted: what the page has is of an earlier run.
LEMMA HiddenRestart ==
  ASSUME HiddenInv, HostRestarts
  PROVE  Numbers' /\ Past' /\ Behind' /\ Hub' /\ BehindShown' /\ BehindList'
         /\ OfHistory' /\ HiddenForAReason'
  <1>0. /\ TypeOK /\ Numbers /\ Past /\ Behind /\ Hub
        /\ BehindShown /\ BehindList /\ OfHistory /\ HiddenForAReason
    BY DEF HiddenInv
  <1>1. /\ UNCHANGED <<list, page, overtaken, late>>
        /\ run' = run + 1 /\ run \in Nat
        /\ ring' = <<>> /\ queue' = <<>> /\ ToSet(<<>>) = {}
        /\ hist' = "showing" => hist = "showing"
        /\ \A t \in Threads : at'[t] = "idle"
    BY <1>0, EmptySet DEF HostRestarts, TypeOK
  <1>2. Placed' \subseteq Placed
    BY <1>1 DEF Placed
  <1>3. \A f \in Placed : f.run \in Nat
    BY <1>0, PlacedEvents DEF LogEvent
  <1>4. Past'
    BY <1>0, <1>1, <1>2, <1>3 DEF Past
  <1>5. Numbers' /\ Behind'
    BY <1>1 DEF Numbers, Behind, Busy
  <1>6. Hub'
    BY <1>0, <1>1 DEF Hub, Turned, OfOneRun
  <1>7. BehindShown' /\ BehindList' /\ OfHistory' /\ HiddenForAReason'
    BY <1>0, <1>1, PageKept
  <1> QED
    BY <1>4, <1>5, <1>6, <1>7

\* A step of which none of this is affected.
LEMMA HiddenQuiet ==
  ASSUME HiddenInv, UNCHANGED <<run, SEQ, ring, at, ev, queue, list, page>>,
         UNCHANGED <<overtaken, dropped, late>>, hist' = "showing" => hist = "showing"
  PROVE  Numbers' /\ Past' /\ Behind' /\ Hub' /\ BehindShown' /\ BehindList'
         /\ OfHistory' /\ HiddenForAReason'
  <1>0. /\ TypeOK /\ Numbers /\ Past /\ Behind /\ Hub
        /\ BehindShown /\ BehindList /\ OfHistory /\ HiddenForAReason
    BY DEF HiddenInv
  <1>1. Placed' = Placed
    BY DEF Placed
  <1>2. Numbers' /\ Past' /\ Behind'
    BY <1>0, <1>1 DEF Numbers, Past, Behind, Busy
  <1>3. Hub'
    BY <1>0 DEF Hub, Turned, OfOneRun
  <1>4. BehindShown' /\ BehindList' /\ OfHistory' /\ HiddenForAReason'
    BY <1>0, PageKept
  <1> QED
    BY <1>2, <1>3, <1>4

\* The page shows growing numbers after every step.
LEMMA GrowingStep ==
  ASSUME TypeOK, Growing, [Next]_vars
  PROVE  Growing'
  <1>1. CASE page' = page
    BY <1>1 DEF Growing
  <1>2. page \in [lastSeq : Int, shown : Seq(LogEvent), hidden : SUBSET LogEvent]
    BY DEF TypeOK
  <1>3. CASE ShowNext
    <2>1. Head(list) \in LogEvent /\ page' = AddLog(page, Head(list))
      BY <1>3, Shortened DEF ShowNext, TypeOK
    <2> QED
      BY <1>2, <2>1, Added
  <1>4. CASE ShowLive
    <2>1. Head(queue) \in LogEvent /\ page' = AddLog(page, Head(queue))
      BY <1>4, Shortened DEF ShowLive, TypeOK
    <2> QED
      BY <1>2, <2>1, Added
  <1>5. ASSUME NEW t \in Threads, Publish(t) PROVE page' = page
    BY <1>5 DEF Publish, TakeNumber, Push, Send, browser
  <1>6. Subscribe \/ History \/ ShowHistory \/ HistoryShown \/ StreamBreaks \/ HostRestarts
          \/ UNCHANGED vars => page' = page
    BY DEF Subscribe, History, ShowHistory, HistoryShown, StreamBreaks, HostRestarts,
       vars, browser
  <1> QED
    BY <1>1, <1>3, <1>4, <1>5, <1>6 DEF Next, LoadHistory

LEMMA HiddenInit == Init => HiddenInv
  <1> SUFFICES ASSUME Init PROVE HiddenInv
    OBVIOUS
  <1>1. /\ ring = <<>> /\ queue = <<>> /\ list = <<>> /\ page.shown = <<>>
        /\ page.lastSeq = -1 /\ page.hidden = {} /\ ToSet(<<>>) = {}
        /\ \A t \in Threads : at[t] = "idle"
    BY EmptySet DEF Init
  <1>2. Placed = {}
    BY <1>1 DEF Placed
  <1>3. Growing
    BY <1>1 DEF Growing
  <1>4. Numbers /\ Past /\ Behind
    BY <1>1, <1>2 DEF Numbers, Past, Behind, Busy
  <1>5. Hub
    BY <1>1 DEF Hub, Turned, OfOneRun
  <1>6. BehindShown /\ BehindList /\ OfHistory /\ HiddenForAReason
    BY <1>1 DEF BehindShown, BehindList, OfHistory, HiddenForAReason
  <1> QED
    BY <1>3, <1>4, <1>5, <1>6, TypeInit DEF HiddenInv

LEMMA HiddenStep ==
  ASSUME HiddenInv, [Next]_vars
  PROVE  HiddenInv'
  <1>1. TypeOK' /\ Growing'
    BY TypeStep, GrowingStep DEF HiddenInv
  <1>2. ASSUME NEW t \in Threads, Publish(t) PROVE HiddenInv'
    BY <1>1, <1>2, HiddenTake, HiddenPush, HiddenSend DEF Publish, HiddenInv
  <1>3. CASE History
    BY <1>1, <1>3, HiddenHistory DEF HiddenInv
  <1>4. CASE ShowHistory
    BY <1>1, <1>4, HiddenShow DEF HiddenInv
  <1>5. CASE ShowNext
    BY <1>1, <1>5, HiddenNext DEF HiddenInv
  <1>6. CASE ShowLive
    BY <1>1, <1>6, HiddenLive DEF HiddenInv
  <1>7. CASE StreamBreaks
    BY <1>1, <1>7, HiddenBreak DEF HiddenInv
  <1>8. CASE HostRestarts
    BY <1>1, <1>8, HiddenRestart DEF HiddenInv
  <1>9. CASE Subscribe \/ HistoryShown \/ UNCHANGED vars
    <2>1. /\ UNCHANGED <<run, SEQ, ring, at, ev, queue, list, page>>
          /\ UNCHANGED <<overtaken, dropped, late>>
          /\ hist' = "showing" => hist = "showing"
      BY <1>9 DEF Subscribe, HistoryShown, vars, hub, browser, history
    <2>2. Numbers' /\ Past' /\ Behind' /\ Hub' /\ BehindShown' /\ BehindList'
          /\ OfHistory' /\ HiddenForAReason'
      BY <2>1, HiddenQuiet
    <2> QED
      BY <1>1, <2>2 DEF HiddenInv
  <1> QED
    BY <1>2, <1>3, <1>4, <1>5, <1>6, <1>7, <1>8, <1>9 DEF Next, LoadHistory

LEMMA HiddenInvariant == Spec => []HiddenInv
  BY HiddenInit, HiddenStep, PTL DEF Spec

\* The page shows no event twice (addLog, publish).
THEOREM LogShownOnce == Spec => []ShownOnce
  <1>1. HiddenInv => ShownOnce
    <2> SUFFICES ASSUME HiddenInv PROVE ShownOnce
      OBVIOUS
    <2>1. page.shown \in Seq(LogEvent) /\ Growing
      BY DEF HiddenInv, TypeOK
    <2> DEFINE s == page.shown
    <2>2. \A i \in 1 .. Len(s) : s[i].seq \in Nat
      <3> HIDE DEF s
      <3>1. \A i \in 1 .. Len(s) : s[i] \in LogEvent
        BY <2>1 DEF s
      <3> QED
        BY <3>1 DEF LogEvent
    <2>3. ASSUME NEW i \in 1 .. Len(s), NEW j \in 1 .. Len(s), s[i] = s[j] PROVE i = j
      <3>1. ~(i < j) /\ ~(j < i)
        BY <2>1, <2>2, <2>3 DEF Growing
      <3> QED
        BY <3>1
    <2>4. DOMAIN s = 1 .. Len(s)
      BY <2>1
    <2> QED
      BY <2>3, <2>4 DEF ShownOnce, IsInjective
  <1> QED
    BY <1>1, HiddenInvariant, PTL

\* Whatever the page refuses without showing it, it refuses for one of the
\* four reasons (publish, history, addLog).
THEOREM LogHiddenForAReason == Spec => []HiddenForAReason
  <1>1. HiddenInv => HiddenForAReason
    BY DEF HiddenInv
  <1> QED
    BY <1>1, HiddenInvariant, PTL

-----------------------------------------------------------------------------
\* The page shows the number behind those it shows,
LEMMA ShowsNext ==
  ASSUME page \in [lastSeq : Int, shown : Seq(LogEvent), hidden : SUBSET LogEvent], Growing,
         NEW k \in Nat, UpTo(page.shown, k), page' = AddLog(page, [run |-> 0, seq |-> k])
  PROVE  UpTo(page'.shown, k + 1) /\ Len(page'.shown) = Len(page.shown) + 1
  <1>1. PICK old \in Seq(LogEvent) : old = page.shown
    OBVIOUS
  <1>2. PICK e \in LogEvent : e = [run |-> 0, seq |-> k]
    BY DEF LogEvent
  <1>3. page.lastSeq < k
    <2>1. CASE old = <<>>
      BY <1>1, <2>1 DEF Growing
    <2>2. CASE old # <<>>
      <3>1. Len(old) \in 1 .. Len(old) /\ Len(old) \in Nat
        BY <2>2
      <3>2. old[Len(old)] = [run |-> 0, seq |-> k - Len(old) + Len(old) - 1]
        BY <1>1, <3>1 DEF UpTo
      <3>3. page.lastSeq = old[Len(old)].seq /\ k - Len(old) + Len(old) - 1 = k - 1
        BY <1>1, <2>2, <3>1 DEF Growing
      <3> QED
        BY <3>2, <3>3
    <2> QED
      BY <2>1, <2>2
  <1>4. page'.shown = Append(old, e)
    BY <1>1, <1>2, <1>3 DEF AddLog
  <1>5. UpTo(Append(old, e), k + 1)
    BY <1>1, <1>2, UpToAppend
  <1>6. Len(Append(old, e)) = Len(old) + 1
    OBVIOUS
  <1> QED
    BY <1>1, <1>4, <1>5, <1>6

\* and refuses those before.
LEMMA RefusesOld ==
  ASSUME page \in [lastSeq : Int, shown : Seq(LogEvent), hidden : SUBSET LogEvent], Growing,
         NEW k \in Nat, NEW n \in Nat, k < n, UpTo(page.shown, n), page.shown # <<>>,
         page' = AddLog(page, [run |-> 0, seq |-> k])
  PROVE  page'.shown = page.shown
  <1>1. PICK old \in Seq(LogEvent) : old = page.shown
    OBVIOUS
  <1>2. Len(old) \in 1 .. Len(old) /\ Len(old) \in Nat
    BY <1>1
  <1>3. old[Len(old)] = [run |-> 0, seq |-> n - Len(old) + Len(old) - 1]
    BY <1>1, <1>2 DEF UpTo
  <1>4. page.lastSeq = old[Len(old)].seq /\ n - Len(old) + Len(old) - 1 = n - 1
    BY <1>1, <1>2 DEF Growing
  <1>5. k <= page.lastSeq
    BY <1>3, <1>4
  <1> QED
    BY <1>5 DEF AddLog

\* Whether there is a hole depends on the page and on what waits for it.
LEMMA NoHoleKept ==
  ASSUME NoHole, UNCHANGED <<hist, page, list, taken>>, Waiting' = Waiting
  PROVE  NoHole'
  BY DEF NoHole, First

\* A thread takes the number behind those that are taken.
LEMMA CleanTake ==
  ASSUME HiddenInv, InTurn, InOrder, NoHole, NEW t \in Threads, TakeNumber(t)
  PROVE  InTurn' /\ InOrder' /\ NoHole'
  <1>0. TypeOK /\ Numbers
    BY DEF HiddenInv
  <1>1. /\ run' = run /\ SEQ' = SEQ + 1 /\ SEQ \in Nat /\ sent \in Nat
        /\ UNCHANGED <<ring, queue, list, page, hist, rx, sent, pushed, taken>>
        /\ at[t] = "idle" /\ at'[t] = "ring" /\ ev'[t].seq = SEQ
        /\ \A u \in Threads : u # t => at'[u] = at[u] /\ ev'[u] = ev[u]
        /\ \A u \in Threads : ev[u].seq \in Nat
    BY <1>0 DEF TakeNumber, TypeOK, browser, history, LogEvent
  <1>2. InTurn'
    <2>1. run' = 0 /\ sent' <= SEQ'
      BY <1>1 DEF InTurn
    <2>2. \A u \in Threads : Busy(u)' => sent' <= ev'[u].seq
      BY <1>1 DEF InTurn, Busy
    <2>3. ASSUME NEW n \in sent' .. SEQ' - 1
          PROVE  \E u \in Threads : Busy(u)' /\ ev'[u].seq = n
      <3>1. CASE n = SEQ
        BY <1>1, <3>1 DEF Busy
      <3>2. CASE n # SEQ
        <4>1. n \in sent .. SEQ - 1
          BY <1>1, <3>2
        <4>2. PICK u \in Threads : Busy(u) /\ ev[u].seq = n
          BY <4>1 DEF InTurn
        <4> QED
          BY <1>1, <4>2 DEF Busy
      <3> QED
        BY <3>1, <3>2
    <2>4. ASSUME NEW u \in Threads, NEW v \in Threads,
                 Busy(u)', Busy(v)', ev'[u].seq = ev'[v].seq
          PROVE  u = v
      <3>1. \A w \in Threads : Busy(w) => ev[w].seq < SEQ
        BY <1>0 DEF Numbers
      <3>2. CASE u # t /\ v # t
        BY <1>1, <2>4, <3>2 DEF InTurn, Busy
      <3>3. CASE u = t \/ v = t
        BY <1>1, <2>4, <3>1, <3>3 DEF Busy
      <3> QED
        BY <3>2, <3>3
    <2>5. \A u \in Threads : at'[u] = "send" => ev'[u].seq = sent' /\ pushed' = sent' + 1
      BY <1>1 DEF InTurn
    <2>6. pushed' = sent' \/ \E u \in Threads : at'[u] = "send"
      BY <1>1 DEF InTurn
    <2> QED
      BY <2>1, <2>2, <2>3, <2>4, <2>5, <2>6 DEF InTurn
  <1>3. InOrder'
    BY <1>1 DEF InOrder, UpTo
  <1>4. NoHole'
    BY <1>1, NoHoleKept DEF Waiting
  <1> QED
    BY <1>2, <1>3, <1>4

\* A thread pushes its event: it is the next one.
LEMMA CleanPush ==
  ASSUME HiddenInv, InTurn, InOrder, NoHole, overtaken' = {}, NEW t \in Threads, Push(t)
  PROVE  InTurn' /\ InOrder' /\ NoHole'
  <1>0. TypeOK /\ Numbers
    BY DEF HiddenInv
  <1>1. /\ UNCHANGED <<run, SEQ, ev, queue, list, page, hist, rx, sent, taken>>
        /\ ring' = Kept(ring, ev[t]) /\ pushed' = pushed + 1
        /\ at[t] = "ring" /\ at'[t] = "send"
        /\ \A u \in Threads : u # t => at'[u] = at[u]
        /\ ring \in Seq(LogEvent) /\ ev[t] \in LogEvent /\ Overtaken(t) = {}
        /\ sent \in Nat /\ SEQ \in Nat /\ pushed \in Nat /\ taken \in Nat
    BY <1>0 DEF Push, TypeOK, browser
  <1>2. \A u \in Threads : ev[u].seq \in Nat
    BY <1>0 DEF TypeOK, LogEvent
  <1>3. Busy(t) /\ \A u \in Threads : Busy(u)' <=> Busy(u)
    BY <1>1 DEF Busy
  <1>4. ev[t].seq = sent
    <2>1. sent <= ev[t].seq /\ ev[t].seq < SEQ
      BY <1>0, <1>3 DEF InTurn, Numbers
    <2>2. sent \in sent .. SEQ - 1
      BY <1>1, <1>2, <2>1
    <2>3. PICK u \in Threads : Busy(u) /\ ev[u].seq = sent
      BY <2>2 DEF InTurn
    <2>4. ~(ev[u].seq < ev[t].seq)
      BY <1>1, <2>3 DEF Overtaken, Busy
    <2> QED
      BY <1>1, <1>2, <2>1, <2>3, <2>4
  <1>5. ~ \E u \in Threads : at[u] = "send"
    <2> SUFFICES ASSUME NEW u \in Threads, at[u] = "send" PROVE FALSE
      OBVIOUS
    <2>1. ev[u].seq = sent /\ Busy(u)
      BY DEF InTurn, Busy
    <2>2. u = t
      BY <1>3, <1>4, <2>1 DEF InTurn
    <2> QED
      BY <1>1, <2>2
  <1>6. pushed = sent
    BY <1>5 DEF InTurn
  <1>7. InTurn'
    <2>1. \A u \in Threads : at'[u] = "send" => ev'[u].seq = sent' /\ pushed' = sent' + 1
      BY <1>1, <1>4, <1>5, <1>6
    <2>2. \A u \in Threads : Busy(u)' => sent' <= ev'[u].seq
      BY <1>1, <1>3 DEF InTurn
    <2>3. \A n \in sent' .. SEQ' - 1 : \E u \in Threads : Busy(u)' /\ ev'[u].seq = n
      BY <1>1, <1>3 DEF InTurn
    <2>4. \A u, v \in Threads : Busy(u)' /\ Busy(v)' /\ ev'[u].seq = ev'[v].seq => u = v
      BY <1>1, <1>3 DEF InTurn
    <2>5. run' = 0 /\ sent' <= SEQ'
      BY <1>1 DEF InTurn
    <2>6. \E u \in Threads : at'[u] = "send"
      BY <1>1
    <2> QED
      BY <2>1, <2>2, <2>3, <2>4, <2>5, <2>6 DEF InTurn
  <1>8. UpTo(ring', pushed') /\ Len(ring') = Least(pushed', RING_CAPACITY)
    <2>1. PICK r \in Seq(LogEvent) :
            /\ Kept(ring, ev[t]) = Append(r, ev[t])
            /\ \/ r = ring /\ Len(ring) < RING_CAPACITY
               \/ r = Tail(ring) /\ ring # <<>> /\ Len(ring) >= RING_CAPACITY
      BY <1>1, KeptIs
    <2>2. UpTo(ring, pushed) /\ Len(ring) = Least(pushed, RING_CAPACITY)
      BY DEF InOrder
    <2>3. UpTo(r, pushed)
      BY <1>1, <2>1, <2>2, UpToTail
    <2>4. ev[t] = [run |-> 0, seq |-> pushed]
      <3>1. ev[t].run = 0
        BY <1>0, <1>3 DEF Numbers, InTurn
      <3> QED
        BY <1>1, <1>4, <1>6, <3>1 DEF LogEvent
    <2>5. UpTo(Append(r, ev[t]), pushed + 1)
      BY <1>1, <2>3, <2>4, UpToAppend
    <2>6. Len(Append(r, ev[t])) = Len(r) + 1
      BY <1>1, Appended
    <2>7. Len(r) = IF Len(ring) < RING_CAPACITY THEN Len(ring) ELSE Len(ring) - 1
      <3>1. Len(ring) \in Nat /\ RING_CAPACITY \in Nat
        BY <1>1, LogAssumption
      <3> QED
        BY <1>1, <2>1, <3>1, Shortened
    <2>8. Len(r) + 1 = Least(pushed + 1, RING_CAPACITY)
      <3>1. Len(ring) \in Nat /\ RING_CAPACITY \in Nat \ {0}
        BY <1>1, LogAssumption
      <3> QED
        BY <1>1, <2>2, <2>7, <3>1 DEF Least
    <2> QED
      BY <1>1, <2>1, <2>5, <2>6, <2>8
  <1>9. InOrder'
    BY <1>1, <1>8 DEF InOrder, UpTo
  <1>10. NoHole'
    BY <1>1, NoHoleKept DEF Waiting
  <1> QED
    BY <1>7, <1>9, <1>10

\* A thread sends its event: it is the next one for an open stream, and of the
\* history if there is none.
LEMMA CleanSend ==
  ASSUME HiddenInv, InTurn, InOrder, NoHole, Clean', NEW t \in Threads, Send(t)
  PROVE  InTurn' /\ InOrder' /\ NoHole'
  <1>0. TypeOK /\ Numbers
    BY DEF HiddenInv
  <1>1. /\ UNCHANGED <<run, SEQ, ring, ev, list, page, hist, rx, pushed, taken>>
        /\ sent' = sent + 1
        /\ at[t] = "send" /\ at'[t] = "idle"
        /\ \A u \in Threads : u # t => at'[u] = at[u]
        /\ queue \in Seq(LogEvent) /\ Len(queue) \in Nat /\ ev[t] \in LogEvent
        /\ sent \in Nat /\ SEQ \in Nat /\ pushed \in Nat /\ taken \in Nat
        /\ CHANNEL_CAPACITY \in Nat
    BY <1>0, LogAssumption DEF Send, TypeOK, browser
  <1>2. \A u \in Threads : ev[u].seq \in Nat
    BY <1>0 DEF TypeOK, LogEvent
  <1>3. Busy(t) /\ \A u \in Threads : Busy(u)' <=> Busy(u) /\ u # t
    BY <1>1 DEF Busy
  <1>4. ev[t].seq = sent /\ pushed = sent + 1 /\ ev[t].run = 0 /\ sent < SEQ
    BY <1>0, <1>1, <1>3 DEF InTurn, Numbers
  <1>5. \A u \in Threads : Busy(u) /\ u # t => ev[u].seq # sent
    BY <1>3, <1>4 DEF InTurn
  <1>6. InTurn'
    <2>1. \A u \in Threads : at'[u] # "send"
      <3> SUFFICES ASSUME NEW u \in Threads, at'[u] = "send" PROVE FALSE
        OBVIOUS
      <3>1. u # t /\ at[u] = "send" /\ Busy(u)
        BY <1>1 DEF Busy
      <3> QED
        BY <1>5, <3>1 DEF InTurn
    <2>2. \A u \in Threads : Busy(u)' => sent' <= ev'[u].seq
      BY <1>1, <1>2, <1>3, <1>5 DEF InTurn
    <2>3. ASSUME NEW n \in sent' .. SEQ' - 1
          PROVE  \E u \in Threads : Busy(u)' /\ ev'[u].seq = n
      <3>1. n \in sent .. SEQ - 1 /\ n # sent
        BY <1>1
      <3>2. PICK u \in Threads : Busy(u) /\ ev[u].seq = n
        BY <3>1 DEF InTurn
      <3> QED
        BY <1>1, <1>3, <1>4, <3>1, <3>2
    <2>4. \A u, v \in Threads : Busy(u)' /\ Busy(v)' /\ ev'[u].seq = ev'[v].seq => u = v
      BY <1>1, <1>3 DEF InTurn
    <2>5. run' = 0 /\ sent' <= SEQ' /\ pushed' = sent'
      BY <1>1, <1>4 DEF InTurn
    <2> QED
      BY <2>1, <2>2, <2>3, <2>4, <2>5 DEF InTurn
  <1>7. /\ rx => Len(queue) # CHANNEL_CAPACITY
        /\ hist \in {"got", "showing", "done"} /\ ~rx => sent < taken
    <2>1. /\ ~(rx /\ Len(queue) = CHANNEL_CAPACITY)
          /\ ~(~rx /\ hist \in {"got", "showing", "done"} /\ ev[t].seq >= taken)
      BY DEF Send, Clean
    <2> QED
      BY <1>1, <1>4, <2>1
  <1>8. UpTo(queue, sent) /\ Len(queue) <= CHANNEL_CAPACITY /\ (~rx => queue = <<>>)
    BY DEF InOrder
  <1>9. \/ ~rx /\ queue' = queue
        \/ rx /\ queue' = Append(queue, ev[t]) /\ Len(queue) < CHANNEL_CAPACITY
    BY <1>0, <1>1, <1>7, <1>8, SentIs
  <1>10. CASE rx
    <2>1. ev[t] = [run |-> 0, seq |-> sent]
      BY <1>1, <1>4 DEF LogEvent
    <2>2. UpTo(queue', sent')
      BY <1>1, <1>8, <1>9, <1>10, <2>1, UpToAppend
    <2>3. Len(queue') = Len(queue) + 1 /\ Len(queue') <= CHANNEL_CAPACITY
      BY <1>1, <1>9, <1>10
    <2>4. InOrder'
      BY <1>1, <1>10, <2>2, <2>3 DEF InOrder, UpTo
    <2>5. Waiting' = Waiting
      BY <1>1, <2>3 DEF Waiting
    <2>6. NoHole'
      BY <1>1, <2>5, NoHoleKept
    <2> QED
      BY <1>6, <2>4, <2>6
  <1>11. CASE ~rx
    <2>1. queue = <<>> /\ queue' = <<>> /\ Len(<<>>) = 0
      BY <1>8, <1>9, <1>11
    <2>2. UpTo(queue', sent') /\ Len(queue') <= CHANNEL_CAPACITY
      BY <1>1, <2>1 DEF UpTo
    <2>3. hist \in {"got", "showing", "done"} => sent' <= taken
      BY <1>1, <1>7, <1>11
    <2>4. InOrder'
      BY <1>1, <1>11, <2>1, <2>2, <2>3 DEF InOrder, UpTo
    <2>5. Waiting = sent /\ Waiting' = sent'
      BY <1>1, <2>1 DEF Waiting
    <2>6. CASE hist \in {"got", "showing", "done"}
      <3>1. sent < taken /\ sent' <= taken
        BY <1>7, <1>11, <2>3, <2>6
      <3>2. /\ (IF taken > Waiting THEN taken ELSE Waiting) = taken
            /\ (IF taken' > Waiting' THEN taken' ELSE Waiting') = taken
        BY <1>1, <2>5, <3>1
      <3> QED
        BY <1>1, <1>6, <2>4, <2>5, <3>1, <3>2 DEF NoHole, First, UpTo
    <2>7. CASE hist \notin {"got", "showing", "done"}
      BY <1>1, <1>6, <2>4, <2>7 DEF NoHole
    <2> QED
      BY <2>6, <2>7
  <1> QED
    BY <1>10, <1>11

\* What threads publish is in order whatever the page does.
LEMMA InTurnKept ==
  ASSUME InTurn, UNCHANGED <<run, SEQ, at, ev, sent, pushed>>
  PROVE  InTurn'
  BY DEF InTurn, Busy

\* The history is answered: all that waits for the page is behind it or in it.
LEMMA CleanHistory ==
  ASSUME HiddenInv, InTurn, InOrder, NoHole, History
  PROVE  InTurn' /\ InOrder' /\ NoHole'
  <1>0. TypeOK
    BY DEF HiddenInv
  <1>1. /\ UNCHANGED <<run, SEQ, at, ev, ring, queue, page, rx, sent, pushed>>
        /\ hist' = "got" /\ list' = ring /\ taken' = pushed
        /\ queue \in Seq(LogEvent) /\ Len(queue) \in Nat
        /\ sent \in Nat /\ pushed \in Nat
    BY <1>0 DEF History, TypeOK, hub
  <1>2. InTurn'
    BY <1>1, InTurnKept
  <1>3. sent <= pushed
    BY <1>1 DEF InTurn
  <1>4. InOrder'
    <2>1. /\ UpTo(ring, pushed) /\ Len(ring) = Least(pushed, RING_CAPACITY)
          /\ UpTo(queue, sent) /\ Len(queue) <= CHANNEL_CAPACITY
          /\ ~rx => queue = <<>>
      BY DEF InOrder
    <2>2. /\ UpTo(ring, pushed)' /\ UpTo(queue, sent)'
          /\ Len(ring') = Least(pushed', RING_CAPACITY)
      BY <1>1, <2>1 DEF UpTo
    <2>3. sent' <= taken' /\ taken' <= pushed'
      BY <1>1, <1>3
    <2> QED
      BY <1>1, <2>1, <2>2, <2>3 DEF InOrder
  <1>5. Waiting <= pushed
    BY <1>1, <1>3 DEF Waiting
  <1>6. UpTo(ring, pushed) /\ Len(ring) = Least(pushed, RING_CAPACITY)
    BY DEF InOrder
  <1>7. NoHole'
    BY <1>1, <1>5, <1>6 DEF NoHole, Waiting, UpTo, Least
  <1> QED
    BY <1>2, <1>4, <1>7

\* The page begins to show it, and shows nothing yet.
LEMMA CleanShow ==
  ASSUME HiddenInv, InTurn, InOrder, NoHole, Clean', ShowHistory
  PROVE  InTurn' /\ InOrder' /\ NoHole'
  <1>0. TypeOK
    BY DEF HiddenInv
  <1>1. /\ UNCHANGED <<run, SEQ, at, ev, ring, queue, list, page, rx, sent, pushed, taken>>
        /\ hist = "got" /\ hist' = "showing"
        /\ list \in Seq(LogEvent) /\ Len(list) \in Nat /\ taken \in Nat
    BY <1>0 DEF ShowHistory, TypeOK, hub
  <1>2. page.shown = <<>>
    BY DEF ShowHistory, Clean
  <1>3. InTurn'
    BY <1>1, InTurnKept
  <1>4. InOrder'
    BY <1>1 DEF InOrder, UpTo
  <1>5. Waiting <= taken /\ UpTo(list, taken) /\ Len(list) = Least(taken, RING_CAPACITY)
    BY <1>1, <1>2 DEF NoHole
  <1>6. UpTo(page.shown, taken - Len(list))
    BY <1>1, <1>2, <1>5 DEF UpTo
  <1>7. Len(page.shown) + Len(list) = taken - First
    BY <1>1, <1>2, <1>5 DEF First
  <1>8. Waiting' = Waiting /\ First' = First
    BY <1>1 DEF Waiting, First
  <1>9. NoHole'
    BY <1>1, <1>5, <1>6, <1>7, <1>8 DEF NoHole, UpTo
  <1> QED
    BY <1>3, <1>4, <1>9

\* The page goes on: the next of the history is the next to be shown.
LEMMA CleanNext ==
  ASSUME HiddenInv, InTurn, InOrder, NoHole, ShowNext
  PROVE  InTurn' /\ InOrder' /\ NoHole'
  <1>0. TypeOK /\ Growing
    BY DEF HiddenInv
  <1>1. /\ UNCHANGED <<run, SEQ, at, ev, ring, queue, rx, sent, pushed, taken, hist>>
        /\ hist = "showing" /\ list # <<>>
        /\ list' = Tail(list) /\ page' = AddLog(page, Head(list))
        /\ list \in Seq(LogEvent) /\ taken \in Nat
        /\ page \in [lastSeq : Int, shown : Seq(LogEvent), hidden : SUBSET LogEvent]
    BY <1>0 DEF ShowNext, TypeOK, hub, history
  <1>2. InTurn'
    BY <1>1, InTurnKept
  <1>3. InOrder'
    BY <1>1 DEF InOrder, UpTo
  <1>4. /\ Waiting <= taken
        /\ UpTo(list, taken) /\ UpTo(page.shown, taken - Len(list))
        /\ Len(page.shown) + Len(list) = taken - First
    BY <1>1 DEF NoHole
  <1>5. /\ UpTo(Tail(list), taken) /\ Head(list) = [run |-> 0, seq |-> taken - Len(list)]
        /\ Len(list) <= taken
    BY <1>1, <1>4, UpToTail
  <1>6. Len(Tail(list)) = Len(list) - 1 /\ Len(list) \in Nat \ {0}
    BY <1>1, Shortened
  <1>7. PICK k \in Nat : k = taken - Len(list)
    <2>1. Len(list) <= taken /\ taken \in Nat /\ Len(list) \in Nat
      BY <1>1, <1>5, <1>6
    <2>2. taken - Len(list) \in Nat
      BY <2>1
    <2> QED
      BY <2>2
  <1>8. page' = AddLog(page, [run |-> 0, seq |-> k]) /\ UpTo(page.shown, k)
    BY <1>1, <1>4, <1>5, <1>7
  <1>9. UpTo(page'.shown, k + 1) /\ Len(page'.shown) = Len(page.shown) + 1
    BY <1>0, <1>1, <1>8, ShowsNext
  <1>10. taken' - Len(list') = k + 1
    BY <1>1, <1>6, <1>7
  <1>11. Waiting' = Waiting /\ First' = First
    BY <1>1 DEF Waiting, First
  <1>12. Len(page.shown) \in Nat /\ First \in Int
    <2>1. page.shown \in Seq(LogEvent)
      BY <1>1
    <2>2. First \in Int
      BY <1>1, LogAssumption DEF First, Least
    <2> QED
      BY <2>1, <2>2
  <1>13. Len(page'.shown) + Len(list') = taken' - First'
    <2>1. Len(list') = Len(list) - 1 /\ taken' = taken /\ taken \in Nat /\ Len(list) \in Nat
      BY <1>1, <1>6
    <2>2. Len(page'.shown) = Len(page.shown) + 1
      BY <1>9
    <2>3. PICK n \in Nat, m \in Nat, p \in Nat, f \in Int :
            n = Len(page.shown) /\ m = Len(list) /\ p = taken /\ f = First
      BY <1>12, <2>1
    <2>4. n + m = p - f
      BY <1>4, <2>3
    <2>5. (n + 1) + (m - 1) = p - f
      BY <2>4
    <2> QED
      BY <1>11, <2>1, <2>2, <2>3, <2>5
  <1>14. UpTo(list', taken') /\ UpTo(page'.shown, taken' - Len(list')) /\ Waiting' <= taken'
    BY <1>1, <1>4, <1>5, <1>9, <1>10, <1>11
  <1>15. hist' = "showing"
    BY <1>1
  <1>16. NoHole'
    BY <1>13, <1>14, <1>15 DEF NoHole, UpTo
  <1> QED
    BY <1>2, <1>3, <1>16

\* The page is through with the history.
LEMMA CleanShown ==
  ASSUME HiddenInv, InTurn, InOrder, NoHole, HistoryShown
  PROVE  InTurn' /\ InOrder' /\ NoHole'
  <1>0. TypeOK
    BY DEF HiddenInv
  <1>1. /\ UNCHANGED <<run, SEQ, at, ev, ring, queue, list, page, rx, sent, pushed, taken>>
        /\ hist = "showing" /\ list = <<>> /\ hist' = "done"
        /\ queue \in Seq(LogEvent) /\ Len(queue) \in Nat /\ sent \in Nat /\ taken \in Nat
    BY <1>0 DEF HistoryShown, TypeOK, hub, history
  <1>2. InTurn'
    BY <1>1, InTurnKept
  <1>3. InOrder'
    BY <1>1 DEF InOrder, UpTo
  <1>4. /\ Waiting <= taken
        /\ UpTo(page.shown, taken - Len(list))
        /\ Len(page.shown) + Len(list) = taken - First
    BY <1>1 DEF NoHole
  <1>5. Len(list) = 0 /\ Waiting \in Int /\ page.shown \in Seq(LogEvent)
    BY <1>0, <1>1 DEF Waiting, TypeOK
  <1>6. UpTo(page.shown, taken) /\ Len(page.shown) = taken - First
    <2>1. taken - Len(list) = taken
      BY <1>1, <1>5
    <2>2. Len(page.shown) + Len(list) = Len(page.shown)
      BY <1>5
    <2> QED
      BY <1>4, <2>1, <2>2
  <1>7. (IF taken > Waiting THEN taken ELSE Waiting) = taken
    BY <1>1, <1>4, <1>5
  <1>8. Waiting' = Waiting /\ First' = First
    BY <1>1 DEF Waiting, First
  <1>9. NoHole'
    BY <1>1, <1>6, <1>7, <1>8 DEF NoHole, UpTo
  <1> QED
    BY <1>2, <1>3, <1>9

\* The page gets a live event: it is of the history it has shown, or the next.
LEMMA CleanLive ==
  ASSUME HiddenInv, InTurn, InOrder, NoHole, ShowLive
  PROVE  InTurn' /\ InOrder' /\ NoHole'
  <1>0. TypeOK /\ Growing
    BY DEF HiddenInv
  <1>1. /\ UNCHANGED <<run, SEQ, at, ev, ring, list, rx, sent, pushed, taken, hist>>
        /\ hist # "showing" /\ queue # <<>>
        /\ queue' = Tail(queue) /\ page' = AddLog(page, Head(queue))
        /\ queue \in Seq(LogEvent) /\ taken \in Nat /\ sent \in Nat
        /\ page \in [lastSeq : Int, shown : Seq(LogEvent), hidden : SUBSET LogEvent]
    BY <1>0 DEF ShowLive, TypeOK, hub, history
  <1>2. UpTo(queue, sent) /\ Len(queue) <= CHANNEL_CAPACITY
    BY DEF InOrder
  <1>3. /\ UpTo(Tail(queue), sent) /\ Head(queue) = [run |-> 0, seq |-> sent - Len(queue)]
        /\ Len(queue) <= sent
    BY <1>1, <1>2, UpToTail
  <1>4. Len(Tail(queue)) = Len(queue) - 1 /\ Len(queue) \in Nat \ {0}
    BY <1>1, Shortened
  <1>5. InTurn'
    BY <1>1, InTurnKept
  <1>6. InOrder'
    <2>1. UpTo(queue', sent') /\ Len(queue') <= CHANNEL_CAPACITY
      BY <1>1, <1>2, <1>3, <1>4, LogAssumption
    <2>2. rx'
      BY <1>1 DEF InOrder
    <2> QED
      BY <1>1, <2>1, <2>2 DEF InOrder, UpTo
  <1>7. PICK w \in Nat : w = Waiting
    <2>1. sent - Len(queue) \in Nat
      BY <1>1, <1>3, <1>4
    <2> QED
      BY <2>1 DEF Waiting
  <1>8. Waiting' = w + 1
    BY <1>1, <1>4, <1>7 DEF Waiting
  <1>9. page' = AddLog(page, [run |-> 0, seq |-> w])
    BY <1>1, <1>3, <1>7 DEF Waiting
  <1>10. PICK old \in Seq(LogEvent) : old = page.shown
    BY <1>1
  <1>11. CASE hist = "got"
    <2>1. page'.shown # <<>>
      <3>1. CASE page.shown # <<>>
        <4>1. ToSet(page.shown) \subseteq ToSet(page'.shown)
          <5>1. [run |-> 0, seq |-> w] \in LogEvent
            BY DEF LogEvent
          <5> QED
            BY <1>0, <1>1, <1>9, <5>1, Added
        <4>2. 1 \in 1 .. Len(old)
          BY <1>10, <3>1
        <4>3. old[1] \in ToSet(old)
          BY <4>2, Members
        <4> QED
          BY <1>10, <4>1, <4>3, EmptySet
      <3>2. CASE page.shown = <<>>
        <4>1. page.lastSeq = -1
          BY <1>0, <3>2 DEF Growing
        <4>2. page'.shown = Append(old, [run |-> 0, seq |-> w])
          BY <1>9, <1>10, <4>1 DEF AddLog
        <4> QED
          BY <4>2
      <3> QED
        BY <3>1, <3>2
    <2>2. UpTo(list, taken) /\ Len(list) = Least(taken, RING_CAPACITY)
      BY <1>11 DEF NoHole
    <2>3. NoHole'
      BY <1>1, <1>11, <2>1, <2>2 DEF NoHole, UpTo
    <2> QED
      BY <1>5, <1>6, <2>3
  <1>12. CASE hist = "done"
    <2> DEFINE end == IF taken > w THEN taken ELSE w
    <2>1. UpTo(page.shown, end) /\ Len(page.shown) = end - First
      BY <1>7, <1>12 DEF NoHole
    <2>2. PICK first \in Int : first = First
      <3>1. First \in Int
        BY <1>1, LogAssumption DEF First, Least
      <3> QED
        BY <3>1
    <2>3. First' = first
      BY <1>1, <2>2 DEF First
    <2>4. CASE w < taken
      <3>1. first < taken
        BY <1>1, <2>2, <2>4, LogAssumption DEF First, Least
      <3>2. UpTo(page.shown, taken) /\ Len(page.shown) = taken - first
        BY <1>1, <2>1, <2>2, <2>4
      <3>3. page.shown # <<>>
        BY <1>1, <3>1, <3>2
      <3>4. page'.shown = page.shown
        BY <1>0, <1>1, <1>9, <2>4, <3>2, <3>3, RefusesOld
      <3>5. (IF taken > w + 1 THEN taken ELSE w + 1) = taken
        BY <1>1, <2>4
      <3>6. UpTo(page'.shown, taken) /\ Len(page'.shown) = taken - first
        BY <3>2, <3>4
      <3>7. NoHole'
        BY <1>1, <1>8, <1>12, <2>3, <3>5, <3>6 DEF NoHole
      <3> QED
        BY <1>5, <1>6, <3>7
    <2>5. CASE ~(w < taken)
      <3>1. UpTo(page.shown, w) /\ Len(page.shown) = w - first
        BY <1>1, <2>1, <2>2, <2>5
      <3>2. UpTo(page'.shown, w + 1) /\ Len(page'.shown) = Len(page.shown) + 1
        BY <1>0, <1>1, <1>9, <3>1, ShowsNext
      <3>3. Len(page'.shown) = (w + 1) - first
        BY <3>1, <3>2
      <3>4. (IF taken > w + 1 THEN taken ELSE w + 1) = w + 1
        BY <1>1, <2>5
      <3>5. NoHole'
        BY <1>1, <1>8, <1>12, <2>3, <3>2, <3>3, <3>4 DEF NoHole
      <3> QED
        BY <1>5, <1>6, <3>5
    <2> QED
      BY <2>4, <2>5
  <1>13. CASE hist \notin {"got", "done"}
    BY <1>1, <1>5, <1>6, <1>13 DEF NoHole
  <1> QED
    BY <1>11, <1>12, <1>13

LEMMA CompleteStep ==
  ASSUME HiddenInv, CompleteInv, [Next]_vars
  PROVE  CompleteInv'
  <1> SUFFICES ASSUME Clean' PROVE InTurn' /\ InOrder' /\ NoHole'
    BY DEF CompleteInv
  <1> USE DEF hub, browser, history
  <1>1. ~StreamBreaks /\ ~HostRestarts
    BY DEF StreamBreaks, HostRestarts, Clean
  <1>2. Clean
    <2>1. ASSUME NEW t \in Threads, Publish(t)
          PROVE  causes \subseteq causes' /\ overtaken \subseteq overtaken'
      BY <2>1 DEF Publish, TakeNumber, Push, Send
    <2>2. Subscribe \/ History \/ ShowHistory \/ ShowNext \/ HistoryShown \/ ShowLive
            \/ UNCHANGED vars => causes \subseteq causes' /\ overtaken = overtaken'
      BY DEF Subscribe, History, ShowHistory, ShowNext, HistoryShown, ShowLive, vars
    <2> QED
      BY <1>1, <2>1, <2>2 DEF Next, LoadHistory, Clean
  <1>3. InTurn /\ InOrder /\ NoHole
    BY <1>2 DEF CompleteInv
  <1>4. ASSUME NEW t \in Threads, Publish(t) PROVE InTurn' /\ InOrder' /\ NoHole'
    BY <1>3, <1>4, CleanTake, CleanPush, CleanSend DEF Publish, Clean
  <1>5. CASE Subscribe \/ UNCHANGED vars
    <2>1. /\ UNCHANGED <<run, SEQ, at, ev, ring, queue, list, page, sent, pushed, taken, hist>>
          /\ ~rx' => ~rx
      BY <1>5 DEF Subscribe, vars
    <2>2. InTurn'
      BY <1>3, <2>1, InTurnKept
    <2>3. InOrder'
      BY <1>3, <2>1 DEF InOrder, UpTo
    <2>4. NoHole'
      BY <1>3, <2>1, NoHoleKept DEF Waiting
    <2> QED
      BY <2>2, <2>3, <2>4
  <1> QED
    BY <1>1, <1>3, <1>4, <1>5, CleanHistory, CleanShow, CleanNext, CleanShown, CleanLive
    DEF Next, LoadHistory

LEMMA CompleteInit == Init => CompleteInv
  <1> SUFFICES ASSUME Init PROVE InTurn /\ InOrder /\ NoHole
    BY DEF CompleteInv
  <1>1. /\ ring = <<>> /\ queue = <<>> /\ hist = "asked" /\ sent = 0 /\ pushed = 0
        /\ run = 0 /\ SEQ = 0 /\ \A t \in Threads : at[t] = "idle"
    BY DEF Init
  <1>2. InTurn
    BY <1>1 DEF InTurn, Busy
  <1>3. InOrder
    BY <1>1, LogAssumption DEF InOrder, UpTo, Least
  <1>4. NoHole
    BY <1>1 DEF NoHole
  <1> QED
    BY <1>2, <1>3, <1>4

LEMMA CompleteInvariant == Spec => [](HiddenInv /\ CompleteInv)
  BY HiddenInit, HiddenStep, CompleteInit, CompleteStep, PTL DEF Spec

\* A page that is up to date shows every event from the oldest the ring held
\* on, in order and without a hole, unless one of the causes or an overtaking
\* is in the history (publish, log_stream, history, loadHistory, addLog).
THEOREM LogComplete == Spec => []Complete
  <1>1. HiddenInv /\ CompleteInv => Complete
    <2> SUFFICES ASSUME HiddenInv, CompleteInv, UpToDate, Clean PROVE Complete
      BY DEF Complete, Clean
    <2>1. /\ queue = <<>> /\ hist = "done" /\ NoHole /\ taken \in Nat /\ sent \in Nat
          /\ page.shown \in Seq(LogEvent) /\ RING_CAPACITY \in Nat
      BY LogAssumption DEF HiddenInv, TypeOK, CompleteInv, UpToDate
    <2>2. Waiting = sent
      BY <2>1 DEF Waiting
    <2>3. PICK end \in Nat : end = IF taken > sent THEN taken ELSE sent
      BY <2>1
    <2>4. PICK first \in Nat : first = IF taken > RING_CAPACITY THEN taken - RING_CAPACITY ELSE 0
      <3>1. (IF taken > RING_CAPACITY THEN taken - RING_CAPACITY ELSE 0) \in Nat
        BY <2>1
      <3> QED
        BY <3>1
    <2>5. First = first
      BY <2>1, <2>4 DEF First, Least
    <2>6. UpTo(page.shown, end) /\ Len(page.shown) = end - first
      BY <2>1, <2>2, <2>3, <2>5 DEF NoHole
    <2>7. PICK s \in Seq(LogEvent) : s = page.shown
      BY <2>1
    <2>8. \A i \in 1 .. Len(s) : s[i] = [run |-> 0, seq |-> end - Len(s) + i - 1]
      BY <2>6, <2>7 DEF UpTo
    <2>9. \A i \in 1 .. end - first : s[i] = [run |-> 0, seq |-> first + i - 1]
      <3> SUFFICES ASSUME NEW i \in 1 .. end - first
                   PROVE  s[i] = [run |-> 0, seq |-> first + i - 1]
        OBVIOUS
      <3>1. i \in 1 .. Len(s) /\ Len(s) = end - first
        BY <2>6, <2>7
      <3>2. end - Len(s) + i - 1 = first + i - 1
        BY <3>1
      <3> QED
        BY <2>8, <3>1, <3>2
    <2>10. s = [i \in 1 .. end - first |-> [run |-> 0, seq |-> first + i - 1]]
      <3>1. DOMAIN s = 1 .. end - first /\ s = [i \in DOMAIN s |-> s[i]]
        BY <2>6, <2>7
      <3> QED
        BY <2>9, <3>1
    <2> QED
      BY <2>3, <2>4, <2>7, <2>10 DEF Complete
  <1> QED
    BY <1>1, CompleteInvariant, PTL

=============================================================================
