------------------------------- MODULE LogHub -------------------------------
(***************************************************************************)
(* logs.rs, the two log routes of web.rs and the script of dashboard.html: *)
(* threads publish events, a page fetches the history and follows the      *)
(* stream.  publish() is three steps, and other threads may come between   *)
(* them.  Of an event only the run of the host and its number are kept.    *)
(***************************************************************************)
EXTENDS Integers, SequencesExt

CONSTANTS
  Threads,           \* threads that log
  RING_CAPACITY,     \* events kept for the history (512)
  CHANNEL_CAPACITY,  \* live events a slow page may lag behind (1024)
  MaxEvents,         \* bound: events published in a run
  MaxFaults          \* bound: broken streams and restarts of the host

ASSUME LogAssumption ==
  /\ RING_CAPACITY \in Nat \ {0} /\ CHANNEL_CAPACITY \in Nat \ {0}
  /\ MaxEvents \in Nat /\ MaxFaults \in Nat

VARIABLES
  run,      \* the host's run, counted from 0
  SEQ,      \* the next number
  ring,     \* Hub.ring
  at,       \* where a thread is in publish(): idle, ring, send
  ev,       \* its event
  rx,       \* the page's stream is open: it has a receiver
  queue,    \* live events on their way to the page
  hist,     \* the page's history: asked, got, showing, done, failed
  list,     \* the answer it got, while it is shown the events that are left
  page,     \* lastSeq, the events shown and the events addLog() refused
  faults,
  sent,     \* history: events sent on the channel in this run
  pushed,   \* history: events pushed to the ring in this run
  heard,    \* history: events sent to the page's open stream
  taken,    \* history: pushed when the history was answered
  overtaken,\* history: events that a later number was pushed or sent before
  dropped,  \* history: events the ring gave up in this run
  late,     \* history: events of a history that came behind a live event, and
            \* events the ring had given up when the history was answered
  causes    \* history: what went wrong with the stream

hub == <<run, SEQ, ring, at, ev>>
browser == <<hist, list, page>>
history == <<sent, pushed, heard, taken, overtaken, dropped, late, causes>>
vars == <<hub, rx, queue, browser, faults, history>>

Events == [run : 0 .. MaxFaults, seq : 0 .. MaxEvents]

Init ==
  /\ run = 0 /\ SEQ = 0 /\ ring = <<>>
  /\ at = [t \in Threads |-> "idle"]
  /\ ev = [t \in Threads |-> [run |-> 0, seq |-> 0]]
  /\ rx = FALSE /\ queue = <<>>
  /\ hist = "asked" /\ list = <<>>
  /\ page = [lastSeq |-> -1, shown |-> <<>>, hidden |-> {}]
  /\ faults = 0
  /\ sent = 0 /\ pushed = 0 /\ heard = {} /\ taken = 0
  /\ overtaken = {} /\ dropped = {} /\ late = {} /\ causes = {}

-----------------------------------------------------------------------------
\* Events with a smaller number that other threads still have in hand.
Overtaken(t) == {ev[u] : u \in {x \in Threads : at[x] # "idle" /\ ev[x].seq < ev[t].seq}}

\* publish() takes a number,
TakeNumber(t) ==
  /\ at[t] = "idle"
  /\ SEQ < MaxEvents
  /\ ev' = [ev EXCEPT ![t] = [run |-> run, seq |-> SEQ]]
  /\ SEQ' = SEQ + 1
  /\ at' = [at EXCEPT ![t] = "ring"]
  /\ UNCHANGED <<run, ring, rx, queue, browser, faults, history>>

\* The ring gives up its oldest event when it is full.
Kept(events, e) == (IF Len(events) >= RING_CAPACITY THEN Tail(events) ELSE events) \o <<e>>

\* locks the ring and pushes the event,
Push(t) ==
  /\ at[t] = "ring"
  /\ ring' = Kept(ring, ev[t])
  /\ pushed' = pushed + 1
  /\ dropped' = dropped \cup (ToSet(ring) \ ToSet(ring'))
  /\ overtaken' = overtaken \cup Overtaken(t)
  /\ at' = [at EXCEPT ![t] = "send"]
  /\ UNCHANGED <<run, SEQ, ev, rx, queue, browser, faults, sent, heard, taken, late, causes>>

\* and sends it to the receivers there are.  One that is CHANNEL_CAPACITY
\* behind loses the oldest; log_stream() passes over the error it gets.
Send(t) ==
  /\ at[t] = "send"
  /\ LET all == Append(queue, ev[t])
     IN  queue' = IF ~rx THEN queue ELSE IF Len(all) > CHANNEL_CAPACITY THEN Tail(all) ELSE all
  /\ causes' = causes
       \cup (IF rx /\ Len(queue) = CHANNEL_CAPACITY THEN {"lag"} ELSE {})
       \cup (IF ~rx /\ hist \in {"got", "showing", "done"} /\ ev[t].seq >= taken THEN {"gap"} ELSE {})
  /\ sent' = sent + 1
  /\ heard' = IF rx THEN heard \cup {ev[t]} ELSE heard
  /\ overtaken' = overtaken \cup Overtaken(t)
  /\ at' = [at EXCEPT ![t] = "idle"]
  /\ UNCHANGED <<run, SEQ, ring, ev, rx, browser, faults, pushed, taken, dropped, late>>

-----------------------------------------------------------------------------
\* GET /api/logs/stream, first or again after the stream broke: the receiver
\* sees what is sent from now on.
Subscribe ==
  /\ ~rx
  /\ rx' = TRUE
  /\ UNCHANGED <<hub, queue, browser, faults, history>>

\* GET /api/logs/history, once per page.
History ==
  /\ hist = "asked"
  /\ hist' = "got"
  /\ list' = ring
  /\ taken' = pushed
  /\ late' = late \cup dropped
  /\ UNCHANGED <<hub, rx, queue, page, faults, sent, pushed, heard, overtaken, dropped, causes>>

\* Mutant of AddLog: an event may have the number of the last one.
AddLogTwice(p, e) ==
  IF e.seq < p.lastSeq
    THEN [p EXCEPT !.hidden = @ \cup {e}]
    ELSE [p EXCEPT !.lastSeq = e.seq, !.shown = Append(@, e)]

\* Mutant of AddLog: the number expected next is remembered.
AddLogAhead(p, e) ==
  IF e.seq <= p.lastSeq
    THEN [p EXCEPT !.hidden = @ \cup {e}]
    ELSE [p EXCEPT !.lastSeq = e.seq + 1, !.shown = Append(@, e)]

\* addLog(): only numbers above the last one are shown.
AddLog(p, e) ==
  IF e.seq <= p.lastSeq
    THEN [p EXCEPT !.hidden = @ \cup {e}]
    ELSE [p EXCEPT !.lastSeq = e.seq, !.shown = Append(@, e)]

\* loadHistory() has the answer
ShowHistory ==
  /\ hist = "got"
  /\ hist' = "showing"
  /\ late' = IF page.shown = <<>> THEN late ELSE late \cup ToSet(list)
  /\ causes' = IF page.shown = <<>> THEN causes ELSE causes \cup {"liveFirst"}
  /\ UNCHANGED <<hub, rx, queue, list, page, faults, sent, pushed, heard, taken, overtaken, dropped>>

\* and goes through it; the script takes no live event until it is through.
ShowNext ==
  /\ hist = "showing" /\ list # <<>>
  /\ page' = AddLog(page, Head(list))
  /\ list' = Tail(list)
  /\ UNCHANGED <<hub, rx, queue, hist, faults, history>>

HistoryShown ==
  /\ hist = "showing" /\ list = <<>>
  /\ hist' = "done"
  /\ UNCHANGED <<hub, rx, queue, list, page, faults, history>>

LoadHistory == ShowHistory \/ ShowNext \/ HistoryShown

\* Mutant of ShowLive: live events are thrown away until the history is there.
ShowLiveLater ==
  /\ queue # <<>> /\ hist # "showing"
  /\ queue' = Tail(queue)
  /\ page' = IF hist = "done" THEN AddLog(page, Head(queue)) ELSE page
  /\ UNCHANGED <<hub, rx, hist, list, faults, history>>

\* The page gets a live event.
ShowLive ==
  /\ queue # <<>> /\ hist # "showing"
  /\ queue' = Tail(queue)
  /\ page' = AddLog(page, Head(queue))
  /\ UNCHANGED <<hub, rx, hist, list, faults, history>>

-----------------------------------------------------------------------------
\* The stream breaks; what was on its way is lost.
StreamBreaks ==
  /\ rx /\ faults < MaxFaults
  /\ faults' = faults + 1
  /\ rx' = FALSE /\ queue' = <<>>
  /\ causes' = causes \cup {"break"}
  /\ UNCHANGED <<hub, browser, sent, pushed, heard, taken, overtaken, dropped, late>>

\* The host is started again while the page stays open.
HostRestarts ==
  /\ faults < MaxFaults
  /\ faults' = faults + 1
  /\ run' = run + 1 /\ SEQ' = 0 /\ ring' = <<>>
  /\ at' = [t \in Threads |-> "idle"]
  /\ rx' = FALSE /\ queue' = <<>>
  /\ hist' = IF hist = "asked" THEN "failed" ELSE hist
  /\ sent' = 0 /\ pushed' = 0 /\ dropped' = {}
  /\ causes' = causes \cup {"restart"}
  /\ UNCHANGED <<ev, list, page, heard, taken, overtaken, late>>

Publish(t) == TakeNumber(t) \/ Push(t) \/ Send(t)

Next ==
  \/ \E t \in Threads : Publish(t)
  \/ Subscribe \/ History \/ LoadHistory \/ ShowLive
  \/ StreamBreaks \/ HostRestarts

\* The threads run on, the server answers and the browser reconnects.
Fairness ==
  /\ \A t \in Threads : WF_vars(Push(t) \/ Send(t))
  /\ WF_vars(Subscribe) /\ WF_vars(History) /\ WF_vars(LoadHistory) /\ WF_vars(ShowLive)

Spec == Init /\ [][Next]_vars /\ Fairness
-----------------------------------------------------------------------------
(***************************************************************************)
(* No event is shown twice, although the history and the stream overlap:   *)
(* an event may be in the ring before it is sent (publish, addLog).        *)
(***************************************************************************)
ShownOnce == IsInjective(page.shown)

(***************************************************************************)
(* The page refuses an event it has not shown only because a later number  *)
(* overtook it in the hub, because a live event came before the history it *)
(* is in, because the ring no longer had it when the history it came       *)
(* behind was answered, or because the host was restarted and counts again *)
(* from 0 while the page remembers a number of an earlier run.             *)
(***************************************************************************)
HiddenForAReason ==
  \A e \in page.hidden :
    \/ e \in ToSet(page.shown)
    \/ e \in overtaken
    \/ e \in late
    \/ \E f \in ToSet(page.shown) : f.run < e.run /\ f.seq >= e.seq

(***************************************************************************)
(* A page that is up to date shows every event from the oldest the ring    *)
(* held on, without a hole, unless threads overtook each other, it lagged, *)
(* its stream broke, the host was restarted, the history came behind a     *)
(* live event, or events were sent after the history was answered and      *)
(* before the stream was opened.                                           *)
(***************************************************************************)
UpToDate == hist = "done" /\ rx /\ queue = <<>>

Complete ==
  UpToDate /\ causes = {} /\ overtaken = {} =>
    LET first == IF taken > RING_CAPACITY THEN taken - RING_CAPACITY ELSE 0
        end == IF taken > sent THEN taken ELSE sent
    IN  page.shown = [i \in 1 .. end - first |-> [run |-> 0, seq |-> first + i - 1]]

(***************************************************************************)
(* Every event of the run that was sent while the page had its stream open *)
(* is shown or refused in the end, unless the stream broke or lagged or    *)
(* the host was restarted (publish, log_stream, EventSource).              *)
(***************************************************************************)
EventuallyHandled ==
  <>[](heard \subseteq ToSet(page.shown) \cup page.hidden
         \/ causes \cap {"lag", "break", "restart"} # {})
=============================================================================
