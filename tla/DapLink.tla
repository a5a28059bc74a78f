------------------------------ MODULE DapLink ------------------------------
(***************************************************************************)
(* link.rs: one DapLink per USB/IP session.  request() sends one frame and *)
(* waits for one frame, every await under a timeout; when the attempt      *)
(* fails it drops the stream, connects again and tries once more.  The     *)
(* program counter names the await the session is suspended in.            *)
(***************************************************************************)
EXTENDS Tcp

CONSTANTS
  MAX_FRAME,     \* longest payload either direction (4096)
  Requests       \* payloads the bridge may send

ASSUME LinkAssumption ==
  /\ MAX_FRAME \in Nat
  /\ MAX_FRAME < LenLimit
  /\ \A p \in Requests : p \in Seq(Byte)

VARIABLES
  lpc,           \* where request() is suspended
  attempt,       \* 1: first try_request, 2: after the reconnect
  payload,       \* the payload being sent
  skipped,       \* bytes read_frame has skipped looking for the magic
  need,          \* length announced by the frame being read
  answer,        \* what the last request() that used the link returned
  LINK_REQUESTS, LINK_RETRIES, LINK_ERRORS   \* metrics.rs counters

linkVars == <<lpc, attempt, payload, skipped, need, answer,
              LINK_REQUESTS, LINK_RETRIES, LINK_ERRORS>>

PCs == {"idle", "connect", "reconnect", "write", "magic", "len", "payload"}

Err == [ok |-> FALSE, resp |-> <<>>]
Ok(bytes) == [ok |-> TRUE, resp |-> bytes]

LinkTypeOK ==
  /\ lpc \in [Sessions -> PCs]
  /\ attempt \in [Sessions -> 1 .. 2]
  /\ payload \in [Sessions -> Seq(Byte)]
  /\ skipped \in [Sessions -> Nat]
  /\ need \in [Sessions -> Nat]
  /\ answer \in [Sessions -> [ok : BOOLEAN, resp : Seq(Byte)]]
  /\ LINK_REQUESTS \in Nat /\ LINK_RETRIES \in Nat /\ LINK_ERRORS \in Nat

LinkInit ==
  /\ lpc = [h \in Sessions |-> "idle"]
  /\ attempt = [h \in Sessions |-> 1]
  /\ payload = [h \in Sessions |-> <<>>]
  /\ skipped = [h \in Sessions |-> 0]
  /\ need = [h \in Sessions |-> 0]
  /\ answer = [h \in Sessions |-> Err]
  /\ LINK_REQUESTS = 0 /\ LINK_RETRIES = 0 /\ LINK_ERRORS = 0

Goto(h, where) == lpc' = [lpc EXCEPT ![h] = where]

Return(h, result) ==
  /\ Goto(h, "idle")
  /\ answer' = [answer EXCEPT ![h] = result]

\* request() refuses an oversized payload before it touches the link or a
\* counter: the error it returns at once is not kept in answer.
RequestTooLarge(h, p) ==
  /\ lpc[h] = "idle"
  /\ Len(p) > MAX_FRAME
  /\ UNCHANGED <<linkVars, tcpVars>>

\* request(): the first try_request, whose ensure() connects if needed.
Request(h, p) ==
  /\ lpc[h] = "idle"
  /\ Len(p) <= MAX_FRAME
  /\ LINK_REQUESTS' = LINK_REQUESTS + 1
  /\ attempt' = [attempt EXCEPT ![h] = 1]
  /\ payload' = [payload EXCEPT ![h] = p]
  /\ Goto(h, IF stream[h] = "none" THEN "connect" ELSE "write")
  /\ UNCHANGED <<skipped, need, answer, LINK_RETRIES, LINK_ERRORS, tcpVars>>

\* Mutant of FailTry: one more attempt than the code makes.
FailTryTwice(h) ==
  /\ DropStream(h)
  /\ \/ /\ attempt[h] < 3
        /\ Goto(h, "reconnect")
        /\ attempt' = [attempt EXCEPT ![h] = @ + 1]
        /\ LINK_RETRIES' = LINK_RETRIES + 1
        /\ UNCHANGED <<answer, LINK_ERRORS>>
     \/ /\ attempt[h] = 3
        /\ Return(h, Err)
        /\ LINK_ERRORS' = LINK_ERRORS + 1
        /\ UNCHANGED <<attempt, LINK_RETRIES>>
  /\ UNCHANGED <<payload, skipped, need, LINK_REQUESTS>>

\* Mutant of FailTry: try_request keeps the stream it failed on.
FailTryKeepsStream(h) ==
  /\ \/ /\ attempt[h] = 1
        /\ DropStream(h)
        /\ Goto(h, "reconnect")
        /\ attempt' = [attempt EXCEPT ![h] = 2]
        /\ LINK_RETRIES' = LINK_RETRIES + 1
        /\ UNCHANGED <<answer, LINK_ERRORS>>
     \/ /\ attempt[h] = 2
        /\ Return(h, Err)
        /\ LINK_ERRORS' = LINK_ERRORS + 1
        /\ UNCHANGED <<attempt, LINK_RETRIES, stream, inbox>>
  /\ UNCHANGED <<payload, skipped, need, LINK_REQUESTS>>

\* Mutant of FailTry: the retry is not counted.
FailTryUncounted(h) ==
  /\ DropStream(h)
  /\ \/ /\ attempt[h] = 1
        /\ Goto(h, "reconnect")
        /\ attempt' = [attempt EXCEPT ![h] = 2]
        /\ UNCHANGED <<answer, LINK_ERRORS>>
     \/ /\ attempt[h] = 2
        /\ Return(h, Err)
        /\ LINK_ERRORS' = LINK_ERRORS + 1
        /\ UNCHANGED attempt
  /\ UNCHANGED <<payload, skipped, need, LINK_REQUESTS, LINK_RETRIES>>

\* What a failed try_request leads to: the stream is dropped and the first
\* failure is followed by a reconnect, the second one is final.
FailTry(h) ==
  /\ DropStream(h)
  /\ \/ /\ attempt[h] = 1
        /\ Goto(h, "reconnect")
        /\ attempt' = [attempt EXCEPT ![h] = 2]
        /\ LINK_RETRIES' = LINK_RETRIES + 1
        /\ UNCHANGED <<answer, LINK_ERRORS>>
     \/ /\ attempt[h] = 2
        /\ Return(h, Err)
        /\ LINK_ERRORS' = LINK_ERRORS + 1
        /\ UNCHANGED <<attempt, LINK_RETRIES>>
  /\ UNCHANGED <<payload, skipped, need, LINK_REQUESTS>>

\* connect() succeeds only while the firmware listens.
Connect(h) ==
  /\ lpc[h] \in {"connect", "reconnect"}
  /\ Establish(h, "live")
  /\ Goto(h, "write")
  /\ UNCHANGED <<attempt, payload, skipped, need, answer, LINK_REQUESTS,
                 LINK_RETRIES, LINK_ERRORS>>

\* The connect of ensure() is refused or times out; late says whether the
\* firmware's end was established all the same.
ConnectFails(h, late) ==
  /\ lpc[h] = "connect"
  /\ FailTry(h)
  /\ IF late
       THEN /\ listening
            /\ listening' = FALSE
            /\ peer' = h
            /\ up' = <<>>
       ELSE UNCHANGED <<listening, peer, up>>

\* The reconnect fails: request() returns through `?`, past note_link_error.
ReconnectFails(h, late) ==
  /\ lpc[h] = "reconnect"
  /\ Return(h, Err)
  /\ IF late THEN Establish(h, "none") ELSE UNCHANGED tcpVars
  /\ UNCHANGED <<attempt, payload, skipped, need, LINK_REQUESTS, LINK_RETRIES,
                 LINK_ERRORS>>

\* write_all() takes the whole frame.
Write(h) ==
  /\ lpc[h] = "write"
  /\ PutUp(h, Wire(payload[h]))
  /\ Goto(h, "magic")
  /\ skipped' = [skipped EXCEPT ![h] = 0]
  /\ UNCHANGED <<attempt, payload, need, answer, LINK_REQUESTS, LINK_RETRIES,
                 LINK_ERRORS, listening, peer, stream, inbox>>

\* write_all() fails or times out after the first n bytes have gone out.
WriteFails(h, n) ==
  /\ lpc[h] = "write"
  /\ n < Len(Wire(payload[h]))
  /\ n = 0 \/ MidFrameLoss
  /\ PutUp(h, SubSeq(Wire(payload[h]), 1, n))
  /\ FailTry(h)
  /\ UNCHANGED <<listening, peer>>

\* The bytes the pending read_exact() asks for.
Wanted(h) ==
  CASE lpc[h] = "magic"   -> 1
    [] lpc[h] = "len"     -> 2
    [] lpc[h] = "payload" -> need[h]

Reading(h) == lpc[h] \in {"magic", "len", "payload"}

CanRead(h) == Reading(h) /\ Len(inbox[h]) >= Wanted(h)

TakeInbox(h) ==
  inbox' = [inbox EXCEPT ![h] = SubSeq(@, Wanted(h) + 1, Len(@))]

\* Mutant of ReadFails: read_exact() without a timeout.
ReadFailsOnlyOnEof(h) ==
  /\ Reading(h)
  /\ stream[h] = "dead"
  /\ FailTry(h)
  /\ UNCHANGED <<listening, peer, up>>

\* read_exact() times out, meets the end of the stream or an error.  The
\* bytes of the inbox may still be on their way when the timer fires.
ReadFails(h) ==
  /\ Reading(h)
  /\ FailTry(h)
  /\ UNCHANGED <<listening, peer, up>>

ReadMagic(h) ==
  /\ lpc[h] = "magic"
  /\ CanRead(h)
  /\ Head(inbox[h]) = FRAME_MAGIC
  /\ TakeInbox(h)
  /\ Goto(h, "len")
  /\ UNCHANGED <<attempt, payload, skipped, need, answer, LINK_REQUESTS,
                 LINK_RETRIES, LINK_ERRORS, listening, peer, up, stream>>

\* A byte that is not the magic is skipped, at most MAX_FRAME of them.
SkipByte(h) ==
  /\ lpc[h] = "magic"
  /\ CanRead(h)
  /\ Head(inbox[h]) # FRAME_MAGIC
  /\ IF skipped[h] + 1 > MAX_FRAME
       THEN FailTry(h)
       ELSE /\ TakeInbox(h)
            /\ skipped' = [skipped EXCEPT ![h] = @ + 1]
            /\ UNCHANGED <<lpc, attempt, payload, need, answer, LINK_REQUESTS,
                           LINK_RETRIES, LINK_ERRORS, stream>>
  /\ UNCHANGED <<listening, peer, up>>

\* Mutant of ReadLen: the two length bytes are swapped.
ReadLenSwapped(h) ==
  /\ lpc[h] = "len"
  /\ CanRead(h)
  /\ LET n == AnnouncedLen(inbox[h][2], inbox[h][1])
     IN  IF n > MAX_FRAME
           THEN FailTry(h)
           ELSE /\ TakeInbox(h)
                /\ need' = [need EXCEPT ![h] = n]
                /\ Goto(h, "payload")
                /\ UNCHANGED <<attempt, payload, skipped, answer, LINK_REQUESTS,
                               LINK_RETRIES, LINK_ERRORS, stream>>
  /\ UNCHANGED <<listening, peer, up>>

ReadLen(h) ==
  /\ lpc[h] = "len"
  /\ CanRead(h)
  /\ LET n == AnnouncedLen(inbox[h][1], inbox[h][2])
     IN  IF n > MAX_FRAME
           THEN FailTry(h)
           ELSE /\ TakeInbox(h)
                /\ need' = [need EXCEPT ![h] = n]
                /\ Goto(h, "payload")
                /\ UNCHANGED <<attempt, payload, skipped, answer, LINK_REQUESTS,
                               LINK_RETRIES, LINK_ERRORS, stream>>
  /\ UNCHANGED <<listening, peer, up>>

\* The whole payload has arrived: request() returns it and keeps the stream.
ReadPayload(h) ==
  /\ lpc[h] = "payload"
  /\ CanRead(h)
  /\ TakeInbox(h)
  /\ Return(h, Ok(SubSeq(inbox[h], 1, need[h])))
  /\ UNCHANGED <<attempt, payload, skipped, need, LINK_REQUESTS, LINK_RETRIES,
                 LINK_ERRORS, listening, peer, up, stream>>

\* The USB/IP session ends between two requests and its DapLink is dropped;
\* a later session starts with a new one.
Detach(h) ==
  /\ lpc[h] = "idle"
  /\ stream[h] # "none"
  /\ DropStream(h)
  /\ UNCHANGED <<listening, peer, up, linkVars>>
=============================================================================
