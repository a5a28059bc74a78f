------------------------------- MODULE DapCmd -------------------------------
(***************************************************************************)
(* cmd/dap.rs: Dap::handle, from one command to its response, with the     *)
(* accesses it makes over Swd (read_dp, write_dp, read_ap, write_ap).  The *)
(* debugged chip is external: it acknowledges each access as it likes and  *)
(* powers up some time after it was asked to.  A request is what its bytes *)
(* say: the count, the accesses and how many data words are present.       *)
(***************************************************************************)
EXTENDS Naturals, Sequences

CONSTANTS
  TransferRequests,  \* DAP_Transfer requests: [count, ops]
  BlockRequests,     \* DAP_TransferBlock requests: [count, op, words]
  MaxCount,          \* largest count a DAP_Transfer can carry (255)
  RespLen,           \* bytes of resp after the command byte (1023)
  RetryCap,          \* most retries of a WAIT (128)
  DefaultRetry,      \* wait_retry of a new Dap (64)
  Retries,           \* values DAP_TransferConfig may set
  Sequences,         \* DAP_SWJ_Sequence requests: [bits, bytes]
  Polls              \* CTRL/STAT reads of DAP_Connect (200)

Ops == [ap : BOOLEAN, rnw : BOOLEAN, bad : BOOLEAN, data : BOOLEAN]

ASSUME DapAssumption ==
  /\ \A q \in TransferRequests : q.count \in 0 .. MaxCount /\ q.ops \in Seq(Ops)
  /\ \A q \in BlockRequests : q.count \in Nat /\ q.op \in Ops /\ q.words \in Nat
  /\ MaxCount \in Nat /\ RespLen \in Nat /\ RespLen >= 3
  /\ 2 + 4 * MaxCount <= RespLen
  /\ RetryCap \in Nat /\ DefaultRetry \in Nat /\ Retries \subseteq Nat
  /\ Sequences \subseteq [bits : Nat, bytes : Nat]
  /\ Polls \in Nat

VARIABLES
  dpc,         \* the access handle() makes next, "idle" between commands
  req,         \* the command being handled
  done,        \* transfers completed
  words,       \* words in the response: the transfer each one was read by
  tries,       \* retries of the current transfer
  polls,       \* CTRL/STAT reads made by DAP_Connect
  result,      \* the last response
  wait_retry,  \* Dap.wait_retry
  powerAsked,  \* the chip was asked to power up its debug domain (external)
  powered,     \* it reports both power acknowledgements (external)
  performed,   \* history: the transfers the chip performed, in order
  waits        \* history: WAITs the current transfer met

loopVars == <<done, words, tries, polls, performed, waits>>
vars == <<dpc, req, loopVars, result, wait_retry, powerAsked, powered>>

ST_OK == "ok"
ST_WAIT == "wait"
ST_FAULT == "fault"
ST_PROTO == "proto"
DAP_ERROR == "error"   \* 0xFF

Acks == {"ok", "wait", "fault", "unknown"}

Transfer(q) == [kind |-> "transfer", count |-> q.count, ops |-> q.ops]
Block(q) == [kind |-> "block", count |-> q.count, op |-> q.op, words |-> q.words]
Plain == [kind |-> "plain", count |-> 0]

\* Words a block's response has room for.
BlockMax == (RespLen - 3) \div 4

\* Mutant of Steps: a block's count is taken as it stands.
StepsUncapped(q) == q.count

\* Transfers the loop makes if nothing goes wrong.
Steps(q) ==
  IF q.kind = "block" /\ q.count > BlockMax THEN BlockMax ELSE q.count

\* The i-th transfer of a request, and whether its bytes are there and legal.
OpOf(q, i) == IF q.kind = "block" THEN q.op ELSE q.ops[i]

Legible(q, i) ==
  IF q.kind = "block"
    THEN q.op.rnw \/ i <= q.words
    ELSE i <= Len(q.ops) /\ ~q.ops[i].bad /\ (q.ops[i].rnw \/ q.ops[i].data)

NoResult == [done |-> 0, status |-> ST_OK, words |-> <<>>, waits |-> 0]

Init ==
  /\ dpc = "idle"
  /\ req = Plain
  /\ done = 0 /\ words = <<>> /\ tries = 0 /\ polls = 0
  /\ result = NoResult
  /\ wait_retry = DefaultRetry
  /\ powerAsked = FALSE /\ powered = FALSE
  /\ performed = <<>> /\ waits = 0

\* handle() returns; its locals are gone.
Respond(status) ==
  /\ dpc' = "idle"
  /\ result' = [done |-> done, status |-> status,
                words |-> words, waits |-> waits]
  /\ UNCHANGED <<req, loopVars>>

-----------------------------------------------------------------------------
\* A command arrives and its locals are set up.
Begin(q, where) ==
  /\ dpc = "idle"
  /\ dpc' = where
  /\ req' = q
  /\ done' = 0 /\ words' = <<>> /\ tries' = 0 /\ polls' = 0
  /\ performed' = <<>> /\ waits' = 0
  /\ UNCHANGED <<result, powerAsked, powered>>

HandleTransfer(q) == Begin(Transfer(q), "next") /\ UNCHANGED wait_retry

\* A block whose request byte has unknown bits is refused before the loop.
HandleBlock(q) ==
  /\ Begin(Block(q), IF q.op.bad THEN "refuse" ELSE "next")
  /\ UNCHANGED wait_retry

HandleConnect == Begin(Plain, "dpidr") /\ UNCHANGED wait_retry

\* DAP_WriteABORT writes only if the word is there.
HandleAbort(whole) ==
  /\ Begin(Plain, IF whole THEN "abort" ELSE "answer")
  /\ UNCHANGED wait_retry

HandleConfig(n) ==
  /\ Begin(Plain, "answer")
  /\ wait_retry' = n

\* A DAP_Transfer or DAP_TransferBlock too short for its header.
HandleShort == Begin(Plain, "refuse") /\ UNCHANGED wait_retry

\* DAP_SWJ_Sequence is refused without the bytes its bit count needs;
\* otherwise whatever the line said it is answered.
HandleSwjSequence(bits, bytes) ==
  /\ Begin(Plain, IF 8 * bytes >= bits THEN "answer" ELSE "unknown")
  /\ UNCHANGED wait_retry

\* DAP_SWJ_Pins is refused without its four arguments.
HandleSwjPins(whole) ==
  /\ Begin(Plain, IF whole THEN "answer" ELSE "unknown")
  /\ UNCHANGED wait_retry

\* Commands that touch no register: DAP_Info, DAP_Disconnect, DAP_HostStatus,
\* DAP_SWJ_Clock, DAP_SWD_Configure, a DAP_TransferConfig too short to count.
HandleOther == Begin(Plain, "answer") /\ UNCHANGED wait_retry

\* An identifier handle() does not know, or an empty request.
HandleUnknown == Begin(Plain, "unknown") /\ UNCHANGED wait_retry

-----------------------------------------------------------------------------
\* The head of the loop of dap_transfer and dap_transfer_block.
LoopEnds ==
  /\ dpc = "next" /\ done = Steps(req)
  /\ Respond(ST_OK)
  /\ UNCHANGED <<wait_retry, powerAsked, powered>>

LoopRefuses ==
  /\ \/ dpc = "next" /\ done < Steps(req) /\ ~Legible(req, done + 1)
     \/ dpc = "refuse"
  /\ Respond(ST_PROTO)
  /\ UNCHANGED <<wait_retry, powerAsked, powered>>

LoopTransfers ==
  /\ dpc = "next" /\ done < Steps(req) /\ Legible(req, done + 1)
  /\ dpc' = "access"
  /\ tries' = 0 /\ waits' = 0
  /\ UNCHANGED <<req, done, words, polls, performed, result, wait_retry, powerAsked, powered>>

Current == OpOf(req, done + 1)

\* Mutant of Succeed: a word is kept for writes too.
SucceedAlwaysAppends ==
  /\ dpc' = "next"
  /\ done' = done + 1
  /\ words' = Append(words, done + 1)
  /\ UNCHANGED <<tries, waits, result>>

\* exec_transfer() succeeded: a read adds its word to the response.
Succeed ==
  /\ dpc' = "next"
  /\ done' = done + 1
  /\ words' = IF Current.rnw THEN Append(words, done + 1) ELSE words
  /\ UNCHANGED <<tries, waits, result>>

RetryLimit == IF wait_retry < RetryCap THEN wait_retry ELSE RetryCap

\* Mutant of MetWait: one retry more than the limit.
MetWaitOneMore ==
  /\ waits' = waits + 1
  /\ IF tries <= RetryLimit
       THEN /\ tries' = tries + 1
            /\ dpc' = "access"
            /\ UNCHANGED <<done, words, result>>
       ELSE /\ dpc' = "idle"
            /\ result' = [done |-> done, status |-> ST_WAIT,
                          words |-> words, waits |-> waits']
            /\ UNCHANGED <<done, words, tries>>

\* exec_transfer() met a WAIT: the whole access again, or give up.
MetWait ==
  /\ waits' = waits + 1
  /\ IF tries < RetryLimit
       THEN /\ tries' = tries + 1
            /\ dpc' = "access"
            /\ UNCHANGED <<done, words, result>>
       ELSE /\ dpc' = "idle"
            /\ result' = [done |-> done, status |-> ST_WAIT,
                          words |-> words, waits |-> waits']
            /\ UNCHANGED <<done, words, tries>>

\* exec_transfer() met anything else.
MetError(status) ==
  /\ dpc' = "idle"
  /\ result' = [done |-> done, status |-> status,
                words |-> words, waits |-> waits]
  /\ UNCHANGED <<done, words, tries, waits>>

\* Mutant of Access: an unreadable acknowledgement is retried like a WAIT.
AccessRetriesUnknown ==
  /\ dpc = "access"
  /\ UNCHANGED <<req, polls, wait_retry, powerAsked, powered>>
  /\ \/ /\ performed' = Append(performed, done + 1)
        /\ IF Current.ap /\ Current.rnw
             THEN dpc' = "rdbuff" /\ UNCHANGED <<done, words, tries, waits, result>>
             ELSE Succeed
     \/ MetWait /\ UNCHANGED performed
     \/ performed' \in {performed, Append(performed, done + 1)} /\ MetWait

\* Swd::transfer for the current access.  The chip performs what it
\* acknowledges with OK, even if the word is then received with a wrong
\* parity; behind an acknowledgement that was garbled it may have as well.
Access ==
  /\ dpc = "access"
  /\ UNCHANGED <<req, polls, wait_retry, powerAsked, powered>>
  /\ \/ /\ performed' = Append(performed, done + 1)
        /\ IF Current.ap /\ Current.rnw
             THEN dpc' = "rdbuff" /\ UNCHANGED <<done, words, tries, waits, result>>
             ELSE Succeed
     \/ Current.rnw /\ performed' = Append(performed, done + 1) /\ MetError(ST_PROTO)
     \/ MetWait /\ UNCHANGED performed
     \/ MetError(ST_FAULT) /\ UNCHANGED performed
     \/ performed' \in {performed, Append(performed, done + 1)} /\ MetError(ST_PROTO)

\* read_rdbuff(), the second half of read_ap(): the word of the posted read.
Rdbuff ==
  /\ dpc = "rdbuff"
  /\ UNCHANGED <<req, polls, performed, wait_retry, powerAsked, powered>>
  /\ \/ Succeed
     \/ MetWait
     \/ \E status \in {ST_FAULT, ST_PROTO} : MetError(status)

\* dap_write_abort() ignores the acknowledgement; commands without accesses
\* answer at once.
AnswerPlain ==
  /\ dpc \in {"abort", "answer"}
  /\ Respond(ST_OK)
  /\ UNCHANGED <<wait_retry, powerAsked, powered>>

AnswerError ==
  /\ dpc = "unknown"
  /\ Respond(DAP_ERROR)
  /\ UNCHANGED <<wait_retry, powerAsked, powered>>

-----------------------------------------------------------------------------
\* dap_connect(): whatever DPIDR says, ask for power, then poll.
ReadDpidr ==
  /\ dpc = "dpidr"
  /\ dpc' = "power"
  /\ UNCHANGED <<req, loopVars, result, wait_retry, powerAsked, powered>>

AskPower(ack) ==
  /\ dpc = "power"
  /\ dpc' = "poll"
  /\ powerAsked' = (powerAsked \/ ack = "ok")
  /\ UNCHANGED <<req, loopVars, result, wait_retry, powered>>

\* Mutant of PollPower: an error is taken for success.
PollPowerIgnoresErrors(ack) ==
  /\ dpc = "poll" /\ polls < Polls
  /\ UNCHANGED <<req, done, words, tries, performed, waits, wait_retry, powerAsked, powered>>
  /\ IF ack # "ok" \/ powered
       THEN /\ dpc' = "idle"
            /\ result' = NoResult
            /\ UNCHANGED polls
       ELSE /\ polls' = polls + 1
            /\ UNCHANGED <<dpc, result>>

\* Mutant of PollPower: the polls are not counted.
PollPowerUncounted(ack) ==
  /\ dpc = "poll" /\ polls < Polls
  /\ ack = "ok" /\ powered
  /\ dpc' = "idle"
  /\ result' = NoResult
  /\ UNCHANGED <<req, loopVars, wait_retry, powerAsked, powered>>

\* A poll that sees both acknowledgements ends with success; a poll that
\* does not, or whose access fails, uses up one of the tries.
PollPower(ack) ==
  /\ dpc = "poll" /\ polls < Polls
  /\ UNCHANGED <<req, done, words, tries, performed, waits, wait_retry, powerAsked, powered>>
  /\ IF ack = "ok" /\ powered
       THEN /\ dpc' = "idle"
            /\ result' = NoResult
            /\ UNCHANGED polls
       ELSE /\ polls' = polls + 1
            /\ UNCHANGED <<dpc, result>>

PollGivesUp ==
  /\ dpc = "poll" /\ polls = Polls
  /\ Respond(ST_FAULT)
  /\ UNCHANGED <<wait_retry, powerAsked, powered>>

-----------------------------------------------------------------------------
\* serve() makes a new Dap for each connection.
NewDap ==
  /\ dpc = "idle"
  /\ wait_retry' = DefaultRetry
  /\ UNCHANGED <<dpc, req, loopVars, result, powerAsked, powered>>

\* The chip powers up after it was asked to, or is reset between commands.
ChipPowersUp ==
  /\ powerAsked /\ ~powered
  /\ powered' = TRUE
  /\ UNCHANGED <<dpc, req, loopVars, result, wait_retry, powerAsked>>

ChipReset ==
  /\ dpc = "idle"
  /\ powerAsked' = FALSE /\ powered' = FALSE
  /\ UNCHANGED <<dpc, req, loopVars, result, wait_retry>>

Command ==
  \/ \E q \in TransferRequests : HandleTransfer(q)
  \/ \E q \in BlockRequests : HandleBlock(q)
  \/ HandleConnect
  \/ \E whole \in BOOLEAN : HandleAbort(whole) \/ HandleSwjPins(whole)
  \/ \E s \in Sequences : HandleSwjSequence(s.bits, s.bytes)
  \/ \E n \in Retries : HandleConfig(n)
  \/ HandleShort
  \/ HandleOther
  \/ HandleUnknown

Step ==
  \/ LoopEnds \/ LoopRefuses \/ LoopTransfers
  \/ Access \/ Rdbuff \/ AnswerPlain \/ AnswerError
  \/ ReadDpidr \/ PollGivesUp
  \/ \E ack \in Acks : AskPower(ack) \/ PollPower(ack)

Next == Command \/ Step \/ NewDap \/ ChipPowersUp \/ ChipReset

\* handle() never yields: once started it runs to its end.
Spec == Init /\ [][Next]_vars /\ WF_vars(Step)
-----------------------------------------------------------------------------
\* Type invariant.
TypeOK ==
  /\ dpc \in {"idle", "next", "refuse", "access", "rdbuff", "abort", "answer", "unknown",
              "dpidr", "power", "poll"}
  /\ done \in 0 .. Steps(req)
  /\ words \in Seq(Nat) /\ performed \in Seq(Nat)
  /\ tries \in 0 .. RetryCap
  /\ polls \in 0 .. Polls
  /\ waits \in Nat /\ wait_retry \in Nat
  /\ powerAsked \in BOOLEAN /\ powered \in BOOLEAN
  /\ result.status \in {ST_OK, ST_WAIT, ST_FAULT, ST_PROTO, DAP_ERROR}

(***************************************************************************)
(* The response never outgrows resp: the slices dap_transfer and           *)
(* dap_transfer_block write to are inside it, or the firmware panics.      *)
(***************************************************************************)
ResponseFits ==
  (IF req.kind = "block" THEN 3 ELSE 2) + 4 * Len(words) <= RespLen

(***************************************************************************)
(* The chip performs the transfers of a command in their order, each of    *)
(* the completed ones and at most one beyond them.  A transfer other than  *)
(* an AP read is performed once: no register write and no DP read is       *)
(* repeated, however many WAITs are retried (exec_transfer).               *)
(***************************************************************************)
PerformedInOrder ==
  /\ {performed[k] : k \in DOMAIN performed} \in {1 .. done, 1 .. done + 1}
  /\ \A k \in 1 .. Len(performed) - 1 :
       \/ performed[k + 1] = performed[k] + 1
       \/ /\ performed[k + 1] = performed[k]
          /\ OpOf(req, performed[k]).ap /\ OpOf(req, performed[k]).rnw

(***************************************************************************)
(* The response says what happened: it reports success exactly when every  *)
(* transfer there is room for was completed, its count is the number of    *)
(* transfers completed, all of which the chip performed, and its words are *)
(* those of the reads among them, in order.                                *)
(***************************************************************************)
Reported == dpc = "idle" /\ req.kind \in {"transfer", "block"}

ResponseIsTrue ==
  Reported =>
    /\ (result.status = ST_OK) <=>
         (result.done = Steps(req) /\ ~(req.kind = "block" /\ req.op.bad))
    /\ 1 .. result.done \subseteq {performed[k] : k \in DOMAIN performed}
    /\ {result.words[k] : k \in DOMAIN result.words}
         = {i \in 1 .. result.done : OpOf(req, i).rnw}
    /\ \A k \in 1 .. Len(result.words) - 1 : result.words[k] < result.words[k + 1]

(***************************************************************************)
(* WAIT goes back to the host only after all the retries it configured, or *)
(* RetryCap of them if it asked for more (dap.rs:268).                     *)
(***************************************************************************)
WaitIsLastResort ==
  [][dpc # "idle" /\ dpc' = "idle" /\ result'.status = ST_WAIT =>
       result'.waits = 1 + RetryLimit]_vars

(***************************************************************************)
(* DAP_Connect reports success only when the chip acknowledged both power  *)
(* requests (dap_connect).                                                 *)
(***************************************************************************)
ConnectMeansPowered ==
  [][dpc = "poll" /\ dpc' = "idle" /\ result'.status = ST_OK =>
       powered /\ powerAsked]_vars

(***************************************************************************)
(* handle() returns, though nothing interrupts it: retries and polls are   *)
(* bounded, so the executor gets the processor back.                       *)
(***************************************************************************)
HandleReturns == dpc # "idle" ~> dpc = "idle"
=============================================================================
