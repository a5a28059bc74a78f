---------------------------- MODULE DapCmdProofs ----------------------------
(***************************************************************************)
(* The safety properties of Dap::handle for any requests, buffer length,   *)
(* retry limits and number of polls.                                       *)
(***************************************************************************)
EXTENDS DapCmd, TLAPS

Commands ==
  {Transfer(q) : q \in TransferRequests} \cup {Block(q) : q \in BlockRequests} \cup {Plain}

\* Where handle() is while it works through a list of transfers, and while
\* it does anything else.
InLoop == {"next", "access", "rdbuff"}
Elsewhere == {"abort", "answer", "unknown", "dpidr", "power", "poll"}

Refused == req.kind = "block" /\ req.op.bad

\* Types, and which command handle() is at.
CmdInv ==
  /\ TypeOK
  /\ req \in Commands
  /\ dpc \in InLoop => req.kind \in {"transfer", "block"} /\ ~Refused
  /\ dpc \in Elsewhere => req.kind = "plain"
  /\ dpc = "refuse" => req.kind = "plain" \/ Refused
  /\ dpc \in {"access", "rdbuff"} => done < Steps(req)
  /\ Len(words) <= done
  /\ RetryLimit \in 0 .. RetryCap

-----------------------------------------------------------------------------
\* However long a command, what it makes fits the response.
LEMMA StepsFit ==
  ASSUME NEW c \in Commands
  PROVE  /\ Steps(c) \in Nat
         /\ (IF c.kind = "block" THEN 3 ELSE 2) + 4 * Steps(c) <= RespLen
         /\ c.kind \in {"transfer", "block", "plain"}
         /\ c.kind = "plain" => Steps(c) = 0
  <1>0. RespLen \in Nat /\ RespLen >= 3 /\ MaxCount \in Nat /\ 2 + 4 * MaxCount <= RespLen
    BY DapAssumption
  <1>1. CASE \E q \in TransferRequests : c = Transfer(q)
    <2> PICK q \in TransferRequests : c = Transfer(q)
      BY <1>1
    <2>1. c.kind = "transfer" /\ c.count = q.count /\ q.count \in 0 .. MaxCount
      BY DapAssumption DEF Transfer
    <2> QED
      BY <1>0, <2>1 DEF Steps
  <1>2. CASE \E q \in BlockRequests : c = Block(q)
    <2> PICK q \in BlockRequests : c = Block(q)
      BY <1>2
    <2>1. c.kind = "block" /\ c.count = q.count /\ q.count \in Nat
      BY DapAssumption DEF Block
    <2>2. BlockMax \in Nat /\ 3 + 4 * BlockMax <= RespLen
      BY <1>0 DEF BlockMax
    <2>3. Steps(c) \in Nat /\ Steps(c) <= BlockMax
      BY <2>1, <2>2 DEF Steps
    <2> QED
      BY <1>0, <2>1, <2>2, <2>3
  <1>3. CASE c = Plain
    <2>1. c.kind = "plain" /\ c.count = 0
      BY <1>3 DEF Plain
    <2> QED
      BY <1>0, <2>1 DEF Steps
  <1> QED
    BY <1>1, <1>2, <1>3 DEF Commands

LEMMA LimitFits == wait_retry \in Nat => RetryLimit \in 0 .. RetryCap
  BY DapAssumption DEF RetryLimit

-----------------------------------------------------------------------------
\* What every command begins with.
LEMMA BeginStep ==
  ASSUME CmdInv, Command
  PROVE  CmdInv'
  <1>1. ASSUME NEW q \in Commands, NEW where, Begin(q, where), wait_retry' \in Nat,
               \/ where = "next" /\ q.kind \in {"transfer", "block"} /\ ~(q.kind = "block" /\ q.op.bad)
               \/ where \in Elsewhere /\ q.kind = "plain"
               \/ where = "refuse" /\ (q.kind = "plain" \/ (q.kind = "block" /\ q.op.bad))
        PROVE  CmdInv'
    <2>1. 0 \in 0 .. Steps(q) /\ 0 \in 0 .. RetryCap /\ 0 \in 0 .. Polls
      BY StepsFit, DapAssumption
    <2>2. RetryLimit' \in 0 .. RetryCap
      BY <1>1, DapAssumption DEF RetryLimit
    <2>3. <<>> \in Seq(Nat) /\ Len(<<>>) = 0
      OBVIOUS
    <2>4. TypeOK'
      BY <1>1, <2>1, <2>3 DEF Begin, CmdInv, TypeOK, Elsewhere
    <2> QED
      BY <1>1, <2>2, <2>3, <2>4 DEF Begin, CmdInv, Elsewhere, InLoop, Refused
  <1>2. wait_retry \in Nat /\ Plain \in Commands /\ Plain.kind = "plain"
    BY DEF CmdInv, TypeOK, Commands, Plain
  <1>3. ASSUME NEW q \in TransferRequests, HandleTransfer(q) PROVE CmdInv'
    <2>1. Transfer(q) \in Commands /\ Transfer(q).kind = "transfer"
      BY DEF Commands, Transfer
    <2> QED
      BY <1>1, <1>2, <1>3, <2>1 DEF HandleTransfer
  <1>4. ASSUME NEW q \in BlockRequests, HandleBlock(q) PROVE CmdInv'
    <2>1. Block(q) \in Commands /\ Block(q).kind = "block" /\ Block(q).op = q.op
      BY DEF Commands, Block
    <2>2. q.op.bad \in BOOLEAN
      BY DapAssumption DEF Ops
    <2> QED
      BY <1>1, <1>2, <1>4, <2>1, <2>2 DEF HandleBlock
  <1>5. ASSUME NEW n \in Retries, HandleConfig(n) PROVE CmdInv'
    BY <1>1, <1>2, <1>5, DapAssumption DEF HandleConfig, Elsewhere
  <1>6. ASSUME \/ HandleConnect \/ HandleShort \/ HandleOther \/ HandleUnknown
               \/ \E whole \in BOOLEAN : HandleAbort(whole) \/ HandleSwjPins(whole)
               \/ \E s \in Sequences : HandleSwjSequence(s.bits, s.bytes)
        PROVE  CmdInv'
    BY <1>1, <1>2, <1>6
       DEF HandleConnect, HandleShort, HandleOther, HandleUnknown, HandleAbort,
           HandleSwjPins, HandleSwjSequence, Elsewhere
  <1> QED
    BY <1>3, <1>4, <1>5, <1>6 DEF Command

\* Every step keeps the types, and does what its command is about.
LEMMA CmdStep == CmdInv /\ [Next]_vars => CmdInv'
  <1> SUFFICES ASSUME CmdInv, [Next]_vars PROVE CmdInv'
    OBVIOUS
  <1>0. /\ Steps(req) \in Nat /\ RetryCap \in Nat /\ Polls \in Nat
        /\ done \in 0 .. Steps(req) /\ tries \in 0 .. RetryCap /\ waits \in Nat
        /\ words \in Seq(Nat) /\ performed \in Seq(Nat) /\ wait_retry \in Nat
        /\ RetryLimit \in 0 .. RetryCap /\ Len(words) <= done
    BY StepsFit, DapAssumption DEF CmdInv, TypeOK
  <1>1. CASE Command
    BY <1>1, BeginStep
  <1>2. ASSUME LoopEnds \/ LoopRefuses \/ AnswerPlain \/ AnswerError \/ PollGivesUp
        PROVE  CmdInv'
    BY <1>2 DEF LoopEnds, LoopRefuses, AnswerPlain, AnswerError, PollGivesUp, Respond,
                CmdInv, TypeOK, loopVars, InLoop, Elsewhere, Refused, RetryLimit
  <1>3. CASE LoopTransfers
    BY <1>0, <1>3 DEF LoopTransfers, CmdInv, TypeOK, InLoop, Elsewhere, Refused, RetryLimit
  <1>4. ASSUME Succeed, dpc \in {"access", "rdbuff"}, performed' \in Seq(Nat),
               UNCHANGED <<req, polls, wait_retry, powerAsked, powered>>
        PROVE  CmdInv'
    <2>1. words' \in Seq(Nat) /\ Len(words') <= done'
      BY <1>0, <1>4 DEF Succeed
    <2>2. done' \in 0 .. Steps(req)
      BY <1>0, <1>4 DEF Succeed, CmdInv
    <2> QED
      BY <1>4, <2>1, <2>2 DEF Succeed, CmdInv, TypeOK, InLoop, Elsewhere, Refused, RetryLimit
  <1>5. ASSUME MetWait, dpc \in {"access", "rdbuff"}, performed' \in Seq(Nat),
               UNCHANGED <<req, polls, wait_retry, powerAsked, powered>>
        PROVE  CmdInv'
    <2>1. tries' \in 0 .. RetryCap /\ waits' \in Nat
      BY <1>0, <1>5 DEF MetWait
    <2>2. result'.status \in {ST_OK, ST_WAIT, ST_FAULT, ST_PROTO, DAP_ERROR}
      BY <1>5 DEF MetWait, CmdInv, TypeOK
    <2> QED
      BY <1>5, <2>1, <2>2 DEF MetWait, CmdInv, TypeOK, InLoop, Elsewhere, Refused, RetryLimit
  <1>6. ASSUME NEW status \in {ST_FAULT, ST_PROTO}, MetError(status),
               dpc \in {"access", "rdbuff"}, performed' \in Seq(Nat),
               UNCHANGED <<req, polls, wait_retry, powerAsked, powered>>
        PROVE  CmdInv'
    BY <1>6 DEF MetError, CmdInv, TypeOK, InLoop, Elsewhere, Refused, RetryLimit
  <1>7. CASE Access
    <2>1. Append(performed, done + 1) \in Seq(Nat)
      BY <1>0
    <2>2. CASE /\ dpc' = "rdbuff" /\ performed' = Append(performed, done + 1)
               /\ UNCHANGED <<done, words, tries, waits, result>>
      BY <1>7, <2>1, <2>2 DEF Access, CmdInv, TypeOK, InLoop, Elsewhere, Refused, RetryLimit
    <2> QED
      BY <1>0, <1>4, <1>5, <1>6, <1>7, <2>1, <2>2 DEF Access
  <1>8. CASE Rdbuff
    <2>1. performed' \in Seq(Nat) /\ dpc \in {"access", "rdbuff"}
          /\ UNCHANGED <<req, polls, wait_retry, powerAsked, powered>>
      BY <1>0, <1>8 DEF Rdbuff
    <2>2. Succeed \/ MetWait \/ \E status \in {ST_FAULT, ST_PROTO} : MetError(status)
      BY <1>8 DEF Rdbuff
    <2> QED
      BY <1>4, <1>5, <1>6, <2>1, <2>2
  <1>9. ASSUME NEW ack \in Acks, ReadDpidr \/ AskPower(ack) \/ PollPower(ack)
        PROVE  CmdInv'
    <2>1. CASE ReadDpidr
      BY <2>1 DEF ReadDpidr, CmdInv, TypeOK, loopVars, InLoop, Elsewhere, Refused, RetryLimit
    <2>2. CASE AskPower(ack)
      <3>1. powerAsked' \in BOOLEAN
        BY <2>2, Zenon DEF AskPower, CmdInv, TypeOK
      <3> QED
        BY <2>2, <3>1 DEF AskPower, CmdInv, TypeOK, loopVars, InLoop, Elsewhere, Refused,
                          RetryLimit
    <2>3. CASE PollPower(ack)
      <3>1. polls' \in 0 .. Polls
        BY <1>0, <2>3 DEF PollPower, CmdInv, TypeOK
      <3>2. /\ UNCHANGED <<req, done, words, tries, performed, waits, wait_retry, powerAsked, powered>>
            /\ dpc = "poll" /\ dpc' \in {"idle", "poll"}
            /\ result' = NoResult \/ result' = result
        BY <2>3 DEF PollPower
      <3>3. result'.status \in {ST_OK, ST_WAIT, ST_FAULT, ST_PROTO, DAP_ERROR}
        BY <3>2 DEF NoResult, CmdInv, TypeOK
      <3> QED
        BY <3>1, <3>2, <3>3 DEF CmdInv, TypeOK, InLoop, Elsewhere, Refused, RetryLimit
    <2> QED
      BY <1>9, <2>1, <2>2, <2>3
  <1>10. CASE NewDap
    <2>1. DefaultRetry \in Nat
      BY DapAssumption
    <2>2. RetryLimit' \in 0 .. RetryCap
      BY <1>10, DapAssumption DEF NewDap, RetryLimit
    <2> QED
      BY <1>10, <2>1, <2>2 DEF NewDap, CmdInv, TypeOK, loopVars, InLoop, Elsewhere, Refused
  <1>11. ASSUME ChipPowersUp \/ ChipReset \/ UNCHANGED vars PROVE CmdInv'
    BY <1>11 DEF ChipPowersUp, ChipReset, vars, loopVars, CmdInv, TypeOK, InLoop, Elsewhere,
                 Refused, RetryLimit
  <1>12. "ok" \in Acks
    BY DEF Acks
  <1> QED
    BY <1>1, <1>2, <1>3, <1>7, <1>8, <1>9, <1>10, <1>11, <1>12 DEF Next, Step

LEMMA CmdInit == Init => CmdInv
  <1> SUFFICES ASSUME Init PROVE CmdInv
    OBVIOUS
  <1>1. Plain \in Commands /\ Plain.kind = "plain" /\ Steps(Plain) = 0
    BY StepsFit DEF Commands, Plain
  <1>2. 0 \in 0 .. RetryCap /\ 0 \in 0 .. Polls /\ DefaultRetry \in Nat
    BY DapAssumption
  <1>3. RetryLimit \in 0 .. RetryCap
    BY <1>2, DapAssumption DEF Init, RetryLimit
  <1>4. words \in Seq(Nat) /\ performed \in Seq(Nat) /\ Len(words) = 0
    BY DEF Init
  <1>5. done \in 0 .. Steps(req) /\ done = 0
    BY <1>1 DEF Init
  <1>6. TypeOK
    BY <1>2, <1>4, <1>5 DEF Init, TypeOK, NoResult
  <1> QED
    BY <1>1, <1>3, <1>4, <1>5, <1>6 DEF Init, CmdInv, InLoop, Elsewhere

\* Every field has its type.
THEOREM DapTypes == Spec => []TypeOK
  <1>1. CmdInv => TypeOK
    BY DEF CmdInv
  <1> QED
    BY <1>1, CmdInit, CmdStep, PTL DEF Spec

\* The response fits its buffer: for every RespLen with room for the largest
\* DAP_Transfer, no slice write of handle() is out of range.
THEOREM DapResponseFits == Spec => []ResponseFits
  <1>1. CmdInv => ResponseFits
    <2> SUFFICES ASSUME CmdInv PROVE ResponseFits
      OBVIOUS
    <2>1. /\ Steps(req) \in Nat /\ RespLen \in Nat
          /\ (IF req.kind = "block" THEN 3 ELSE 2) + 4 * Steps(req) <= RespLen
      BY StepsFit, DapAssumption DEF CmdInv
    <2>2. Len(words) \in Nat /\ Len(words) <= Steps(req)
      BY <2>1 DEF CmdInv, TypeOK
    <2> QED
      BY <2>1, <2>2 DEF ResponseFits
  <1> QED
    BY <1>1, CmdInit, CmdStep, PTL DEF Spec
-----------------------------------------------------------------------------
\* The steps of Access and Rdbuff by what becomes of the transfer.
LEMMA Outcomes ==
  ASSUME CmdInv, Access \/ Rdbuff
  PROVE  /\ UNCHANGED <<req, polls, wait_retry, powerAsked, powered>>
         /\ dpc \in {"access", "rdbuff"}
         /\ \/ dpc = "access" /\ dpc' = "rdbuff" /\ UNCHANGED <<done, words, tries, waits, result>>
            \/ Succeed
            \/ MetWait
            \/ \E status \in {ST_FAULT, ST_PROTO} : MetError(status)
  <1>1. CASE Access
    BY <1>1 DEF Access
  <1>2. CASE Rdbuff
    BY <1>2 DEF Rdbuff
  <1> QED
    BY <1>1, <1>2

\* A command begins anywhere but at an access.
LEMMA Begins ==
  ASSUME Command
  PROVE  \E q \in Commands, where \in Elsewhere \cup {"next", "refuse"} : Begin(q, where)
  <1>0. Plain \in Commands
    BY DEF Commands
  <1>1. ASSUME NEW q \in TransferRequests, HandleTransfer(q)
        PROVE  \E c \in Commands, where \in Elsewhere \cup {"next", "refuse"} : Begin(c, where)
    <2>1. Transfer(q) \in Commands
      BY DEF Commands
    <2> QED
      BY <1>1, <2>1 DEF HandleTransfer
  <1>2. ASSUME NEW q \in BlockRequests, HandleBlock(q)
        PROVE  \E c \in Commands, where \in Elsewhere \cup {"next", "refuse"} : Begin(c, where)
    <2>1. Block(q) \in Commands
      BY DEF Commands
    <2> QED
      BY <1>2, <2>1 DEF HandleBlock
  <1>3. ASSUME \/ HandleConnect \/ HandleShort \/ HandleOther \/ HandleUnknown
               \/ \E n \in Retries : HandleConfig(n)
               \/ \E whole \in BOOLEAN : HandleAbort(whole) \/ HandleSwjPins(whole)
               \/ \E s \in Sequences : HandleSwjSequence(s.bits, s.bytes)
        PROVE  \E c \in Commands, where \in Elsewhere \cup {"next", "refuse"} : Begin(c, where)
    <2>1. \E where \in Elsewhere \cup {"next", "refuse"} : Begin(Plain, where)
      BY <1>3 DEF HandleConnect, HandleShort, HandleOther, HandleUnknown, HandleConfig,
                  HandleAbort, HandleSwjPins, HandleSwjSequence, Elsewhere
    <2> QED
      BY <1>0, <2>1
  <1> QED
    BY <1>1, <1>2, <1>3 DEF Command

-----------------------------------------------------------------------------
\* The retries of a transfer are the WAITs it met, and within the limit.
WaitInv == dpc \in {"access", "rdbuff"} => waits = tries /\ tries <= RetryLimit

LEMMA WaitStep ==
  ASSUME CmdInv, WaitInv, [Next]_vars
  PROVE  WaitInv'
  <1>0. tries \in Nat /\ waits \in Nat /\ RetryLimit \in Nat
    BY DapAssumption DEF CmdInv, TypeOK
  <1>1. CASE Command
    BY <1>1, Begins DEF Begin, WaitInv, Elsewhere
  <1>2. CASE LoopTransfers
    BY <1>0, <1>2 DEF LoopTransfers, WaitInv, RetryLimit
  <1>3. CASE Access \/ Rdbuff
    <2>1. RetryLimit' = RetryLimit
      BY <1>3, Outcomes DEF RetryLimit
    <2>2. waits = tries /\ tries <= RetryLimit
      BY <1>3, Outcomes DEF WaitInv
    <2>3. CASE Succeed \/ \E status \in {ST_FAULT, ST_PROTO} : MetError(status)
      BY <2>3 DEF Succeed, MetError, WaitInv
    <2>4. CASE MetWait
      BY <1>0, <2>1, <2>2, <2>4 DEF MetWait, WaitInv
    <2>5. CASE dpc' = "rdbuff" /\ UNCHANGED <<done, words, tries, waits, result>>
      BY <2>1, <2>2, <2>5 DEF WaitInv
    <2> QED
      BY <1>3, <2>3, <2>4, <2>5, Outcomes
  <1>4. ASSUME LoopEnds \/ LoopRefuses \/ AnswerPlain \/ AnswerError \/ PollGivesUp
        PROVE  WaitInv'
    BY <1>4 DEF LoopEnds, LoopRefuses, AnswerPlain, AnswerError, PollGivesUp, Respond, WaitInv
  <1>5. ASSUME ReadDpidr \/ \E ack \in Acks : AskPower(ack) \/ PollPower(ack)
        PROVE  WaitInv'
    BY <1>5 DEF ReadDpidr, AskPower, PollPower, WaitInv
  <1>6. CASE NewDap
    BY <1>6 DEF NewDap, WaitInv
  <1>7. CASE ChipPowersUp \/ ChipReset \/ UNCHANGED vars
    BY <1>7 DEF ChipPowersUp, ChipReset, vars, loopVars, WaitInv, RetryLimit
  <1> QED
    BY <1>1, <1>2, <1>3, <1>4, <1>5, <1>6, <1>7 DEF Next, Step

\* WAIT is reported after exactly 1 + RetryLimit of them, whatever the limit
\* and the cap are.
THEOREM DapWaitIsLastResort == Spec => WaitIsLastResort
  <1> DEFINE Inv == CmdInv /\ WaitInv
  <1>1. Init => Inv
    BY CmdInit DEF Init, WaitInv
  <1>2. Inv /\ [Next]_vars => Inv'
    BY CmdStep, WaitStep
  <1>3. Inv /\ [Next]_vars =>
          [dpc # "idle" /\ dpc' = "idle" /\ result'.status = ST_WAIT
             => result'.waits = 1 + RetryLimit]_vars
    <2> SUFFICES ASSUME Inv, Next, dpc # "idle", dpc' = "idle", result'.status = ST_WAIT
                 PROVE  result'.waits = 1 + RetryLimit
      OBVIOUS
    <2>0. tries \in Nat /\ waits \in Nat /\ RetryLimit \in Nat
      BY DapAssumption DEF CmdInv, TypeOK
    <2>1. CASE Access \/ Rdbuff
      <3>1. waits = tries /\ tries <= RetryLimit
        BY <2>1, Outcomes DEF WaitInv
      <3>2. MetWait
        BY <2>1, Outcomes DEF Succeed, MetError, ST_WAIT, ST_FAULT, ST_PROTO
      <3> QED
        BY <2>0, <3>1, <3>2 DEF MetWait
    <2>2. ~(LoopEnds \/ LoopRefuses \/ AnswerPlain \/ AnswerError \/ PollGivesUp)
      BY DEF LoopEnds, LoopRefuses, AnswerPlain, AnswerError, PollGivesUp, Respond,
             ST_OK, ST_WAIT, ST_FAULT, ST_PROTO, DAP_ERROR
    <2>3. ~(ReadDpidr \/ \E ack \in Acks : AskPower(ack) \/ PollPower(ack))
      BY DEF ReadDpidr, AskPower, PollPower, NoResult, ST_OK, ST_WAIT
    <2>4. ~(LoopTransfers \/ NewDap \/ ChipPowersUp \/ ChipReset)
      BY DEF LoopTransfers, NewDap, ChipPowersUp, ChipReset
    <2>5. ~Command
      BY Begins DEF Begin
    <2> QED
      BY <2>1, <2>2, <2>3, <2>4, <2>5 DEF Next, Step
  <1> QED
    BY <1>1, <1>2, <1>3, PTL DEF Spec, WaitIsLastResort
-----------------------------------------------------------------------------
\* A sequence of transfer numbers, its last one, and what it may look like:
\* 1 to the last, in order, with repetitions of AP reads only.
RangeOf(p) == {p[k] : k \in DOMAIN p}
LastOf(p) == IF p = <<>> THEN 0 ELSE p[Len(p)]
Repeats(q, i) == OpOf(q, i).ap /\ OpOf(q, i).rnw

Chained(p, q) ==
  /\ RangeOf(p) = 1 .. LastOf(p)
  /\ \A k \in 1 .. Len(p) - 1 :
       p[k + 1] = p[k] + 1 \/ (p[k + 1] = p[k] /\ Repeats(q, p[k]))

LEMMA RangeAppended ==
  ASSUME NEW p \in Seq(Nat), NEW e \in Nat
  PROVE  /\ RangeOf(Append(p, e)) = RangeOf(p) \cup {e}
         /\ LastOf(Append(p, e)) = e
         /\ Append(p, e) \in Seq(Nat) /\ Len(Append(p, e)) = Len(p) + 1
         /\ Append(p, e)[Len(p) + 1] = e
         /\ \A k \in 1 .. Len(p) : Append(p, e)[k] = p[k]
  <1> DEFINE r == Append(p, e)
  <1>1. /\ r \in Seq(Nat) /\ Len(r) = Len(p) + 1 /\ r[Len(p) + 1] = e
        /\ \A k \in 1 .. Len(p) : r[k] = p[k]
    OBVIOUS
  <1>2. /\ DOMAIN r = 1 .. Len(p) + 1 /\ DOMAIN p = 1 .. Len(p) /\ Len(p) \in Nat
    BY <1>1
  <1>3. DOMAIN r = DOMAIN p \cup {Len(p) + 1}
    BY <1>2
  <1> HIDE DEF r
  <1>4. RangeOf(r) = RangeOf(p) \cup {e}
    <2>1. ASSUME NEW x \in RangeOf(r) PROVE x \in RangeOf(p) \cup {e}
      BY <1>1, <1>2, <1>3, <2>1 DEF RangeOf
    <2>2. RangeOf(p) \subseteq RangeOf(r)
      BY <1>1, <1>2, <1>3 DEF RangeOf
    <2>3. e \in RangeOf(r)
      BY <1>1, <1>2 DEF RangeOf
    <2> QED
      BY <2>1, <2>2, <2>3
  <1>5. LastOf(r) = e
    BY <1>1, <1>2 DEF LastOf
  <1> QED
    BY <1>1, <1>4, <1>5 DEF r

LEMMA LastIsNat ==
  ASSUME NEW p \in Seq(Nat)
  PROVE  LastOf(p) \in Nat /\ (p # <<>> => Len(p) \in 1 .. Len(p) /\ p[Len(p)] = LastOf(p))
  BY DEF LastOf

LEMMA ChainAppended ==
  ASSUME NEW p \in Seq(Nat), NEW q, NEW e \in Nat \ {0}, Chained(p, q),
         e = LastOf(p) + 1 \/ (e = LastOf(p) /\ Repeats(q, e))
  PROVE  Chained(Append(p, e), q) /\ LastOf(Append(p, e)) = e
  <1> DEFINE r == Append(p, e)
  <1>1. /\ RangeOf(r) = RangeOf(p) \cup {e} /\ LastOf(r) = e
        /\ Len(r) = Len(p) + 1 /\ r[Len(p) + 1] = e /\ Len(p) \in Nat
        /\ \A k \in 1 .. Len(p) : r[k] = p[k]
    BY RangeAppended
  <1> HIDE DEF r
  <1>2. LastOf(p) \in Nat /\ (p # <<>> => Len(p) \in 1 .. Len(p) /\ p[Len(p)] = LastOf(p))
    BY LastIsNat
  <1>3. RangeOf(r) = 1 .. LastOf(r)
    BY <1>1, <1>2 DEF Chained
  <1>4. ASSUME NEW k \in 1 .. Len(r) - 1
        PROVE  r[k + 1] = r[k] + 1 \/ (r[k + 1] = r[k] /\ Repeats(q, r[k]))
    <2>1. CASE k = Len(p)
      <3>1. p # <<>>
        BY <1>1, <2>1
      <3>2. r[k + 1] = e /\ r[k] = LastOf(p)
        BY <1>1, <1>2, <2>1, <3>1
      <3> QED
        BY <3>2
    <2>2. CASE k # Len(p)
      <3>1. k \in 1 .. Len(p) - 1 /\ k + 1 \in 1 .. Len(p) /\ k \in 1 .. Len(p)
        BY <1>1, <2>2
      <3>2. r[k + 1] = p[k + 1] /\ r[k] = p[k]
        BY <1>1, <3>1
      <3> QED
        BY <3>1, <3>2 DEF Chained
    <2> QED
      BY <2>1, <2>2
  <1> QED
    BY <1>1, <1>3, <1>4 DEF Chained, r

\* What the chip has performed, and how far the transfer at hand has come.
PerfInv ==
  /\ Chained(performed, req)
  /\ LastOf(performed) \in {done, done + 1}
  /\ dpc \in {"next", "refuse"} \cup Elsewhere => LastOf(performed) = done
  /\ dpc = "access" => LastOf(performed) = done \/ Repeats(req, done + 1)
  /\ dpc = "rdbuff" => LastOf(performed) = done + 1 /\ Repeats(req, done + 1)

LEMMA NothingPerformed == \A q : Chained(<<>>, q) /\ LastOf(<<>>) = 0
  BY DEF Chained, LastOf, RangeOf

\* Access either leaves performed alone or appends the transfer at hand.
LEMMA PerfAccess ==
  ASSUME CmdInv, PerfInv, Access
  PROVE  PerfInv'
  <1>0. /\ done \in Nat /\ performed \in Seq(Nat) /\ req' = req /\ dpc = "access"
        /\ LastOf(performed) \in Nat
    BY StepsFit, LastIsNat DEF Access, CmdInv, TypeOK
  <1> DEFINE more == Append(performed, done + 1)
  <1>1. Chained(more, req) /\ LastOf(more) = done + 1
    BY <1>0, ChainAppended DEF PerfInv
  <1>2. Chained(performed, req) /\ LastOf(performed) \in {done, done + 1}
        /\ (LastOf(performed) = done \/ Repeats(req, done + 1))
    BY <1>0 DEF PerfInv
  <1> HIDE DEF more
  <1>3. CASE performed' = more /\ Current.ap /\ Current.rnw /\ dpc' = "rdbuff" /\ done' = done
    BY <1>0, <1>1, <1>3 DEF PerfInv, Repeats, Current, Elsewhere
  <1>4. CASE performed' = more /\ Succeed
    BY <1>0, <1>1, <1>4 DEF PerfInv, Succeed
  <1>5. CASE performed' = performed /\ MetWait
    BY <1>0, <1>2, <1>5 DEF PerfInv, MetWait, Elsewhere
  <1>6. CASE performed' \in {performed, more} /\ \E status \in {ST_FAULT, ST_PROTO} : MetError(status)
    BY <1>0, <1>1, <1>2, <1>6 DEF PerfInv, MetError, Elsewhere
  <1> QED
    BY <1>3, <1>4, <1>5, <1>6 DEF Access, more

LEMMA PerfStep ==
  ASSUME CmdInv, PerfInv, [Next]_vars
  PROVE  PerfInv'
  <1>0. done \in Nat
    BY StepsFit DEF CmdInv, TypeOK
  <1>1. CASE Command
    <2>1. performed' = <<>> /\ done' = 0 /\ dpc' \notin {"access", "rdbuff"}
      BY <1>1, Begins DEF Begin, Elsewhere
    <2> QED
      BY <2>1, NothingPerformed DEF PerfInv
  <1>2. CASE Access
    BY <1>2, PerfAccess
  <1>3. CASE Rdbuff
    <2>1. performed' = performed /\ req' = req /\ dpc = "rdbuff"
      BY <1>3 DEF Rdbuff
    <2>2. Succeed \/ MetWait \/ \E status \in {ST_FAULT, ST_PROTO} : MetError(status)
      BY <1>3 DEF Rdbuff
    <2> QED
      BY <1>0, <2>1, <2>2 DEF PerfInv, Succeed, MetWait, MetError, Elsewhere
  <1>4. CASE LoopTransfers
    BY <1>4 DEF LoopTransfers, PerfInv, Elsewhere
  <1>5. ASSUME LoopEnds \/ LoopRefuses \/ AnswerPlain \/ AnswerError \/ PollGivesUp
        PROVE  PerfInv'
    BY <1>5 DEF LoopEnds, LoopRefuses, AnswerPlain, AnswerError, PollGivesUp, Respond, loopVars,
                PerfInv, Elsewhere
  <1>6. ASSUME ReadDpidr \/ \E ack \in Acks : AskPower(ack) \/ PollPower(ack)
        PROVE  PerfInv'
    BY <1>6 DEF ReadDpidr, AskPower, PollPower, loopVars, PerfInv, Elsewhere
  <1>7. CASE NewDap \/ ChipPowersUp \/ ChipReset \/ UNCHANGED vars
    BY <1>7 DEF NewDap, ChipPowersUp, ChipReset, vars, loopVars, PerfInv
  <1> QED
    BY <1>1, <1>2, <1>3, <1>4, <1>5, <1>6, <1>7 DEF Next, Step

\* In order, without a gap and without a repetition of anything but AP reads,
\* however many transfers and WAITs there are.
THEOREM DapPerformedInOrder == Spec => []PerformedInOrder
  <1>1. Init => PerfInv
    BY NothingPerformed DEF Init, PerfInv
  <1>2. CmdInv /\ PerfInv => PerformedInOrder
    BY DEF CmdInv, TypeOK, PerfInv, Chained, RangeOf, Repeats, PerformedInOrder
  <1> QED
    BY <1>1, <1>2, CmdInit, CmdStep, PerfStep, PTL DEF Spec
-----------------------------------------------------------------------------
\* The words w of the first n transfers of q: those of the reads, in order.
WordsOf(w, n, q) ==
  /\ RangeOf(w) = {i \in 1 .. n : OpOf(q, i).rnw}
  /\ \A k \in 1 .. Len(w) - 1 : w[k] < w[k + 1]

LEMMA NoWords == \A q : WordsOf(<<>>, 0, q)
  BY DEF WordsOf, RangeOf

LEMMA WordAppended ==
  ASSUME NEW w \in Seq(Nat), NEW n \in Nat, NEW q, WordsOf(w, n, q)
  PROVE  WordsOf(IF OpOf(q, n + 1).rnw THEN Append(w, n + 1) ELSE w, n + 1, q)
  <1>1. CASE OpOf(q, n + 1).rnw
    <2> DEFINE r == Append(w, n + 1)
    <2>1. /\ RangeOf(r) = RangeOf(w) \cup {n + 1}
          /\ Len(r) = Len(w) + 1 /\ r[Len(w) + 1] = n + 1 /\ Len(w) \in Nat
          /\ \A k \in 1 .. Len(w) : r[k] = w[k]
      BY RangeAppended
    <2> HIDE DEF r
    <2>2. RangeOf(r) = {i \in 1 .. n + 1 : OpOf(q, i).rnw}
      BY <1>1, <2>1 DEF WordsOf
    <2>3. ASSUME NEW k \in 1 .. Len(r) - 1 PROVE r[k] < r[k + 1]
      <3>1. CASE k = Len(w)
        <4>1. k \in DOMAIN w /\ r[k] = w[k] /\ r[k + 1] = n + 1
          BY <2>1, <3>1
        <4>2. w[k] \in RangeOf(w)
          BY <4>1 DEF RangeOf
        <4>3. w[k] \in 1 .. n
          BY <4>2 DEF WordsOf
        <4> QED
          BY <4>1, <4>3
      <3>2. CASE k # Len(w)
        <4>1. k \in 1 .. Len(w) - 1 /\ k \in 1 .. Len(w) /\ k + 1 \in 1 .. Len(w)
          BY <2>1, <3>2
        <4> QED
          BY <2>1, <4>1 DEF WordsOf
      <3> QED
        BY <3>1, <3>2
    <2> QED
      BY <1>1, <2>2, <2>3 DEF WordsOf, r
  <1>2. CASE ~OpOf(q, n + 1).rnw
    <2>1. {i \in 1 .. n + 1 : OpOf(q, i).rnw} = {i \in 1 .. n : OpOf(q, i).rnw}
      BY <1>2
    <2> QED
      BY <1>2, <2>1 DEF WordsOf
  <1> QED
    BY <1>1, <1>2

\* The words read so far are those of the transfers completed, and the last
\* response says what was done.
WordInv ==
  /\ dpc \in InLoop \cup {"refuse"} => WordsOf(words, done, req)
  /\ Reported =>
       /\ WordsOf(words, done, req)
       /\ result.done = done /\ result.words = words
       /\ (result.status = ST_OK) <=> (done = Steps(req) /\ ~Refused)

LEMMA WordAccess ==
  ASSUME CmdInv, WordInv, Access \/ Rdbuff
  PROVE  WordInv'
  <1>0. /\ done \in Nat /\ Steps(req) \in Nat /\ done < Steps(req) /\ words \in Seq(Nat)
        /\ req' = req /\ WordsOf(words, done, req) /\ ~Refused
    BY StepsFit, Outcomes DEF CmdInv, TypeOK, WordInv, InLoop
  <1>1. CASE dpc' = "rdbuff" /\ UNCHANGED <<done, words, tries, waits, result>>
    BY <1>0, <1>1 DEF WordInv, Reported
  <1>2. CASE Succeed
    <2>1. words' = IF OpOf(req, done + 1).rnw THEN Append(words, done + 1) ELSE words
      BY <1>2 DEF Succeed, Current
    <2>2. WordsOf(words', done', req') /\ dpc' = "next"
      BY <1>0, <1>2, <2>1, WordAppended DEF Succeed
    <2> QED
      BY <2>2 DEF WordInv, Reported
  <1>3. CASE MetWait
    <2>1. /\ UNCHANGED <<done, words>> /\ dpc' \in {"access", "idle"}
          /\ dpc' = "idle" =>
               result'.done = done /\ result'.words = words /\ result'.status = ST_WAIT
      BY <1>3 DEF MetWait
    <2> QED
      BY <1>0, <2>1 DEF WordInv, Reported, ST_WAIT, ST_OK
  <1>4. CASE \E status \in {ST_FAULT, ST_PROTO} : MetError(status)
    <2>1. UNCHANGED <<done, words>> /\ dpc' = "idle"
          /\ result'.done = done /\ result'.words = words /\ result'.status \in {ST_FAULT, ST_PROTO}
      BY <1>4 DEF MetError
    <2> QED
      BY <1>0, <2>1 DEF WordInv, Reported, ST_FAULT, ST_PROTO, ST_OK
  <1> QED
    BY <1>1, <1>2, <1>3, <1>4, Outcomes

LEMMA WordStep ==
  ASSUME CmdInv, WordInv, [Next]_vars
  PROVE  WordInv'
  <1>1. CASE Command
    <2>1. words' = <<>> /\ done' = 0 /\ dpc' # "idle"
      BY <1>1, Begins DEF Begin, Elsewhere
    <2> QED
      BY <2>1, NoWords DEF WordInv, Reported
  <1>2. CASE Access \/ Rdbuff
    BY <1>2, WordAccess
  <1>3. CASE LoopTransfers
    BY <1>3 DEF LoopTransfers, WordInv, Reported, InLoop
  <1>4. CASE LoopEnds
    <2>1. /\ UNCHANGED <<done, words, req>> /\ dpc' = "idle" /\ done = Steps(req) /\ ~Refused
          /\ result'.done = done /\ result'.words = words /\ result'.status = ST_OK
          /\ WordsOf(words, done, req)
      BY <1>4 DEF LoopEnds, Respond, loopVars, CmdInv, WordInv, InLoop
    <2> QED
      BY <2>1 DEF WordInv, Reported, InLoop, Refused
  <1>5. CASE LoopRefuses
    <2>1. /\ UNCHANGED <<done, words, req>> /\ dpc' = "idle"
          /\ result'.done = done /\ result'.words = words /\ result'.status = ST_PROTO
          /\ WordsOf(words, done, req)
      BY <1>5 DEF LoopRefuses, Respond, loopVars, WordInv, InLoop
    <2>2. Reported' => done # Steps(req) \/ Refused
      BY <1>5, <2>1, StepsFit DEF LoopRefuses, CmdInv, TypeOK, Reported, Refused
    <2> QED
      BY <2>1, <2>2 DEF WordInv, Reported, InLoop, Refused, ST_PROTO, ST_OK
  <1>6. ASSUME \/ AnswerPlain \/ AnswerError \/ PollGivesUp \/ ReadDpidr
               \/ \E ack \in Acks : AskPower(ack) \/ PollPower(ack)
        PROVE  WordInv'
    <2>1. dpc \in Elsewhere /\ req' = req /\ dpc' \in Elsewhere \cup {"idle"}
      BY <1>6 DEF AnswerPlain, AnswerError, PollGivesUp, Respond, ReadDpidr, AskPower, PollPower,
                  loopVars, Elsewhere
    <2>2. req.kind = "plain"
      BY <2>1 DEF CmdInv
    <2> QED
      BY <2>1, <2>2 DEF WordInv, Reported, InLoop, Elsewhere
  <1>7. CASE NewDap \/ ChipPowersUp \/ ChipReset \/ UNCHANGED vars
    BY <1>7 DEF NewDap, ChipPowersUp, ChipReset, vars, loopVars, WordInv, Reported, Refused
  <1> QED
    BY <1>1, <1>2, <1>3, <1>4, <1>5, <1>6, <1>7 DEF Next, Step

\* Count, status and words of a response tell exactly what the chip did, for
\* requests of any length and wherever one ends.
THEOREM DapResponseIsTrue == Spec => []ResponseIsTrue
  <1>1. Init => PerfInv /\ WordInv
    BY NothingPerformed DEF Init, PerfInv, WordInv, Plain, InLoop, Reported
  <1>2. CmdInv /\ PerfInv /\ WordInv => ResponseIsTrue
    <2> SUFFICES ASSUME CmdInv, PerfInv, WordInv, Reported PROVE ResponseIsTrue
      BY DEF ResponseIsTrue
    <2>1. /\ WordsOf(words, done, req) /\ result.done = done /\ result.words = words
          /\ (result.status = ST_OK) <=> (done = Steps(req) /\ ~Refused)
      BY DEF WordInv
    <2>2. done \in Nat /\ LastOf(performed) \in {done, done + 1}
          /\ RangeOf(performed) = 1 .. LastOf(performed)
      BY StepsFit DEF CmdInv, TypeOK, PerfInv, Chained
    <2>3. 1 .. result.done \subseteq RangeOf(performed)
      BY <2>1, <2>2
    <2> QED
      BY <2>1, <2>3 DEF ResponseIsTrue, WordsOf, RangeOf, Refused
  <1> QED
    BY <1>1, <1>2, CmdInit, CmdStep, PerfStep, WordStep, PTL DEF Spec

-----------------------------------------------------------------------------
\* A chip that reports power was asked for it.
PowerInv == powered => powerAsked

\* DAP_Connect's success means power, whatever the number of polls.
THEOREM DapConnectMeansPowered == Spec => ConnectMeansPowered
  <1>1. Init => PowerInv
    BY DEF Init, PowerInv
  <1>2. PowerInv /\ [Next]_vars => PowerInv'
    <2> SUFFICES ASSUME PowerInv, [Next]_vars PROVE PowerInv'
      OBVIOUS
    <2>1. CASE Command
      BY <2>1, Begins DEF Begin, PowerInv
    <2>2. CASE Access \/ Rdbuff
      BY <2>2 DEF Access, Rdbuff, PowerInv
    <2>3. CASE LoopEnds \/ LoopRefuses \/ LoopTransfers \/ AnswerPlain \/ AnswerError \/ PollGivesUp
      BY <2>3 DEF LoopEnds, LoopRefuses, LoopTransfers, AnswerPlain, AnswerError, PollGivesUp,
                  PowerInv
    <2>4. CASE ReadDpidr \/ \E ack \in Acks : AskPower(ack) \/ PollPower(ack)
      BY <2>4 DEF ReadDpidr, AskPower, PollPower, PowerInv
    <2>5. CASE NewDap \/ ChipPowersUp \/ ChipReset \/ UNCHANGED vars
      BY <2>5 DEF NewDap, ChipPowersUp, ChipReset, vars, PowerInv
    <2> QED
      BY <2>1, <2>2, <2>3, <2>4, <2>5 DEF Next, Step
  <1>3. PowerInv /\ [Next]_vars =>
          [dpc = "poll" /\ dpc' = "idle" /\ result'.status = ST_OK => powered /\ powerAsked]_vars
    <2> SUFFICES ASSUME PowerInv, Next, dpc = "poll", dpc' = "idle", result'.status = ST_OK
                 PROVE  powered
      BY DEF PowerInv
    <2>1. ~(LoopEnds \/ LoopRefuses \/ LoopTransfers \/ Access \/ Rdbuff \/ AnswerPlain
            \/ AnswerError \/ ReadDpidr \/ NewDap \/ ChipReset \/ ChipPowersUp)
      BY DEF LoopEnds, LoopRefuses, LoopTransfers, Access, Rdbuff, AnswerPlain, AnswerError,
             ReadDpidr, NewDap, ChipReset, ChipPowersUp
    <2>2. ~Command
      BY Begins DEF Begin
    <2>3. ~PollGivesUp
      BY DEF PollGivesUp, Respond, ST_FAULT, ST_OK
    <2>4. PICK ack \in Acks : PollPower(ack)
      BY <2>1, <2>2, <2>3 DEF Next, Step, AskPower
    <2> QED
      BY <2>4 DEF PollPower
  <1> QED
    BY <1>1, <1>2, <1>3, PTL DEF Spec, ConnectMeansPowered
=============================================================================
