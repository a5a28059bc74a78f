------------------------------- MODULE DapRpc -------------------------------
(***************************************************************************)
(* What the link between host and firmware promises, with no connections,  *)
(* frames or timeouts in it.  Each client calls, the firmware runs the     *)
(* command, the call returns the response of the LAST run or an error.     *)
(* Because a failed call is retried once and an abandoned one may still be *)
(* on its way, a command may run twice, or after its call has failed; it   *)
(* never runs a third time, after its response was returned, or behind a   *)
(* later command of the same client.                                       *)
(***************************************************************************)
EXTENDS Naturals, Sequences

CONSTANTS
  Clients,
  Commands,       \* payloads a client may call with
  MaxCalls,       \* bound: calls of one client
  Run(_),         \* the command the firmware runs for a payload
  Responses(_),   \* the responses a command may give
  NoCall          \* no request of the client has run yet

VARIABLES
  asked,    \* payloads of the client's calls, in order
  busy,     \* the client waits for its last call
  ran,      \* the client's last run: call number, how many times, response
  answer    \* what the last call returned

vars == <<asked, busy, ran, answer>>

Err == [ok |-> FALSE, resp |-> <<>>]
Ok(bytes) == [ok |-> TRUE, resp |-> bytes]

Init ==
  /\ asked = [c \in Clients |-> <<>>]
  /\ busy = [c \in Clients |-> FALSE]
  /\ ran = [c \in Clients |-> NoCall]
  /\ answer = [c \in Clients |-> Err]

Call(c, p) ==
  /\ ~busy[c]
  /\ Len(asked[c]) < MaxCalls
  /\ asked' = [asked EXCEPT ![c] = Append(@, p)]
  /\ busy' = [busy EXCEPT ![c] = TRUE]
  /\ UNCHANGED <<ran, answer>>

\* Call i has been answered with a response.
Answered(c, i) == i = Len(asked[c]) /\ ~busy[c] /\ answer[c].ok

\* The firmware runs call i: a call it has not passed, or the same one again.
RunCall(c, i) ==
  /\ i \in 1 .. Len(asked[c])
  /\ ~Answered(c, i)
  /\ \/ i > ran[c].no
     \/ i = ran[c].no /\ ran[c].times = 1
  /\ \E r \in Responses(Run(asked[c][i])) :
       ran' = [ran EXCEPT ![c] = [no |-> i, resp |-> r,
                                  cmd |-> Run(asked[c][i]),
                                  times |-> IF i = ran[c].no THEN 2 ELSE 1]]
  /\ UNCHANGED <<asked, busy, answer>>

Reply(c) ==
  /\ busy[c]
  /\ ran[c].no = Len(asked[c])
  /\ busy' = [busy EXCEPT ![c] = FALSE]
  /\ answer' = [answer EXCEPT ![c] = Ok(ran[c].resp)]
  /\ UNCHANGED <<asked, ran>>

Fail(c) ==
  /\ busy[c]
  /\ busy' = [busy EXCEPT ![c] = FALSE]
  /\ answer' = [answer EXCEPT ![c] = Err]
  /\ UNCHANGED <<asked, ran>>

Next ==
  \E c \in Clients :
    \/ \E p \in Commands : Call(c, p)
    \/ \E i \in 1 .. MaxCalls : RunCall(c, i)
    \/ Reply(c)
    \/ Fail(c)

Spec == Init /\ [][Next]_vars
=============================================================================
