----------------------------- MODULE MCDapCmd -----------------------------
(***************************************************************************)
(* Transfers of up to three accesses, blocks of up to four with room for   *)
(* three words: truncated requests, illegal request bytes, AP and DP,      *)
(* reads and writes.                                                       *)
(***************************************************************************)
EXTENDS DapCmd

Read(isAp) == [ap |-> isAp, rnw |-> TRUE, bad |-> FALSE, data |-> FALSE]
Write(isAp) == [ap |-> isAp, rnw |-> FALSE, bad |-> FALSE, data |-> TRUE]
Truncated == [ap |-> TRUE, rnw |-> FALSE, bad |-> FALSE, data |-> FALSE]
Illegal == [ap |-> TRUE, rnw |-> TRUE, bad |-> TRUE, data |-> FALSE]

MCTransfers ==
  {[count |-> n, ops |-> ops] :
     n \in 0 .. 3,
     ops \in {<<>>, <<Read(TRUE), Write(TRUE), Read(FALSE)>>,
              <<Write(FALSE), Read(TRUE), Truncated>>,
              <<Read(TRUE), Illegal, Read(TRUE)>>}}

MCBlocks ==
  {[count |-> n, op |-> op, words |-> w] :
     n \in {0, 2, 4}, w \in {0, 1, 4},
     op \in {Read(TRUE), Read(FALSE), Write(TRUE), Illegal}}

MCSequences == [bits : {0, 8, 9}, bytes : 0 .. 2]

MCRetries == {0, 1, 3}
=============================================================================
