------------------------------- MODULE MCSwd -------------------------------
EXTENDS Swd
MCWords == {<<0, 0, 0, 0, 0>>, <<1, 1, 1, 1, 1>>, <<1, 0, 1, 0, 0>>}
MCAccesses == {[kind |-> "read_dp", addr |-> 1, word |-> <<0, 0, 0, 0, 0>>],
               [kind |-> "read_ap", addr |-> 3, word |-> <<0, 0, 0, 0, 0>>],
               [kind |-> "write_dp", addr |-> 2, word |-> <<1, 1, 1, 1, 1>>],
               [kind |-> "write_ap", addr |-> 1, word |-> <<1, 0, 1, 0, 0>>]}
MCSequences == {[count |-> 3, bits |-> <<0, 0>>], [count |-> 3, bits |-> <<1, 1, 0, 1>>]}
=============================================================================
