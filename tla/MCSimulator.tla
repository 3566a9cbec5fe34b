---------------------------- MODULE MCSimulator ----------------------------
(* A small instance of Simulator for TLC. *)
EXTENDS Simulator

Plain == [kind |-> "plain", to |-> 0]
Jump  == [kind |-> "jump", to |-> 0]
Bad   == [kind |-> "bad", to |-> 0]
Empty == [kind |-> "empty", to |-> 0]
Trap  == [kind |-> "trap", to |-> 0]
Vector(a) == [kind |-> "vector", to |-> a]

\* A program counter of four bits: lines 0 and 1, past the end, unaligned, negative.
\* A line that sets the vector is followed by the traps that the user types later.
MCPrograms == {<<Empty>>, <<Plain, Bad>>, <<Trap, Plain>>, <<Bad, Jump>>}
                \cup {<<Vector(a), Empty>> : a \in {4, 6, 8, 12}}
=============================================================================
