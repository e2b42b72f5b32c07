------------------------------- MODULE MCDram -------------------------------
(* Instances of DramController for TLC: two banks of two rows. *)
EXTENDS DramController

FourBlocks == {"a", "b", "c", "d"}
TwoBanks == {0, 1}
TwoRows == {0, 1}
MCBank == [a |-> 0, b |-> 0, c |-> 1, d |-> 1]
MCRow == [a |-> 0, b |-> 1, c |-> 0, d |-> 1]
=============================================================================
