---------------------------- MODULE MCPageTable ----------------------------
(* Instances of PageTable for TLC.                                          *)
EXTENDS PageTable

OneCpu == {0}
TwoCpus == {0, 1}
TwoPages == {1, 2}
FourDraws == {0, 1, 2, 4}
ThreeDraws == {0, 1, 3}
Lengths == {1, 2}
=============================================================================
