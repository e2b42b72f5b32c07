--------------------------- MODULE MCReplacement ---------------------------
(* Instances of Replacement for TLC.                                        *)
EXTENDS Replacement, TLC

CONSTANTS a, b, c, d, p, q
Blocks == {a, b, c, d}
Counters == {p, q}
BothPolicies == {"lru", "hawkeye"}
TwoOrThree == {2, 3}
Sym == Permutations(Blocks) \cup Permutations(Counters)
=============================================================================
