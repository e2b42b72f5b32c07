--------------------------- MODULE OptimalCache ---------------------------
(* The most hits a cache that knows the future can have (Belady): every    *)
(* schedule is followed at once.  best[C] is the most hits of a schedule   *)
(* that now holds the blocks C; a schedule may keep or drop any block,     *)
(* the one accessed included.                                              *)
EXTENDS Integers, FiniteSets, FiniteSetsExt

CONSTANTS Addr, OptSize

NoHits == [C \in {{}} |-> 0]

Serve(best, a) ==
  LET from(D) == {C \in DOMAIN best : D \subseteq C \cup {a}}
      hits(C) == best[C] + IF a \in C THEN 1 ELSE 0
      kept == {D \in SUBSET Addr : Cardinality(D) <= OptSize /\ from(D) # {}}
  IN [D \in kept |-> Max({hits(C) : C \in from(D)})]

Hits(best) == Max({best[C] : C \in DOMAIN best})
=============================================================================
