---------------------------- MODULE MemoryPort -----------------------------
(* What the last-level cache may rely on: a read waits until its data       *)
(* returns, unless a queued write to the block already holds the data, and  *)
(* a write waits until it is written.  Nothing is lost, answered twice or   *)
(* invented, and at most one queued access completes at a time.             *)
CONSTANT Addr
VARIABLES reads, writes

vars == <<reads, writes>>

Read(a) == a \notin writes /\ reads' = reads \cup {a} /\ UNCHANGED writes
Write(a) == writes' = writes \cup {a} /\ UNCHANGED reads
Return(a) == a \in reads /\ reads' = reads \ {a} /\ UNCHANGED writes
Drain(a) == a \in writes /\ writes' = writes \ {a} /\ UNCHANGED reads

Init == reads = {} /\ writes = {}
Next == \E a \in Addr : Read(a) \/ Write(a) \/ Return(a) \/ Drain(a)
Spec == Init /\ [][Next]_vars
=============================================================================
