-------------------------------- MODULE Fifo --------------------------------
(* What the queues of a cache promise: packets leave in the order they      *)
(* entered, none is lost, and a queue that is searched before a packet is   *)
(* added never holds two packets for one block.                             *)
EXTENDS Naturals, Sequences

CONSTANTS Addr, Size, Checked
VARIABLE q

Holds(a) == \E i \in DOMAIN q : q[i] = a

Put(a) ==
  /\ Len(q) < Size
  /\ Checked => ~Holds(a)
  /\ q' = Append(q, a)

Get == q # <<>> /\ q' = Tail(q)

Init == q = <<>>
Next == (\E a \in Addr : Put(a)) \/ Get
Spec == Init /\ [][Next]_q
=============================================================================
