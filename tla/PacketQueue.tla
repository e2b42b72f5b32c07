---------------------------- MODULE PacketQueue ----------------------------
(***************************************************************************)
(* PACKET_QUEUE of block.cc: the circular buffer under the RQ, WQ, PQ and  *)
(* PROCESSED queue of every cache.  head and tail wrap at SIZE; occupancy  *)
(* tells a full queue from an empty one when head = tail.                  *)
(*                                                                         *)
(* A packet is represented by the address it is searched by (the full      *)
(* address in the L1D write queue, the block address elsewhere).  Checked  *)
(* is TRUE for RQ, WQ and PQ, whose callers search the queue before adding *)
(* to it, and FALSE for PROCESSED, whose callers only test its occupancy.  *)
(***************************************************************************)
EXTENDS Integers, Sequences

CONSTANTS
  Addr,      \* addresses of packets
  Empty,     \* the address of a reset entry (0)
  Size,      \* SIZE
  Checked

VARIABLES entry, head, tail, occupancy

vars == <<entry, head, tail, occupancy>>

ASSUME QueueAssumption ==
  /\ Empty \notin Addr
  /\ Size \in Nat \ {0}
  /\ Checked \in BOOLEAN

Index == 0..Size - 1

\* Mutant of Advance: the wrap-around test is off by one.
Advance_Late(i) == IF i + 1 > Size THEN 0 ELSE i + 1

\* "if (tail >= SIZE) tail = 0".
Advance(i) == IF i + 1 >= Size THEN 0 ELSE i + 1

\* Mutant of Searched: a wrapped queue is searched up to SIZE only.
Searched_NoWrap ==
  CASE head = tail /\ occupancy = 0 -> {}
    [] head < tail -> head..tail - 1
    [] OTHER -> head..Size - 1

\* The slots check_queue looks at.
Searched ==
  CASE head = tail /\ occupancy = 0 -> {}
    [] head < tail -> head..tail - 1
    [] OTHER -> (head..Size - 1) \cup (0..tail - 1)

\* Slots from head up are looked at before those that wrapped to 0.
SearchedBefore(i, j) == IF (i >= head) = (j >= head) THEN i <= j ELSE i >= head

\* check_queue: the first slot that holds a, or -1.
CheckQueue(a) ==
  LET found == {i \in Searched : entry[i] = a}
  IN IF found = {} THEN -1 ELSE CHOOSE i \in found : \A j \in found : SearchedBefore(i, j)
-----------------------------------------------------------------------------
\* Mutant of Room: the queue accepts one packet too many.
Room_Loose == occupancy <= Size

\* The occupancy test of every caller.
Room == occupancy < Size

AddQueue(a) ==
  /\ Room
  /\ Checked => CheckQueue(a) = -1
  /\ entry' = [entry EXCEPT ![tail] = a]
  /\ occupancy' = occupancy + 1
  /\ tail' = Advance(tail)
  /\ UNCHANGED head

\* Mutant of RemoveQueue: the entry is not reset.
RemoveQueue_KeepsEntry ==
  /\ occupancy # 0
  /\ occupancy' = occupancy - 1
  /\ head' = Advance(head)
  /\ UNCHANGED <<entry, tail>>

\* remove_queue of the packet at head.
RemoveQueue ==
  /\ occupancy # 0
  /\ entry' = [entry EXCEPT ![head] = Empty]
  /\ occupancy' = occupancy - 1
  /\ head' = Advance(head)
  /\ UNCHANGED tail

Init ==
  /\ entry = [i \in Index |-> Empty]
  /\ head = 0 /\ tail = 0 /\ occupancy = 0

Next == (\E a \in Addr : AddQueue(a)) \/ RemoveQueue

Spec == Init /\ [][Next]_vars
-----------------------------------------------------------------------------
\* Every variable keeps its type; head and tail stay inside the array.
TypeOK ==
  /\ entry \in [Index -> Addr \cup {Empty}]
  /\ head \in Index /\ tail \in Index
  /\ occupancy \in 0..Size

\* The slot n places after head.
Slot(n) == IF head + n >= Size THEN head + n - Size ELSE head + n

\* head, tail and occupancy agree, and exactly the slots between them are in
\* use: the assertions of add_queue ("head == tail" of a queue in use) and of
\* add_rq, add_wq and add_pq ("is not empty index") never fire.
SlotsInUse ==
  /\ tail = IF occupancy = Size THEN head ELSE Slot(occupancy)
  /\ \A n \in 0..Size - 1 : entry[Slot(n)] # Empty <=> n < occupancy

\* The packets in the order they will leave.
Contents == [n \in 1..occupancy |-> entry[Slot(n - 1)]]

\* The search finds the oldest packet with the address, or none if none waits.
SearchFindsOldest ==
  \A a \in Addr :
    LET at == {n \in 1..occupancy : Contents[n] = a}
    IN IF at = {} THEN CheckQueue(a) = -1
       ELSE \E n \in at : (\A k \in at : n <= k) /\ CheckQueue(a) = Slot(n - 1)

\* The circular buffer implements a queue: no packet is lost, duplicated or
\* overtaken, and a checked queue never takes a second packet for an address.
F == INSTANCE Fifo WITH q <- Contents
ImplementsFifo == F!Spec
=============================================================================
