------------------------- MODULE PacketQueue_proofs -------------------------
(* The circular buffer of block.cc is correct for every SIZE. *)
EXTENDS PacketQueue, SequenceTheorems, WellFoundedInduction, TLAPS

\* The inductive invariant.
QInv == TypeOK /\ SlotsInUse

\* Slot maps the places after head one to one onto the array.
LEMMA SlotBijection ==
  ASSUME NEW h \in Index
  PROVE  LET S(n) == IF h + n >= Size THEN h + n - Size ELSE h + n
         IN /\ \A n \in 0..Size - 1 : S(n) \in Index
            /\ \A n, k \in 0..Size - 1 : S(n) = S(k) => n = k
            /\ \A i \in Index : \E n \in 0..Size - 1 : S(n) = i
<1> DEFINE S(n) == IF h + n >= Size THEN h + n - Size ELSE h + n
<1>1. Size \in Nat \ {0} /\ h \in Nat /\ h < Size
  BY QueueAssumption DEF Index
<1>2. \A n \in 0..Size - 1 : S(n) \in Index
  BY <1>1 DEF Index
<1>3. \A n, k \in 0..Size - 1 : S(n) = S(k) => n = k
  BY <1>1
<1>4. ASSUME NEW i \in Index PROVE \E n \in 0..Size - 1 : S(n) = i
  <2>1. CASE i >= h
    <3>1. i - h \in 0..Size - 1 /\ S(i - h) = i
      BY <1>1, <2>1 DEF Index
    <3> QED
      BY <3>1
  <2>2. CASE i < h
    <3>1. i + Size - h \in 0..Size - 1 /\ S(i + Size - h) = i
      BY <1>1, <2>2 DEF Index
    <3> QED
      BY <3>1
  <2> QED
    BY <1>1, <2>1, <2>2 DEF Index
<1> QED
  BY <1>2, <1>3, <1>4

LEMMA SlotType ==
  ASSUME TypeOK
  PROVE  /\ \A n \in 0..Size - 1 : Slot(n) \in Index
         /\ \A n, k \in 0..Size - 1 : Slot(n) = Slot(k) => n = k
         /\ \A i \in Index : \E n \in 0..Size - 1 : Slot(n) = i
BY SlotBijection DEF TypeOK, Slot

LEMMA AdvanceType ==
  ASSUME NEW i \in Index
  PROVE  Advance(i) \in Index
BY QueueAssumption DEF Advance, Index

LEMMA AddQueueInv ==
  ASSUME QInv, NEW a \in Addr, AddQueue(a)
  PROVE  QInv'
<1>1. Size \in Nat \ {0} /\ Empty \notin Addr
  BY QueueAssumption
<1>2. TypeOK /\ occupancy \in 0..Size - 1 /\ tail = Slot(occupancy)
  BY <1>1 DEF QInv, TypeOK, SlotsInUse, AddQueue, Room
<1>3. TypeOK'
  BY <1>1, <1>2, AdvanceType DEF TypeOK, AddQueue
<1>4. tail' = IF occupancy' = Size THEN head' ELSE Slot(occupancy)'
  BY <1>1, <1>2 DEF AddQueue, Advance, Slot, TypeOK, Index
<1>5. ASSUME NEW n \in 0..Size - 1
      PROVE  entry'[Slot(n)'] # Empty <=> n < occupancy'
  <2>1. Slot(n)' = Slot(n) /\ Slot(n) \in Index
    BY <1>2, SlotType DEF Slot, AddQueue
  <2>2. entry[Slot(n)] # Empty <=> n < occupancy
    BY DEF QInv, SlotsInUse
  <2>3. entry'[Slot(n)] = IF n = occupancy THEN a ELSE entry[Slot(n)]
    BY <1>2, <2>1, SlotType DEF AddQueue, TypeOK
  <2> QED
    BY <1>1, <1>2, <2>1, <2>2, <2>3 DEF AddQueue
<1> QED
  BY <1>3, <1>4, <1>5 DEF QInv, SlotsInUse

LEMMA RemoveQueueInv ==
  ASSUME QInv, RemoveQueue
  PROVE  QInv'
<1>1. Size \in Nat \ {0}
  BY QueueAssumption
<1>2. TypeOK /\ occupancy \in 1..Size
  BY DEF QInv, TypeOK, RemoveQueue
<1>3. TypeOK'
  BY <1>1, <1>2, AdvanceType DEF TypeOK, RemoveQueue
<1>4. Slot(0) = head /\ head \in Index
  BY <1>1 DEF Slot, QInv, TypeOK, Index
<1>5. \A n \in 0..Size - 1 : Slot(n)' = IF n = Size - 1 THEN head ELSE Slot(n + 1)
  BY <1>1, <1>2 DEF Slot, RemoveQueue, Advance, TypeOK, Index
<1>6. tail' = IF occupancy' = Size THEN head' ELSE Slot(occupancy)'
  BY <1>1, <1>2, <1>4, <1>5 DEF QInv, SlotsInUse, RemoveQueue
<1>7. ASSUME NEW n \in 0..Size - 1
      PROVE  entry'[Slot(n)'] # Empty <=> n < occupancy'
  <2>1. CASE n = Size - 1
    BY <1>1, <1>2, <1>4, <1>5, <2>1 DEF RemoveQueue, TypeOK
  <2>2. CASE n < Size - 1
    <3>1. n + 1 \in 0..Size - 1 /\ Slot(n + 1) \in Index /\ Slot(n + 1) # head
      BY <1>1, <1>2, <1>4, <2>2, SlotType
    <3>2. entry'[Slot(n + 1)] = entry[Slot(n + 1)]
      BY <1>2, <3>1 DEF RemoveQueue, TypeOK
    <3>3. entry[Slot(n + 1)] # Empty <=> n + 1 < occupancy
      BY <3>1 DEF QInv, SlotsInUse
    <3> QED
      BY <1>1, <1>2, <1>5, <2>2, <3>2, <3>3 DEF RemoveQueue
  <2> QED
    BY <1>1, <2>1, <2>2
<1> QED
  BY <1>3, <1>6, <1>7 DEF QInv, SlotsInUse

\* head, tail and occupancy agree and the slot at tail is empty while the queue
\* has room, for every SIZE: the assertions of block.cc and cache.cc hold.
THEOREM QueueInvariant == Spec => [](TypeOK /\ SlotsInUse)
<1>1. Init => QInv
  BY QueueAssumption DEF Init, QInv, TypeOK, SlotsInUse, Slot, Index
<1>2. QInv /\ [Next]_vars => QInv'
  <2> SUFFICES ASSUME QInv, [Next]_vars PROVE QInv'
    OBVIOUS
  <2>1. CASE UNCHANGED vars
    BY <2>1 DEF vars, QInv, TypeOK, SlotsInUse, Slot
  <2> QED
    BY <2>1, AddQueueInv, RemoveQueueInv DEF Next
<1> QED
  BY <1>1, <1>2, PTL DEF Spec, QInv
-----------------------------------------------------------------------------
(* check_queue finds the oldest packet.                                    *)

\* Every non-empty set of natural numbers has a least member.
LEMMA LeastMember ==
  ASSUME NEW S \in SUBSET Nat, S # {}
  PROVE  \E n \in S : \A k \in S : n <= k
<1>1. PICK n \in S : \A k \in S : <<k, n>> \notin OpToRel(<, Nat)
  BY NatLessThanWellFounded, WFMin
<1>2. \A k \in S : ~(k < n)
  BY <1>1 DEF OpToRel
<1> QED
  BY <1>2

\* The slots searched are those in use, in the order from head to tail.
LEMMA SearchedSlots ==
  ASSUME QInv
  PROVE  /\ \A i \in Index : i \in Searched <=> \E n \in 0..occupancy - 1 : i = Slot(n)
         /\ Searched \subseteq Index
         /\ \A n, k \in 0..occupancy - 1 : SearchedBefore(Slot(n), Slot(k)) <=> n <= k
<1>1. Size \in Nat \ {0} /\ TypeOK /\ head \in 0..Size - 1 /\ occupancy \in 0..Size
  BY QueueAssumption DEF QInv, TypeOK, Index
<1>2. tail = IF occupancy = Size THEN head ELSE Slot(occupancy)
  BY DEF QInv, SlotsInUse
<1>3. Searched \subseteq Index
  BY <1>1 DEF Searched, Index, TypeOK
<1>4. ASSUME NEW i \in Index
      PROVE  i \in Searched <=> \E n \in 0..occupancy - 1 : i = Slot(n)
  <2>1. CASE i >= head
    <3>1. i \in Searched <=> i - head < occupancy
      BY <1>1, <1>2, <2>1 DEF Searched, Slot, Index
    <3>2. \A n \in 0..occupancy - 1 : i = Slot(n) <=> n = i - head
      BY <1>1, <2>1 DEF Slot, Index
    <3> QED
      BY <1>1, <2>1, <3>1, <3>2 DEF Index
  <2>2. CASE i < head
    <3>1. i \in Searched <=> i + Size - head < occupancy
      BY <1>1, <1>2, <2>2 DEF Searched, Slot, Index
    <3>2. \A n \in 0..occupancy - 1 : i = Slot(n) <=> n = i + Size - head
      BY <1>1, <2>2 DEF Slot, Index
    <3> QED
      BY <1>1, <2>2, <3>1, <3>2 DEF Index
  <2> QED
    BY <1>1, <2>1, <2>2 DEF Index
<1>5. \A n, k \in 0..occupancy - 1 : SearchedBefore(Slot(n), Slot(k)) <=> n <= k
  BY <1>1 DEF SearchedBefore, Slot
<1> QED
  BY <1>3, <1>4, <1>5

\* check_queue returns the slot of the oldest packet for a, or -1.
LEMMA CheckQueueResult ==
  ASSUME QInv, NEW a \in Addr
  PROVE  \/ /\ \A n \in 0..occupancy - 1 : entry[Slot(n)] # a
            /\ CheckQueue(a) = -1
         \/ \E n \in 0..occupancy - 1 :
              /\ entry[Slot(n)] = a
              /\ \A k \in 0..occupancy - 1 : entry[Slot(k)] = a => n <= k
              /\ CheckQueue(a) = Slot(n)
<1> DEFINE found == {i \in Searched : entry[i] = a}
           at == {n \in 0..occupancy - 1 : entry[Slot(n)] = a}
<1>1. TypeOK /\ occupancy \in 0..Size /\ Size \in Nat \ {0}
  BY QueueAssumption DEF QInv, TypeOK
<1>2. \A n \in 0..occupancy - 1 : Slot(n) \in Index
  BY <1>1, SlotType
<1>3. \A i : i \in found <=> \E n \in at : i = Slot(n)
  BY <1>2, SearchedSlots
<1>4. CheckQueue(a) = IF found = {} THEN -1
                      ELSE CHOOSE i \in found : \A j \in found : SearchedBefore(i, j)
  BY DEF CheckQueue
<1>5. CASE at = {}
  <2>1. found = {}
    BY <1>3, <1>5
  <2> HIDE DEF found
  <2> QED
    BY <1>4, <1>5, <2>1
<1>6. CASE at # {}
  <2>1. PICK n \in at : \A k \in at : n <= k
    <3>1. at \in SUBSET Nat
      BY <1>1
    <3> HIDE DEF at
    <3> QED
      BY <1>6, <3>1, LeastMember
  <2>2. Slot(n) \in found /\ \A j \in found : SearchedBefore(Slot(n), j)
    BY <1>3, <2>1, SearchedSlots
  <2>3. \A i \in found : (\A j \in found : SearchedBefore(i, j)) => i = Slot(n)
    <3> SUFFICES ASSUME NEW k \in at, \A j \in found : SearchedBefore(Slot(k), j)
                 PROVE  Slot(k) = Slot(n)
      BY <1>3
    <3>1. k <= n
      BY <2>1, <2>2, SearchedSlots
    <3> QED
      BY <1>1, <2>1, <3>1
  <2> HIDE DEF found
  <2>4. CheckQueue(a) = Slot(n)
    BY <1>4, <2>2, <2>3
  <2> QED
    BY <2>1, <2>4
<1> QED
  BY <1>5, <1>6

\* Whatever the wrap-around, a lookup finds the oldest packet for an address and
\* misses none: forwarding and merging act on the packet that is served first.
THEOREM SearchCorrect == Spec => []SearchFindsOldest
<1>1. QInv => SearchFindsOldest
  <2> SUFFICES ASSUME QInv, NEW a \in Addr
               PROVE  LET at == {n \in 1..occupancy : Contents[n] = a}
                      IN IF at = {} THEN CheckQueue(a) = -1
                         ELSE \E n \in at : (\A k \in at : n <= k) /\ CheckQueue(a) = Slot(n - 1)
    BY DEF SearchFindsOldest
  <2> DEFINE at == {n \in 1..occupancy : Contents[n] = a}
  <2>1. occupancy \in Nat
    BY QueueAssumption DEF QInv, TypeOK
  <2>2. \A n \in 1..occupancy : Contents[n] = entry[Slot(n - 1)]
    BY DEF Contents
  <2>3. CASE /\ \A n \in 0..occupancy - 1 : entry[Slot(n)] # a
             /\ CheckQueue(a) = -1
    <3>1. at = {}
      BY <2>1, <2>2, <2>3
    <3> QED
      BY <2>3, <3>1
  <2>4. ASSUME NEW n \in 0..occupancy - 1,
               entry[Slot(n)] = a,
               \A k \in 0..occupancy - 1 : entry[Slot(k)] = a => n <= k,
               CheckQueue(a) = Slot(n)
        PROVE  at # {} /\ \E m \in at : (\A k \in at : m <= k) /\ CheckQueue(a) = Slot(m - 1)
    <3>1. n + 1 \in at /\ (n + 1) - 1 = n
      BY <2>1, <2>2, <2>4
    <3>2. \A k \in at : k - 1 \in 0..occupancy - 1 /\ entry[Slot(k - 1)] = a
      BY <2>1, <2>2
    <3>3. \A k \in at : n + 1 <= k
      BY <2>1, <2>4, <3>2
    <3> QED
      BY <2>4, <3>1, <3>3
  <2> QED
    BY <2>3, <2>4, CheckQueueResult
<1> QED
  BY <1>1, QueueInvariant, PTL DEF QInv
-----------------------------------------------------------------------------
(* The circular buffer implements the queue of module Fifo.                *)

ContentsOK == Contents \in Seq(Addr) /\ Len(Contents) = occupancy

LEMMA ContentsType == QInv => ContentsOK
<1> SUFFICES ASSUME QInv PROVE ContentsOK
  OBVIOUS
<1>1. occupancy \in Nat /\ TypeOK /\ occupancy <= Size
  BY QueueAssumption DEF QInv, TypeOK
<1>2. \A n \in 1..occupancy : entry[Slot(n - 1)] \in Addr
  <2> TAKE n \in 1..occupancy
  <2>1. n - 1 \in 0..Size - 1 /\ n - 1 < occupancy
    BY <1>1, QueueAssumption
  <2>2. entry[Slot(n - 1)] # Empty /\ Slot(n - 1) \in Index
    BY <1>1, <2>1, SlotType DEF QInv, SlotsInUse
  <2> QED
    BY <1>1, <2>2 DEF TypeOK
<1>3. Contents \in [1..occupancy -> Addr]
  BY <1>2 DEF Contents
<1>4. Contents \in Seq(Addr)
  BY <1>1, <1>3, SeqDef
<1>5. DOMAIN Contents = 1..Len(Contents) /\ Len(Contents) \in Nat
  BY <1>4, LenProperties
<1> QED
  BY <1>1, <1>3, <1>4, <1>5 DEF ContentsOK

\* The same for the next state.
LEMMA ContentsTypeNext == QInv' => ContentsOK'
BY ContentsType, PTL

LEMMA AddQueueRefines ==
  ASSUME QInv, QInv', NEW a \in Addr, AddQueue(a)
  PROVE  F!Put(a)
<1>1. occupancy \in 0..Size - 1 /\ TypeOK /\ Size \in Nat \ {0} /\ tail = Slot(occupancy)
  BY QueueAssumption DEF QInv, TypeOK, SlotsInUse, AddQueue, Room
<1>2. Contents \in Seq(Addr) /\ Len(Contents) = occupancy /\ DOMAIN Contents = 1..occupancy
  BY ContentsType, LenProperties DEF ContentsOK
<1>3. Checked => ~F!Holds(a)
  <2> SUFFICES ASSUME CheckQueue(a) = -1, NEW i \in 1..occupancy, Contents[i] = a
               PROVE  FALSE
    BY <1>2 DEF F!Holds, AddQueue
  <2>1. entry[Slot(i - 1)] = a /\ i - 1 \in 0..occupancy - 1
    BY <1>1 DEF Contents
  <2>2. \A n \in 0..occupancy - 1 : Slot(n) # -1
    BY <1>1, SlotType DEF Index
  <2> QED
    BY <2>1, <2>2, CheckQueueResult
<1>4. Contents' = Append(Contents, a)
  <2>1. Contents' \in Seq(Addr) /\ Len(Contents') = occupancy + 1
    BY ContentsTypeNext DEF ContentsOK, AddQueue
  <2>2. Append(Contents, a) \in Seq(Addr) /\ Len(Append(Contents, a)) = occupancy + 1
    BY <1>2, AppendProperties
  <2>3. ASSUME NEW n \in 1..occupancy + 1
        PROVE  Contents'[n] = Append(Contents, a)[n]
    <3>1. Contents'[n] = entry'[Slot(n - 1)]
      BY <2>3 DEF Contents, AddQueue, Slot
    <3>2. CASE n = occupancy + 1
      <4>1. Slot(n - 1) = tail
        BY <1>1, <3>2
      <4>2. entry'[tail] = a
        BY <1>1 DEF AddQueue, TypeOK
      <4> QED
        BY <1>2, <3>1, <3>2, <4>1, <4>2, AppendProperties
    <3>3. CASE n \in 1..occupancy
      <4>1. Slot(n - 1) \in Index /\ Slot(n - 1) # tail
        BY <1>1, <3>3, SlotType
      <4>2. entry'[Slot(n - 1)] = entry[Slot(n - 1)]
        BY <1>1, <4>1 DEF AddQueue, TypeOK
      <4>3. Contents[n] = entry[Slot(n - 1)]
        BY <3>3 DEF Contents
      <4> QED
        BY <1>2, <3>1, <3>3, <4>2, <4>3, AppendProperties
    <3>4. n = occupancy + 1 \/ n \in 1..occupancy
      BY <1>1
    <3> QED
      BY <3>2, <3>3, <3>4
  <2> QED
    BY <2>1, <2>2, <2>3, SeqEqual
<1> QED
  BY <1>1, <1>2, <1>3, <1>4 DEF F!Put

LEMMA RemoveQueueRefines ==
  ASSUME QInv, QInv', RemoveQueue
  PROVE  F!Get
<1>1. occupancy \in 1..Size /\ TypeOK /\ Size \in Nat \ {0}
  BY QueueAssumption DEF QInv, TypeOK, RemoveQueue
<1>2. Contents \in Seq(Addr) /\ Len(Contents) = occupancy
  BY ContentsType DEF ContentsOK
<1>3. Contents # <<>>
  BY <1>1, <1>2, EmptySeq
<1>4. Tail(Contents) \in Seq(Addr) /\ Len(Tail(Contents)) = occupancy - 1
  BY <1>2, <1>3, HeadTailProperties
<1>5. Contents' \in Seq(Addr) /\ Len(Contents') = occupancy - 1
  BY ContentsTypeNext DEF ContentsOK, RemoveQueue
<1>6. ASSUME NEW n \in 1..occupancy - 1
      PROVE  Contents'[n] = Tail(Contents)[n]
  <2>1. Contents'[n] = entry'[Slot(n - 1)']
    BY <1>6 DEF Contents, RemoveQueue
  <2>2. Slot(n - 1)' = Slot(n)
    BY <1>1 DEF Slot, RemoveQueue, Advance, TypeOK, Index
  <2>3. Slot(n) \in Index /\ Slot(n) # head
    <3>1. Slot(0) = head
      BY <1>1 DEF Slot, TypeOK, Index
    <3> QED
      BY <1>1, <3>1, SlotType
  <2>4. entry'[Slot(n)] = entry[Slot(n)]
    BY <1>1, <2>3 DEF RemoveQueue, TypeOK
  <2>5. Tail(Contents)[n] = Contents[n + 1]
    BY <1>2, <1>3, <1>4, HeadTailProperties
  <2>6. Contents[n + 1] = entry[Slot(n)]
    BY <1>1 DEF Contents
  <2> QED
    BY <2>1, <2>2, <2>4, <2>5, <2>6
<1>7. Contents' = Tail(Contents)
  BY <1>1, <1>4, <1>5, <1>6, SeqEqual
<1> QED
  BY <1>3, <1>7 DEF F!Get

\* For every SIZE the circular buffer is a first-in first-out queue that holds
\* at most SIZE packets, and one per address when its callers search it first.
THEOREM QueueIsFifo == Spec => ImplementsFifo
<1>1. Init => F!Init
  BY EmptySeq, SeqDef DEF Init, F!Init, Contents
<1>2. QInv /\ QInv' /\ [Next]_vars => [F!Next]_Contents
  <2> SUFFICES ASSUME QInv, QInv', [Next]_vars
               PROVE  F!Next \/ UNCHANGED Contents
    OBVIOUS
  <2>1. CASE UNCHANGED vars
    BY <2>1 DEF vars, Contents, Slot
  <2> QED
    BY <2>1, AddQueueRefines, RemoveQueueRefines DEF Next, F!Next
<1> QED
  BY <1>1, <1>2, QueueInvariant, PTL DEF Spec, QInv, ImplementsFifo, F!Spec
=============================================================================
