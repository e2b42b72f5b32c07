----------------------- MODULE CacheHierarchy_proofs -----------------------
(***************************************************************************)
(* Theorems about CacheHierarchy for every hierarchy, every queue size and *)
(* every set of inputs that satisfy the assumptions of that module.        *)
(***************************************************************************)
EXTENDS CacheHierarchy, SequenceTheorems, FiniteSetTheorems,
        WellFoundedInduction, TLAPS

MshrType == [Caches -> SUBSET Entry]
QueueType == [Caches -> Seq(Packet)]

-----------------------------------------------------------------------------
(* Types of the calls between caches.                                      *)

\* A function over 1..n with values in S is a sequence of S.
LEMMA FunctionIsSeq ==
  ASSUME NEW S, NEW n \in Nat, NEW f \in [1..n -> S]
  PROVE  f \in Seq(S)
BY SeqDef

\* An MSHR entry made from a packet is an entry.
LEMMA NewEntryType ==
  ASSUME NEW p \in Packet, NEW r \in BOOLEAN
  PROVE  NewEntry(p, r) \in Entry
BY DEF NewEntry, Packet, Entry

\* return_data keeps MSHR files typed.
LEMMA ReturnDataType ==
  ASSUME NEW m \in MshrType, NEW u \in Caches, NEW a
  PROVE  ReturnData(m, u, a) \in MshrType
<1>1. \A e \in Entry : [e EXCEPT !.returned = TRUE] \in Entry
  BY DEF Entry
<1>2. m[u] \subseteq Entry
  BY DEF MshrType
<1>3. {IF e.addr = a THEN [e EXCEPT !.returned = TRUE] ELSE e : e \in m[u]} \in SUBSET Entry
  BY <1>1, <1>2
<1> QED
  BY <1>3 DEF ReturnData, MshrType

\* The upper level of a port is a cache.
LEMMA UpperType ==
  ASSUME NEW c \in Caches \cup {Dram}, NEW port \in Ports
  PROVE  Upper[c][port] \in Caches
<1>1. Upper \in [Caches \cup {Dram} -> [Ports -> Caches]]
  BY HierarchyAssumption
<1>2. Upper[c] \in [Ports -> Caches]
  BY <1>1
<1> QED
  BY <1>2

\* So does the answer a handler gives to the level above.
LEMMA AnswerType ==
  ASSUME NEW m \in MshrType, NEW c \in Caches, NEW p, p.port \in Ports
  PROVE  Answer(m, c, p) \in MshrType
<1>1. Upper[c][p.port] \in Caches
  BY UpperType
<1> QED
  BY <1>1, ReturnDataType DEF Answer

\* Removing the head of a queue keeps the queues typed.
LEMMA PopType ==
  ASSUME NEW S, NEW q \in [Caches -> Seq(S)], NEW c \in Caches, q[c] # <<>>
  PROVE  Pop(q, c) \in [Caches -> Seq(S)] /\ Head(q[c]) \in S
<1>1. Tail(q[c]) \in Seq(S) /\ Head(q[c]) \in S
  BY HeadTailProperties
<1> QED
  BY <1>1 DEF Pop

\* The copy of a packet sent to the next level is a packet.
LEMMA DownType ==
  ASSUME NEW p \in Packet
  PROVE  Down(p) \in Packet /\ Down(p).port = p.port
BY DEF Down, Packet

LEMMA PushProcessedType ==
  ASSUME TypeOK, NEW c \in Caches, NEW deps \in SUBSET Slots
  PROVE  PushProcessed(c, deps) \in [Caches -> Seq(SUBSET Slots)]
<1>1. processed \in [Caches -> Seq(SUBSET Slots)]
  BY DEF TypeOK
<1>2. Append(processed[c], deps) \in Seq(SUBSET Slots)
  BY <1>1, AppendProperties
<1> QED
  BY <1>1, <1>2 DEF PushProcessed

LEMMA JoinReadType ==
  ASSUME NEW s \in Seq(Packet), NEW p \in Packet
  PROVE  JoinRead(s, p) \in Seq(Packet)
<1>1. Len(s) \in Nat /\ DOMAIN s = 1..Len(s)
  BY LenProperties
<1>2. \A i \in 1..Len(s) : s[i] \in Packet
  BY ElementOfSeq
<1>3. JoinRead(s, p) \in [1..Len(s) -> Packet]
  BY <1>1, <1>2 DEF JoinRead, Packet
<1> QED
  BY <1>1, <1>3, FunctionIsSeq

LEMMA MergeReadType ==
  ASSUME NEW q \in QueueType, NEW l \in Caches, NEW p \in Packet
  PROVE  MergeRead(q, l, p) \in QueueType
BY JoinReadType DEF MergeRead, QueueType

LEMMA JoinPrefetchType ==
  ASSUME NEW s \in Seq(Packet), NEW p \in Packet
  PROVE  JoinPrefetch(s, p) \in Seq(Packet)
<1>1. Len(s) \in Nat /\ DOMAIN s = 1..Len(s)
  BY LenProperties
<1>2. \A i \in 1..Len(s) : s[i] \in Packet
  BY ElementOfSeq
<1>3. JoinPrefetch(s, p) \in [1..Len(s) -> Packet]
  BY <1>1, <1>2 DEF JoinPrefetch, MinOf, Packet
<1> QED
  BY <1>1, <1>3, FunctionIsSeq

LEMMA AppendType ==
  ASSUME NEW q \in QueueType, NEW l \in Caches, NEW p \in Packet
  PROVE  [q EXCEPT ![l] = Append(@, p)] \in QueueType
<1>1. Append(q[l], p) \in Seq(Packet)
  BY AppendProperties DEF QueueType
<1> QED
  BY <1>1 DEF QueueType

LEMMA AddRqType ==
  ASSUME TypeOK, NEW m \in MshrType, NEW q \in QueueType, NEW l \in Caches,
         NEW p \in Packet, NEW word, AddRq(m, q, l, p, word)
  PROVE  mshr' \in MshrType /\ rq' \in QueueType
         /\ processed' \in [Caches -> Seq(SUBSET Slots)]
<1>1. p.port \in Ports /\ p.deps \in SUBSET Slots
  BY DEF Packet
<1>2. Answer(m, l, p) \in MshrType
  BY <1>1, AnswerType
<1>3. PushProcessed(l, p.deps) \in [Caches -> Seq(SUBSET Slots)]
  BY <1>1, PushProcessedType
<1>4. processed \in [Caches -> Seq(SUBSET Slots)]
  BY DEF TypeOK
<1>5. MergeRead(q, l, p) \in QueueType /\ [q EXCEPT ![l] = Append(@, p)] \in QueueType
  BY MergeReadType, AppendType
<1>6. CASE WqMatch(l, p.addr, word)
  BY <1>2, <1>3, <1>4, <1>6 DEF AddRq
<1>7. CASE ~WqMatch(l, p.addr, word)
  BY <1>4, <1>5, <1>7 DEF AddRq
<1> QED
  BY <1>6, <1>7

LEMMA DramAddRqType ==
  ASSUME TypeOK, NEW m \in MshrType, NEW p \in Packet, DramAddRq(m, p)
  PROVE  mshr' \in MshrType /\ dramRq' \subseteq Packet
<1>1. Upper[Dram][p.port] \in Caches
  BY UpperType DEF Packet
<1>2. ReturnData(m, Upper[Dram][p.port], p.addr) \in MshrType
  BY <1>1, ReturnDataType
<1> QED
  BY <1>2, DownType DEF DramAddRq, TypeOK

LEMMA AddWqType ==
  ASSUME NEW q \in QueueType, NEW l \in Caches, NEW p \in Packet, NEW word
  PROVE  AddWq(q, l, p, word) \in QueueType
BY AppendType DEF AddWq

LEMMA AddPqType ==
  ASSUME TypeOK, NEW m \in MshrType, NEW q \in QueueType, NEW l \in Caches,
         NEW p \in Packet, NEW word, AddPq(m, q, l, p, word)
  PROVE  mshr' \in MshrType /\ pq' \in QueueType
<1>1. q[l] \in Seq(Packet)
  BY DEF QueueType
<1>2. [q EXCEPT ![l] = JoinPrefetch(@, p)] \in QueueType
  BY <1>1, JoinPrefetchType DEF QueueType
<1>3. [q EXCEPT ![l] = Append(@, p)] \in QueueType
  BY AppendType
<1>4. Answer(m, l, p) \in MshrType
  BY AnswerType DEF Packet
<1> QED
  BY <1>2, <1>3, <1>4 DEF AddPq

\* The eviction of a victim hands a well-formed writeback to the lower level.
LEMMA EvictType ==
  ASSUME TypeOK, NEW c \in Caches, NEW w \in Ways(c), NEW q \in QueueType,
         NEW port \in Ports, Evict(c, w, q, port)
  PROVE  wq' \in QueueType /\ dramWq' \subseteq Addr
<1>1. block[c][w] \in Block /\ dramWq \subseteq Addr
  <2>1. block[c] \in [Ways(c) -> Block] /\ dramWq \subseteq Addr
    BY DEF TypeOK
  <2> QED
    BY <2>1
<1>2. CASE ~block[c][w].dirty \/ Lower[c] = NoLower
  BY <1>1, <1>2 DEF Evict
<1>3. CASE ~(~block[c][w].dirty \/ Lower[c] = NoLower)
  <2>1. block[c][w].addr \in Addr
    <3>1. block[c][w] # EmptyBlock
      BY <1>3 DEF EmptyBlock
    <3> QED
      BY <1>1, <3>1 DEF Block
  <2>2. CASE Lower[c] = Dram
    BY <1>1, <1>3, <2>1, <2>2 DEF Evict
  <2>3. CASE Lower[c] # Dram
    <3>1. Lower[c] \in Caches
      BY <1>3, <2>3, HierarchyAssumption
    <3>2. WritebackPacket(c, block[c][w].addr, port) \in Packet
      <4>1. 2 * FillLevel[c] \in Levels
        <5>1. FillLevel[c] \in {1, 2, 4}
          BY HierarchyAssumption
        <5> QED
          BY <5>1 DEF Levels
      <4>2. <<port[1], FALSE>> \in Ports
        BY DEF Ports
      <4> QED
        BY <2>1, <4>1, <4>2 DEF WritebackPacket, Packet, Types
    <3> QED
      BY <1>1, <1>3, <2>3, <3>1, <3>2, AddWqType DEF Evict
  <2> QED
    BY <2>2, <2>3
<1> QED
  BY <1>2, <1>3

\* The two conjuncts of TypeOK about the blocks.
BlocksOK ==
  /\ block = [c \in Caches |-> block[c]]
  /\ \A c \in Caches : block[c] \in [Ways(c) -> Block]

\* Writing a well-formed block into one way keeps all of them well-formed.
LEMMA BlockWriteType ==
  ASSUME BlocksOK, NEW c \in Caches, NEW w \in Ways(c), NEW b \in Block,
         block' = [block EXCEPT ![c][w] = b]
  PROVE  BlocksOK'
<1>1. \A d \in Caches : block'[d] = IF d = c THEN [block[c] EXCEPT ![w] = b] ELSE block[d]
  BY DEF BlocksOK
<1>2. block' = [d \in Caches |-> block'[d]]
  BY DEF BlocksOK
<1>3. \A d \in Caches : block[d] \in [Ways(d) -> Block]
  BY DEF BlocksOK
<1>4. \A d \in Caches : block'[d] \in [Ways(d) -> Block]
  BY <1>1, <1>3
<1> QED
  BY <1>2, <1>4 DEF BlocksOK, Ways

LEMMA FillCacheType ==
  ASSUME BlocksOK, NEW c \in Caches, NEW w \in Ways(c), NEW a \in Addr,
         NEW d \in BOOLEAN, FillCache(c, w, a, d)
  PROVE  BlocksOK'
<1>1. [valid |-> TRUE, addr |-> a, dirty |-> d] \in Block
  BY DEF Block
<1> QED
  BY <1>1, BlockWriteType DEF FillCache
-----------------------------------------------------------------------------
(* One lemma per handler: each keeps TypeOK.                               *)

LEMMA HandleFillType ==
  ASSUME TypeOK, NEW c \in Caches, NEW a \in Addr, HandleFill(c, a)
  PROVE  TypeOK'
<1>1. PICK e \in mshr[c], w \in Victims(c) :
        /\ e.addr = a
        /\ Evict(c, w, wq, e.port)
        /\ FillCache(c, w, a, FillsDirty(c, e))
        /\ mshr' = Answer([mshr EXCEPT ![c] = @ \ {e}], c, e)
        /\ processed' \in {processed, PushProcessed(c, e.deps)}
        /\ UNCHANGED <<rq, pq, dramRq, warm, coreVars>>
  BY DEF HandleFill
<1>2. e \in Entry /\ e.port \in Ports /\ e.deps \in SUBSET Slots
  BY DEF TypeOK, Entry
<1>3. w \in Ways(c)
  BY DEF Victims, InvalidWays
<1>4. wq' \in QueueType /\ dramWq' \subseteq Addr
  BY <1>1, <1>2, <1>3, EvictType DEF TypeOK, QueueType
<1>5. BlocksOK'
  <2>1. FillsDirty(c, e) \in BOOLEAN
    BY DEF FillsDirty
  <2> QED
    BY <1>1, <1>3, <2>1, FillCacheType DEF TypeOK, BlocksOK
<1>6. mshr' \in MshrType
  <2>1. [mshr EXCEPT ![c] = @ \ {e}] \in MshrType
    BY DEF TypeOK, MshrType
  <2> QED
    BY <1>1, <1>2, <2>1, AnswerType
<1>7. processed' \in [Caches -> Seq(SUBSET Slots)]
  BY <1>1, <1>2, PushProcessedType DEF TypeOK
<1> QED
  BY <1>1, <1>4, <1>5, <1>6, <1>7 DEF TypeOK, BlocksOK, MshrType, QueueType, coreVars

\* Replacing an MSHR entry of a cache by a well-formed one.
LEMMA ReplaceType ==
  ASSUME mshr \in MshrType, NEW c \in Caches, NEW e, NEW f \in Entry
  PROVE  Replace(c, e, f) \in MshrType
BY DEF Replace, MshrType

\* A new miss adds a well-formed MSHR entry.
LEMMA AllocateType ==
  ASSUME mshr \in MshrType, NEW c \in Caches, NEW p \in Packet, NEW r \in BOOLEAN
  PROVE  [mshr EXCEPT ![c] = @ \cup {NewEntry(p, r)}] \in MshrType
BY NewEntryType DEF MshrType

\* Every non-empty set of ways has a least member.
LEMMA SmallestWay ==
  ASSUME NEW n \in Nat, NEW S \in SUBSET (1..n), S # {}
  PROVE  \E w \in S : \A v \in S : w <= v
<1>1. S \subseteq Nat
  OBVIOUS
<1>2. PICK w \in S : \A v \in S : <<v, w>> \notin OpToRel(<, Nat)
  BY <1>1, NatLessThanWellFounded, WFMin
<1>3. \A v \in S : ~(v < w)
  BY <1>1, <1>2 DEF OpToRel
<1> QED
  BY <1>1, <1>3

\* check_hit returns a way of the cache that holds a valid block.
LEMMA HitWayFound ==
  ASSUME NEW c \in Caches, NEW a, Hit(c, a)
  PROVE  HitWay(c, a) \in Ways(c) /\ block[c][HitWay(c, a)].valid
         /\ block[c][HitWay(c, a)].addr = a
<1>1. NumWay[c] \in Nat
  BY SizeAssumption
<1>2. HitWays(c, a) \subseteq Ways(c) /\ HitWays(c, a) # {}
  BY DEF Hit, HitWays
<1>3. \E w \in HitWays(c, a) : \A v \in HitWays(c, a) : w <= v
  BY <1>1, <1>2, SmallestWay DEF Ways
<1>4. HitWay(c, a) \in HitWays(c, a)
  BY <1>3 DEF HitWay
<1> QED
  BY <1>4 DEF HitWays

\* Marking a valid block dirty leaves it well-formed.
LEMMA DirtyBlockType ==
  ASSUME NEW b \in Block, b.valid
  PROVE  [b EXCEPT !.dirty = TRUE] \in Block
<1>1. b # EmptyBlock
  BY DEF EmptyBlock
<1> QED
  BY <1>1 DEF Block

\* The smaller of two fill levels is a fill level.
LEMMA LowerFillType ==
  ASSUME NEW e \in Entry, NEW l \in Levels
  PROVE  [e EXCEPT !.fl = MinOf(l, @)] \in Entry
BY DEF Entry, MinOf

LEMMA HandleWritebackType ==
  ASSUME TypeOK, NEW c \in Caches, HandleWriteback(c)
  PROVE  TypeOK'
<1> DEFINE p == Head(wq[c])
<1>1. wq[c] # <<>> /\ UNCHANGED <<pq, warm, coreVars>>
  BY DEF HandleWriteback
<1>2. p \in Packet /\ Pop(wq, c) \in QueueType
  BY <1>1, PopType DEF TypeOK, QueueType
<1>3. p.addr \in Addr /\ p.port \in Ports /\ p.deps \in SUBSET Slots /\ p.fl \in Levels
  BY <1>2 DEF Packet
<1>4. mshr \in MshrType /\ rq \in QueueType /\ wq \in QueueType
  BY DEF TypeOK, MshrType, QueueType
<1>5. Answer(mshr, c, p) \in MshrType
  BY <1>3, <1>4, AnswerType
<1> HIDE DEF p
<1>6. CASE WriteHit(c, p)
  <2>1. HitWay(c, p.addr) \in Ways(c) /\ block[c][HitWay(c, p.addr)].valid
    BY <1>6, HitWayFound DEF WriteHit
  <2>2. BlocksOK
    BY DEF TypeOK, BlocksOK
  <2>3. block' = [block EXCEPT ![c][HitWay(c, p.addr)] = [@ EXCEPT !.dirty = TRUE]]
    BY <1>6 DEF WriteHit
  <2>4. [block[c][HitWay(c, p.addr)] EXCEPT !.dirty = TRUE] \in Block
    BY <2>1, <2>2, DirtyBlockType DEF BlocksOK
  <2>5. BlocksOK'
    BY <2>1, <2>2, <2>3, <2>4, BlockWriteType
  <2> QED
    BY <1>1, <1>2, <1>5, <1>6, <2>5
       DEF TypeOK, BlocksOK, WriteHit, MshrType, QueueType, coreVars, dramVars
<1>7. CASE RfoNewMiss(c, p)
  <2>1. Lower[c] \in Caches
    BY <1>7, HierarchyAssumption DEF RfoNewMiss
  <2>2. [mshr EXCEPT ![c] = @ \cup {NewEntry(p, FALSE)}] \in MshrType
    BY <1>2, <1>4, AllocateType
  <2>3. mshr' \in MshrType /\ rq' \in QueueType
        /\ processed' \in [Caches -> Seq(SUBSET Slots)]
    BY <1>2, <1>4, <1>7, <2>1, <2>2, AddRqType, DownType DEF RfoNewMiss
  <2> QED
    BY <1>1, <1>2, <1>7, <2>3 DEF TypeOK, RfoNewMiss, MshrType, QueueType, coreVars, dramVars
<1>8. CASE RfoMerge(c, p)
  <2>1. PICK e \in mshr[c] :
          mshr' = Replace(c, e, IF e.type = "PREFETCH" THEN NewEntry(p, e.returned)
                                ELSE [e EXCEPT !.fl = MinOf(p.fl, @)])
    BY <1>8 DEF RfoMerge
  <2>2. e \in Entry
    BY <1>4 DEF MshrType
  <2>3. NewEntry(p, e.returned) \in Entry /\ [e EXCEPT !.fl = MinOf(p.fl, @)] \in Entry
    BY <1>2, <1>3, <2>2, NewEntryType, LowerFillType DEF Entry
  <2>4. mshr' \in MshrType
    BY <1>4, <2>1, <2>3, ReplaceType
  <2> QED
    BY <1>1, <1>2, <1>8, <2>4 DEF TypeOK, RfoMerge, MshrType, QueueType, coreVars, dramVars
<1>9. CASE WriteAllocate(c, p)
  <2>1. PICK w \in Victims(c) : /\ Evict(c, w, Pop(wq, c), p.port)
                                /\ FillCache(c, w, p.addr, TRUE)
    BY <1>9 DEF WriteAllocate
  <2>2. w \in Ways(c)
    BY DEF Victims, InvalidWays
  <2>3. wq' \in QueueType /\ dramWq' \subseteq Addr
    BY <1>2, <1>3, <2>1, <2>2, EvictType
  <2>4. BlocksOK'
    BY <1>3, <2>1, <2>2, FillCacheType DEF TypeOK, BlocksOK
  <2> QED
    BY <1>1, <1>5, <1>9, <2>3, <2>4
       DEF TypeOK, BlocksOK, WriteAllocate, MshrType, QueueType, coreVars
<1> QED
  BY <1>6, <1>7, <1>8, <1>9 DEF HandleWriteback, p

\* A demand that joins an MSHR entry leaves a well-formed entry.
LEMMA MergeDemandType ==
  ASSUME NEW e \in Entry, NEW p \in Packet
  PROVE  MergeDemand(e, p) \in Entry
<1>1. NewEntry(p, e.returned) \in Entry
  BY NewEntryType DEF Entry
<1>2. [e EXCEPT !.fl = MinOf(p.fl, @), !.deps = @ \cup p.deps] \in Entry
  BY DEF Entry, Packet, MinOf
<1> QED
  BY <1>1, <1>2 DEF MergeDemand

LEMMA HandleReadType ==
  ASSUME TypeOK, NEW c \in Caches, HandleRead(c)
  PROVE  TypeOK'
<1> DEFINE p == Head(rq[c])
<1>1. rq[c] # <<>> /\ UNCHANGED <<block, wq, pq, dramWq, warm, coreVars>>
  BY DEF HandleRead
<1>2. p \in Packet /\ Pop(rq, c) \in QueueType
  BY <1>1, PopType DEF TypeOK, QueueType
<1>3. p.port \in Ports /\ p.deps \in SUBSET Slots
  BY <1>2 DEF Packet
<1>4. mshr \in MshrType /\ rq \in QueueType
      /\ processed \in [Caches -> Seq(SUBSET Slots)] /\ dramRq \subseteq Packet
  BY DEF TypeOK, MshrType, QueueType
<1>5. ReadHit(c, p) \/ ReadNewMiss(c, p) \/ ReadMerge(c, p)
  BY DEF HandleRead
<1> HIDE DEF p
<1>6. /\ mshr' \in MshrType /\ rq' \in QueueType
      /\ processed' \in [Caches -> Seq(SUBSET Slots)] /\ dramRq' \subseteq Packet
  <2>1. CASE ReadHit(c, p)
    <3>1. Answer(mshr, c, p) \in MshrType
          /\ PushProcessed(c, p.deps) \in [Caches -> Seq(SUBSET Slots)]
      BY <1>3, <1>4, AnswerType, PushProcessedType
    <3> QED
      BY <1>2, <1>4, <2>1, <3>1 DEF ReadHit
  <2>2. CASE ReadNewMiss(c, p)
    <3>1. /\ [mshr EXCEPT ![c] = @ \cup {NewEntry(p, FALSE)}] \in MshrType
          /\ [mshr EXCEPT ![c] = @ \cup {NewEntry(p, TRUE)}] \in MshrType
      BY <1>2, <1>4, AllocateType
    <3>2. CASE /\ Lower[c] \in Caches
               /\ AddRq([mshr EXCEPT ![c] = @ \cup {NewEntry(p, FALSE)}], Pop(rq, c),
                        Lower[c], Down(p), TRUE)
               /\ UNCHANGED dramRq
      BY <1>2, <1>4, <3>1, <3>2, AddRqType, DownType
    <3>3. CASE /\ DramAddRq([mshr EXCEPT ![c] = @ \cup {NewEntry(p, FALSE)}], p)
               /\ rq' = Pop(rq, c)
               /\ UNCHANGED processed
      BY <1>2, <1>4, <3>1, <3>3, DramAddRqType
    <3>4. CASE /\ mshr' = [mshr EXCEPT ![c] = @ \cup {NewEntry(p, TRUE)}]
               /\ rq' = Pop(rq, c)
               /\ UNCHANGED <<processed, dramRq>>
      BY <1>2, <1>4, <3>1, <3>4
    <3> QED
      BY <2>2, <3>2, <3>3, <3>4 DEF ReadNewMiss
  <2>3. CASE ReadMerge(c, p)
    <3>1. PICK e \in mshr[c] : mshr' = Replace(c, e, MergeDemand(e, p))
      BY <2>3 DEF ReadMerge
    <3>2. MergeDemand(e, p) \in Entry
      BY <1>2, <1>4, MergeDemandType DEF MshrType
    <3> QED
      BY <1>2, <1>4, <2>3, <3>1, <3>2, ReplaceType DEF ReadMerge
  <2> QED
    BY <1>5, <2>1, <2>2, <2>3
<1> QED
  BY <1>1, <1>6 DEF TypeOK, MshrType, QueueType, coreVars

LEMMA HandlePrefetchType ==
  ASSUME TypeOK, NEW c \in Caches, HandlePrefetch(c)
  PROVE  TypeOK'
<1> DEFINE p == Head(pq[c])
<1>1. pq[c] # <<>> /\ UNCHANGED <<block, rq, wq, processed, dramWq, warm, coreVars>>
  BY DEF HandlePrefetch
<1>2. p \in Packet /\ Pop(pq, c) \in QueueType
  BY <1>1, PopType DEF TypeOK, QueueType
<1>3. p.port \in Ports /\ p.fl \in Levels
  BY <1>2 DEF Packet
<1>4. mshr \in MshrType /\ pq \in QueueType /\ dramRq \subseteq Packet
  BY DEF TypeOK, MshrType, QueueType
<1>5. PrefetchHit(c, p) \/ PrefetchNewMiss(c, p) \/ PrefetchMerge(c, p)
  BY DEF HandlePrefetch
<1> HIDE DEF p
<1>6. mshr' \in MshrType /\ pq' \in QueueType /\ dramRq' \subseteq Packet
  <2>1. CASE PrefetchHit(c, p)
    BY <1>2, <1>3, <1>4, <2>1, AnswerType DEF PrefetchHit
  <2>2. CASE PrefetchNewMiss(c, p)
    <3> DEFINE m == IF TakesMshr(c, p)
                    THEN [mshr EXCEPT ![c] = @ \cup {NewEntry(p, FALSE)}] ELSE mshr
    <3>1. m \in MshrType
      BY <1>2, <1>4, AllocateType
    <3>2. CASE /\ Lower[c] \in Caches
               /\ AddPq(m, Pop(pq, c), Lower[c], p, TRUE)
               /\ UNCHANGED dramRq
      <4> HIDE DEF m
      <4> QED
        BY <1>2, <1>4, <3>1, <3>2, AddPqType
    <3>3. CASE DramAddRq(m, p) /\ pq' = Pop(pq, c)
      <4> HIDE DEF m
      <4> QED
        BY <1>2, <3>1, <3>3, DramAddRqType
    <3> QED
      BY <2>2, <3>2, <3>3 DEF PrefetchNewMiss
  <2>3. CASE PrefetchMerge(c, p)
    <3>1. PICK e \in mshr[c] : mshr' = Replace(c, e, [e EXCEPT !.fl = MinOf(p.fl, @)])
      BY <2>3 DEF PrefetchMerge
    <3>2. [e EXCEPT !.fl = MinOf(p.fl, @)] \in Entry
      BY <1>3, <1>4, LowerFillType DEF MshrType
    <3> QED
      BY <1>2, <1>4, <2>3, <3>1, <3>2, ReplaceType DEF PrefetchMerge
  <2> QED
    BY <1>5, <2>1, <2>2, <2>3
<1> QED
  BY <1>1, <1>6 DEF TypeOK, MshrType, QueueType, coreVars

LEMMA DramReturnType ==
  ASSUME TypeOK, NEW a \in Addr, DramReturn(a)
  PROVE  TypeOK'
<1>1. PICK p \in dramRq : /\ mshr' = ReturnData(mshr, Upper[Dram][p.port], a)
                          /\ dramRq' = dramRq \ {p}
  BY DEF DramReturn
<1>2. Upper[Dram][p.port] \in Caches
  BY UpperType DEF TypeOK, Packet
<1>3. mshr' \in MshrType
  BY <1>1, <1>2, ReturnDataType DEF TypeOK, MshrType
<1> QED
  BY <1>1, <1>3 DEF DramReturn, TypeOK, MshrType, coreVars
-----------------------------------------------------------------------------
(* The core's actions keep TypeOK.                                         *)

LEMMA PrefetchLineType ==
  ASSUME TypeOK, NEW r \in Prefetches, NEW word, PrefetchLine(r.cache, r.addr, r.fl, word)
  PROVE  TypeOK'
<1> DEFINE p == [addr |-> r.addr, type |-> "PREFETCH", fl |-> r.fl,
                 port |-> PortOf[r.cache], deps |-> {}]
<1>1. r.cache \in Caches /\ r.addr \in Addr /\ r.fl \in {1, 2, 4}
  BY InputAssumption
<1>2. PortOf[r.cache] \in Ports
  BY <1>1, HierarchyAssumption
<1>3. p \in Packet
  BY <1>1, <1>2 DEF Packet, Types, Levels
<1>4. AddPq(mshr, pq, r.cache, p, word)
  BY DEF PrefetchLine
<1> HIDE DEF p
<1>5. mshr' \in MshrType /\ pq' \in QueueType
  BY <1>1, <1>3, <1>4, AddPqType DEF TypeOK, MshrType, QueueType
<1> QED
  BY <1>5 DEF PrefetchLine, TypeOK, MshrType, QueueType, coreVars, dramVars

LEMMA IssueType ==
  ASSUME TypeOK, NEW s \in Slots, NEW d \in Demands, NEW word, Issue(s, d, word)
  PROVE  TypeOK'
<1> DEFINE p == [addr |-> d.addr, type |-> d.type, fl |-> FillLevel[d.cache],
                 port |-> PortOf[d.cache], deps |-> {s}]
<1>1. d.cache \in Caches /\ d.addr \in Addr /\ d.type \in {"LOAD", "RFO"}
  BY InputAssumption
<1>2. PortOf[d.cache] \in Ports /\ FillLevel[d.cache] \in {1, 2, 4}
  BY <1>1, HierarchyAssumption
<1>3. p \in Packet
  BY <1>1, <1>2 DEF Packet, Types, Levels
<1>4. AddRq(mshr, rq, d.cache, p, word)
  BY DEF Issue
<1> HIDE DEF p
<1>5. mshr' \in MshrType /\ rq' \in QueueType
      /\ processed' \in [Caches -> Seq(SUBSET Slots)]
  BY <1>1, <1>3, <1>4, AddRqType DEF TypeOK, MshrType, QueueType
<1> QED
  BY <1>5 DEF Issue, TypeOK, MshrType, QueueType, dramVars

LEMMA CompleteFetchType ==
  ASSUME TypeOK, NEW c \in Caches, CompleteFetch(c)
  PROVE  TypeOK'
<1>1. processed' \in [Caches -> Seq(SUBSET Slots)]
  BY PopType DEF TypeOK, CompleteFetch
<1> QED
  BY <1>1 DEF CompleteFetch, TypeOK, dramVars

LEMMA RetireSlotType ==
  ASSUME TypeOK, NEW cpu \in Cpus, RetireSlot(cpu), wq' \in QueueType
  PROVE  TypeOK'
<1>1. robHead[cpu] \in 0..RobSize - 1 /\ RobSize \in Nat \ {0}
  BY SizeAssumption DEF TypeOK
<1>2. NextSlot(robHead[cpu]) \in 0..RobSize - 1
  BY <1>1 DEF NextSlot
<1>3. robHead' \in [Cpus -> 0..RobSize - 1]
  BY <1>2 DEF RetireSlot, TypeOK
<1>4. rob' \in [Slots -> {"free", "waiting", "done"}]
  BY DEF RetireSlot, TypeOK
<1> QED
  BY <1>3, <1>4 DEF RetireSlot, TypeOK, QueueType, dramVars

LEMMA RetireStoreType ==
  ASSUME TypeOK, NEW cpu \in Cpus, NEW st \in Stores, NEW word, RetireStore(cpu, st, word)
  PROVE  TypeOK'
<1> DEFINE p == [addr |-> st.addr, type |-> "RFO", fl |-> FillLevel[st.cache],
                 port |-> PortOf[st.cache], deps |-> {}]
<1>1. st.cache \in Caches /\ st.addr \in Addr
  BY InputAssumption
<1>2. PortOf[st.cache] \in Ports /\ FillLevel[st.cache] \in {1, 2, 4}
  BY <1>1, HierarchyAssumption
<1>3. p \in Packet
  BY <1>1, <1>2 DEF Packet, Types, Levels
<1>4. wq' = AddWq(wq, st.cache, p, word)
  BY DEF RetireStore
<1> HIDE DEF p
<1>5. wq' \in QueueType
  BY <1>1, <1>3, <1>4, AddWqType DEF TypeOK, QueueType
<1> QED
  BY <1>5, RetireSlotType DEF RetireStore
-----------------------------------------------------------------------------
\* TypeOK holds at the start and every step keeps it.
LEMMA TypeInit == Init => TypeOK
<1> SUFFICES ASSUME Init PROVE TypeOK
  OBVIOUS
<1>1. BlocksOK
  BY DEF Init, BlocksOK, Block, EmptyBlock
<1>2. 0 \in 0..RobSize - 1
  BY SizeAssumption
<1>3. <<>> \in Seq(Packet) /\ <<>> \in Seq(SUBSET Slots)
  BY EmptySeq
<1>4. /\ mshr \in [Caches -> SUBSET Entry] /\ rq \in [Caches -> Seq(Packet)]
      /\ wq \in [Caches -> Seq(Packet)] /\ pq \in [Caches -> Seq(Packet)]
      /\ processed \in [Caches -> Seq(SUBSET Slots)]
  BY <1>3 DEF Init
<1>5. /\ dramRq \subseteq Packet /\ dramWq \subseteq Addr /\ warm \in BOOLEAN
      /\ rob \in [Slots -> {"free", "waiting", "done"}]
      /\ robHead \in [Cpus -> 0..RobSize - 1]
  BY <1>2 DEF Init
<1> QED
  BY <1>1, <1>4, <1>5 DEF TypeOK, BlocksOK

LEMMA TypeNext == TypeOK /\ [Next]_vars => TypeOK'
<1> SUFFICES ASSUME TypeOK, [Next]_vars PROVE TypeOK'
  OBVIOUS
<1>1. ASSUME NEW c \in Caches, CacheStep(c) PROVE TypeOK'
  BY <1>1, HandleFillType, HandleWritebackType, HandleReadType, HandlePrefetchType
     DEF CacheStep
<1>2. CASE CoreStep
  <2>1. ASSUME NEW cpu \in Cpus, Retire(cpu) PROVE TypeOK'
    BY <2>1, RetireSlotType DEF Retire, TypeOK, QueueType
  <2> QED
    BY <1>2, <2>1, IssueType, CompleteFetchType, RetireStoreType, PrefetchLineType
       DEF CoreStep
<1>3. CASE DramStep
  <2>1. ASSUME NEW a \in Addr, DramWrite(a) PROVE TypeOK'
    BY <2>1 DEF DramWrite, TypeOK, coreVars
  <2>2. CASE WarmupComplete
    BY <2>2 DEF WarmupComplete, TypeOK, coreVars, dramVars
  <2> QED
    BY <1>3, <2>1, <2>2, DramReturnType DEF DramStep
<1>4. CASE UNCHANGED vars
  BY <1>4 DEF vars, TypeOK, Ways
<1> QED
  BY <1>1, <1>2, <1>3, <1>4 DEF Next

\* Type correctness for every hierarchy: whatever the wiring, the sizes and the
\* inputs, no handler of cache.cc leaves a malformed packet, entry or block.
THEOREM TypeCorrect == Spec => []TypeOK
<1>1. Init => TypeOK
  BY TypeInit
<1>2. TypeOK /\ [Next]_vars => TypeOK'
  BY TypeNext
<1> QED
  BY <1>1, <1>2, PTL DEF Spec
-----------------------------------------------------------------------------
(* One MSHR entry per block.                                               *)

\* OneEntryPerBlock of an MSHR file m that is not yet the state's.
Unique(m) == \A c \in Caches : \A e, f \in m[c] : e.addr = f.addr => e = f

\* return_data changes entries but neither adds one nor moves one.
LEMMA ReturnDataUnique ==
  ASSUME NEW m \in MshrType, NEW u \in Caches, NEW a, Unique(m)
  PROVE  Unique(ReturnData(m, u, a))
<1> DEFINE R(e) == IF e.addr = a THEN [e EXCEPT !.returned = TRUE] ELSE e
<1>1. \A e \in Entry : R(e).addr = e.addr
  BY DEF Entry
<1>2. \A c \in Caches : m[c] \subseteq Entry
  BY DEF MshrType
<1>3. \A c \in Caches : ReturnData(m, u, a)[c] = IF c = u THEN {R(e) : e \in m[u]} ELSE m[c]
  BY DEF ReturnData, MshrType
<1>4. \A e, f \in m[u] : R(e).addr = R(f).addr => R(e) = R(f)
  BY <1>1, <1>2 DEF Unique
<1>5. \A c \in Caches : \A e, f \in m[c] : e.addr = f.addr => e = f
  BY DEF Unique
<1> HIDE DEF R
<1>6. \A e, f \in {R(g) : g \in m[u]} : e.addr = f.addr => e = f
  BY <1>4
<1> QED
  BY <1>3, <1>5, <1>6 DEF Unique

LEMMA AnswerUnique ==
  ASSUME NEW m \in MshrType, NEW c \in Caches, NEW p, p.port \in Ports, Unique(m)
  PROVE  Unique(Answer(m, c, p))
BY UpperType, ReturnDataUnique DEF Answer

\* An entry is allocated only after check_mshr found none for the block.
LEMMA AllocateUnique ==
  ASSUME TypeOK, Unique(mshr), NEW c \in Caches, NEW p \in Packet, NEW r \in BOOLEAN,
         ~InMshr(c, p.addr)
  PROVE  Unique([mshr EXCEPT ![c] = @ \cup {NewEntry(p, r)}])
<1>1. NewEntry(p, r).addr = p.addr
  BY DEF NewEntry
<1>2. \A e \in mshr[c] : e.addr # p.addr
  BY DEF InMshr, InFlight
<1> QED
  BY <1>1, <1>2 DEF Unique, TypeOK

\* A merge rewrites the entry it found, for the same block.
LEMMA ReplaceUnique ==
  ASSUME TypeOK, Unique(mshr), NEW c \in Caches, NEW e \in mshr[c], NEW f, f.addr = e.addr
  PROVE  Unique(Replace(c, e, f))
BY DEF Unique, Replace, TypeOK

LEMMA AddRqUnique ==
  ASSUME NEW m \in MshrType, Unique(m), NEW q, NEW l \in Caches, NEW p \in Packet,
         NEW word, AddRq(m, q, l, p, word)
  PROVE  Unique(mshr')
BY AnswerUnique DEF AddRq, Packet

LEMMA AddPqUnique ==
  ASSUME NEW m \in MshrType, Unique(m), NEW q, NEW l \in Caches, NEW p \in Packet,
         NEW word, AddPq(m, q, l, p, word)
  PROVE  Unique(mshr')
BY AnswerUnique DEF AddPq, Packet

LEMMA DramAddRqUnique ==
  ASSUME NEW m \in MshrType, Unique(m), NEW p \in Packet, DramAddRq(m, p)
  PROVE  Unique(mshr')
BY UpperType, ReturnDataUnique DEF DramAddRq, Packet

LEMMA HandleFillUnique ==
  ASSUME TypeOK, Unique(mshr), NEW c \in Caches, NEW a \in Addr, HandleFill(c, a)
  PROVE  Unique(mshr')
<1>1. PICK e \in mshr[c] : mshr' = Answer([mshr EXCEPT ![c] = @ \ {e}], c, e)
  BY DEF HandleFill
<1>2. [mshr EXCEPT ![c] = @ \ {e}] \in MshrType /\ Unique([mshr EXCEPT ![c] = @ \ {e}])
  BY DEF TypeOK, MshrType, Unique
<1>3. e.port \in Ports
  BY DEF TypeOK, Entry
<1> QED
  BY <1>1, <1>2, <1>3, AnswerUnique

LEMMA HandleWritebackUnique ==
  ASSUME TypeOK, Unique(mshr), NEW c \in Caches, HandleWriteback(c)
  PROVE  Unique(mshr')
<1> DEFINE p == Head(wq[c])
<1>1. p \in Packet /\ mshr \in MshrType
  BY PopType DEF TypeOK, HandleWriteback, MshrType
<1>2. WriteHit(c, p) \/ RfoNewMiss(c, p) \/ RfoMerge(c, p) \/ WriteAllocate(c, p)
  BY DEF HandleWriteback
<1> HIDE DEF p
<1>3. CASE WriteHit(c, p) \/ WriteAllocate(c, p)
  BY <1>1, <1>3, AnswerUnique DEF WriteHit, WriteAllocate, Packet
<1>4. CASE RfoNewMiss(c, p)
  <2>1. Lower[c] \in Caches
    BY <1>4, HierarchyAssumption DEF RfoNewMiss
  <2> QED
    BY <1>1, <1>4, <2>1, AddRqUnique, AllocateType, AllocateUnique, DownType DEF RfoNewMiss
<1>5. CASE RfoMerge(c, p)
  <2>1. PICK e \in mshr[c] :
          /\ e.addr = p.addr
          /\ mshr' = Replace(c, e, IF e.type = "PREFETCH" THEN NewEntry(p, e.returned)
                                   ELSE [e EXCEPT !.fl = MinOf(p.fl, @)])
    BY <1>5 DEF RfoMerge
  <2>2. NewEntry(p, e.returned).addr = e.addr
    BY <2>1 DEF NewEntry
  <2>3. [e EXCEPT !.fl = MinOf(p.fl, @)].addr = e.addr
    BY <1>1 DEF MshrType, Entry
  <2> QED
    BY <2>1, <2>2, <2>3, ReplaceUnique
<1> QED
  BY <1>2, <1>3, <1>4, <1>5

LEMMA HandleReadUnique ==
  ASSUME TypeOK, Unique(mshr), NEW c \in Caches, HandleRead(c)
  PROVE  Unique(mshr')
<1> DEFINE p == Head(rq[c])
<1>1. p \in Packet /\ mshr \in MshrType
  BY PopType DEF TypeOK, HandleRead, MshrType
<1>2. ReadHit(c, p) \/ ReadNewMiss(c, p) \/ ReadMerge(c, p)
  BY DEF HandleRead
<1> HIDE DEF p
<1>3. CASE ReadHit(c, p)
  BY <1>1, <1>3, AnswerUnique DEF ReadHit, Packet
<1>4. CASE ReadNewMiss(c, p)
  <2>1. \A r \in BOOLEAN : LET m == [mshr EXCEPT ![c] = @ \cup {NewEntry(p, r)}]
                           IN m \in MshrType /\ Unique(m)
    BY <1>1, <1>4, AllocateType, AllocateUnique DEF ReadNewMiss
  <2>2. CASE Lower[c] \in Caches /\ AddRq([mshr EXCEPT ![c] = @ \cup {NewEntry(p, FALSE)}],
                                          Pop(rq, c), Lower[c], Down(p), TRUE)
    BY <1>1, <2>1, <2>2, AddRqUnique, DownType
  <2>3. CASE DramAddRq([mshr EXCEPT ![c] = @ \cup {NewEntry(p, FALSE)}], p)
    BY <1>1, <2>1, <2>3, DramAddRqUnique
  <2>4. CASE mshr' = [mshr EXCEPT ![c] = @ \cup {NewEntry(p, TRUE)}]
    BY <2>1, <2>4
  <2> QED
    BY <1>4, <2>2, <2>3, <2>4 DEF ReadNewMiss
<1>5. CASE ReadMerge(c, p)
  <2>1. PICK e \in mshr[c] : e.addr = p.addr /\ mshr' = Replace(c, e, MergeDemand(e, p))
    BY <1>5 DEF ReadMerge
  <2>2. MergeDemand(e, p).addr = e.addr
    BY <1>1, <2>1 DEF MergeDemand, NewEntry, MshrType, Entry
  <2> QED
    BY <2>1, <2>2, ReplaceUnique
<1> QED
  BY <1>2, <1>3, <1>4, <1>5

LEMMA HandlePrefetchUnique ==
  ASSUME TypeOK, Unique(mshr), NEW c \in Caches, HandlePrefetch(c)
  PROVE  Unique(mshr')
<1> DEFINE p == Head(pq[c])
<1>1. p \in Packet /\ mshr \in MshrType
  BY PopType DEF TypeOK, HandlePrefetch, MshrType
<1>2. PrefetchHit(c, p) \/ PrefetchNewMiss(c, p) \/ PrefetchMerge(c, p)
  BY DEF HandlePrefetch
<1> HIDE DEF p
<1>3. CASE PrefetchHit(c, p)
  BY <1>1, <1>3, AnswerUnique DEF PrefetchHit, Packet
<1>4. CASE PrefetchNewMiss(c, p)
  <2> DEFINE m == IF TakesMshr(c, p)
                  THEN [mshr EXCEPT ![c] = @ \cup {NewEntry(p, FALSE)}] ELSE mshr
  <2>1. m \in MshrType /\ Unique(m)
    BY <1>1, <1>4, AllocateType, AllocateUnique DEF PrefetchNewMiss
  <2>2. \/ Lower[c] \in Caches /\ AddPq(m, Pop(pq, c), Lower[c], p, TRUE)
        \/ DramAddRq(m, p)
    BY <1>4 DEF PrefetchNewMiss
  <2> HIDE DEF m
  <2> QED
    BY <1>1, <2>1, <2>2, AddPqUnique, DramAddRqUnique
<1>5. CASE PrefetchMerge(c, p)
  <2>1. PICK e \in mshr[c] :
          e.addr = p.addr /\ mshr' = Replace(c, e, [e EXCEPT !.fl = MinOf(p.fl, @)])
    BY <1>5 DEF PrefetchMerge
  <2>2. [e EXCEPT !.fl = MinOf(p.fl, @)].addr = e.addr
    BY <1>1 DEF MshrType, Entry
  <2> QED
    BY <2>1, <2>2, ReplaceUnique
<1> QED
  BY <1>2, <1>3, <1>4, <1>5

LEMMA DramReturnUnique ==
  ASSUME TypeOK, Unique(mshr), NEW a \in Addr, DramReturn(a)
  PROVE  Unique(mshr')
<1>1. PICK p \in dramRq : mshr' = ReturnData(mshr, Upper[Dram][p.port], a)
  BY DEF DramReturn
<1> QED
  BY <1>1, UpperType, ReturnDataUnique DEF TypeOK, MshrType, Packet

LEMMA CoreStepUnique ==
  ASSUME TypeOK, Unique(mshr), CoreStep
  PROVE  Unique(mshr')
<1> USE DEF TypeOK, MshrType
<1>1. ASSUME NEW s \in Slots, NEW d \in Demands, NEW word, Issue(s, d, word)
      PROVE  Unique(mshr')
  <2>1. [addr |-> d.addr, type |-> d.type, fl |-> FillLevel[d.cache],
         port |-> PortOf[d.cache], deps |-> {s}] \in Packet
    BY InputAssumption, HierarchyAssumption DEF Packet, Types, Levels
  <2> QED
    BY <1>1, <2>1, AddRqUnique, InputAssumption DEF Issue
<1>2. ASSUME NEW r \in Prefetches, NEW word, PrefetchLine(r.cache, r.addr, r.fl, word)
      PROVE  Unique(mshr')
  <2>1. [addr |-> r.addr, type |-> "PREFETCH", fl |-> r.fl,
         port |-> PortOf[r.cache], deps |-> {}] \in Packet
    BY InputAssumption, HierarchyAssumption DEF Packet, Types, Levels
  <2> QED
    BY <1>2, <2>1, AddPqUnique, InputAssumption DEF PrefetchLine
<1>3. ASSUME mshr' = mshr
      PROVE  Unique(mshr')
  BY <1>3
<1> QED
  BY <1>1, <1>2, <1>3 DEF CoreStep, CompleteFetch, Retire, RetireStore, RetireSlot

LEMMA UniqueNext == TypeOK /\ Unique(mshr) /\ [Next]_vars => Unique(mshr')
<1> SUFFICES ASSUME TypeOK, Unique(mshr), [Next]_vars PROVE Unique(mshr')
  OBVIOUS
<1>1. ASSUME NEW c \in Caches, CacheStep(c) PROVE Unique(mshr')
  BY <1>1, HandleFillUnique, HandleWritebackUnique, HandleReadUnique, HandlePrefetchUnique
     DEF CacheStep
<1>2. CASE CoreStep
  BY <1>2, CoreStepUnique
<1>3. CASE DramStep
  BY <1>3, DramReturnUnique DEF DramStep, DramWrite, WarmupComplete
<1>4. CASE UNCHANGED vars
  BY <1>4 DEF vars
<1> QED
  BY <1>1, <1>2, <1>3, <1>4 DEF Next

\* A block never has two MSHR entries in a cache, whatever mixture of demands,
\* RFOs, prefetches and merges reaches it: check_mshr finds every earlier miss.
THEOREM OneEntry == Spec => []OneEntryPerBlock
<1>1. Init => TypeOK /\ Unique(mshr)
  BY TypeInit DEF Init, Unique
<1>2. TypeOK /\ Unique(mshr) /\ [Next]_vars => (TypeOK /\ Unique(mshr))'
  BY TypeNext, UniqueNext DEF Unique
<1>3. Unique(mshr) => OneEntryPerBlock
  BY DEF Unique, OneEntryPerBlock
<1> QED
  BY <1>1, <1>2, <1>3, PTL DEF Spec
-----------------------------------------------------------------------------
(* Occupancies.  WithinCapacity alone is not inductive: Cardinality says    *)
(* nothing of a set that is not known to be finite, so the invariant also   *)
(* carries the finiteness of the MSHR files and of the DRAM queues.         *)

\* A set S of at most n elements, n being the SIZE of what it models.
Fits(S, n) == IsFiniteSet(S) /\ Cardinality(S) <= n

MshrFits(m) == \A c \in Caches : Fits(m[c], MshrSize[c])
QueueFits(q, size) == \A c \in Caches : Len(q[c]) <= size[c]

Capacity ==
  /\ MshrFits(mshr)
  /\ QueueFits(rq, RqSize) /\ QueueFits(wq, WqSize) /\ QueueFits(pq, PqSize)
  /\ Fits(dramRq, DramRqSize) /\ Fits(dramWq, DramWqSize)

\* The image of a set that fits does: a return changes entries in place.
LEMMA ImageFits ==
  ASSUME NEW S, NEW T, NEW f \in [S -> T], NEW n \in Nat, Fits(S, n),
         \A y \in T : \E x \in S : f[x] = y
  PROVE  Fits(T, n)
<1>1. IsFiniteSet(T) /\ Cardinality(T) <= Cardinality(S)
  <2>1. f \in Surjection(S, T)
    BY DEF Surjection
  <2> QED
    BY <2>1, FS_Surjection DEF Fits, ExistsSurjection
<1>2. Cardinality(S) \in Nat /\ Cardinality(T) \in Nat
  BY <1>1, FS_CardinalityType DEF Fits
<1> QED
  BY <1>1, <1>2 DEF Fits

\* A set below its size takes one more element.
LEMMA AddFits ==
  ASSUME NEW S, NEW x, NEW n \in Nat, Fits(S, n), Cardinality(S) # n
  PROVE  Fits(S \cup {x}, n)
<1>1. Cardinality(S) \in Nat /\ IsFiniteSet(S)
  BY FS_CardinalityType DEF Fits
<1>2. IsFiniteSet(S \cup {x}) /\ Cardinality(S \cup {x}) <= Cardinality(S) + 1
  BY <1>1, FS_AddElement
<1>3. Cardinality(S \cup {x}) \in Nat
  BY <1>2, FS_CardinalityType
<1> QED
  BY <1>1, <1>2, <1>3 DEF Fits

LEMMA RemoveFits ==
  ASSUME NEW S, NEW x, NEW n \in Nat, Fits(S, n)
  PROVE  Fits(S \ {x}, n)
<1>1. Cardinality(S) \in Nat /\ IsFiniteSet(S)
  BY FS_CardinalityType DEF Fits
<1>2. IsFiniteSet(S \ {x}) /\ Cardinality(S \ {x}) <= Cardinality(S)
  BY <1>1, FS_Subset
<1>3. Cardinality(S \ {x}) \in Nat
  BY <1>2, FS_CardinalityType
<1> QED
  BY <1>1, <1>2, <1>3 DEF Fits

\* Exchanging one element for another.
LEMMA ExchangeFits ==
  ASSUME NEW S, NEW x \in S, NEW y, NEW n \in Nat, Fits(S, n)
  PROVE  Fits((S \ {x}) \cup {y}, n)
<1>1. Cardinality(S) \in Nat /\ IsFiniteSet(S)
  BY FS_CardinalityType DEF Fits
<1>2. IsFiniteSet(S \ {x}) /\ Cardinality(S \ {x}) = Cardinality(S) - 1
  BY <1>1, FS_RemoveElement
<1>3. Fits(S \ {x}, n) /\ Cardinality(S \ {x}) # n
  BY <1>1, <1>2 DEF Fits
<1> QED
  BY <1>3, AddFits

\* What the calls between caches do to the occupancies.
LEMMA ReturnDataFits ==
  ASSUME NEW m \in MshrType, MshrFits(m), NEW u \in Caches, NEW a
  PROVE  MshrFits(ReturnData(m, u, a))
<1> DEFINE R(e) == IF e.addr = a THEN [e EXCEPT !.returned = TRUE] ELSE e
           T == {R(e) : e \in m[u]}
           f == [e \in m[u] |-> R(e)]
<1>1. Fits(m[u], MshrSize[u]) /\ MshrSize[u] \in Nat
  BY SizeAssumption DEF MshrFits
<1>2. f \in [m[u] -> T] /\ \A y \in T : \E x \in m[u] : f[x] = y
  <2> HIDE DEF R
  <2> QED
    OBVIOUS
<1>3. ReturnData(m, u, a)[u] = T
  BY DEF ReturnData, MshrType
<1>4. \A c \in Caches : c # u => ReturnData(m, u, a)[c] = m[c]
  BY DEF ReturnData, MshrType
<1> HIDE DEF f, T
<1>5. Fits(T, MshrSize[u])
  BY <1>1, <1>2, ImageFits
<1> QED
  BY <1>3, <1>4, <1>5 DEF MshrFits

LEMMA AnswerFits ==
  ASSUME NEW m \in MshrType, MshrFits(m), NEW c \in Caches, NEW p, p.port \in Ports
  PROVE  MshrFits(Answer(m, c, p))
BY UpperType, ReturnDataFits DEF Answer

\* A new entry is allocated only while the file is not full.
LEMMA AllocateFits ==
  ASSUME TypeOK, MshrFits(mshr), NEW c \in Caches, NEW e, ~MshrFull(c)
  PROVE  MshrFits([mshr EXCEPT ![c] = @ \cup {e}])
<1>1. MshrSize[c] \in Nat
  BY SizeAssumption
<1>2. Fits(mshr[c] \cup {e}, MshrSize[c])
  BY <1>1, AddFits DEF MshrFits, MshrFull
<1> QED
  BY <1>2 DEF MshrFits, TypeOK

LEMMA ReplaceFits ==
  ASSUME TypeOK, MshrFits(mshr), NEW c \in Caches, NEW e \in mshr[c], NEW f
  PROVE  MshrFits(Replace(c, e, f))
<1>1. MshrSize[c] \in Nat
  BY SizeAssumption
<1>2. Fits((mshr[c] \ {e}) \cup {f}, MshrSize[c])
  BY <1>1, ExchangeFits DEF MshrFits
<1> QED
  BY <1>2 DEF MshrFits, TypeOK, Replace

LEMMA PopFits ==
  ASSUME NEW q \in QueueType, NEW size \in [Caches -> Nat], QueueFits(q, size),
         NEW c \in Caches, q[c] # <<>>
  PROVE  QueueFits(Pop(q, c), size)
<1>1. Len(Tail(q[c])) = Len(q[c]) - 1 /\ Len(q[c]) \in Nat /\ size[c] \in Nat
  BY HeadTailProperties, LenProperties DEF QueueType
<1> QED
  BY <1>1 DEF Pop, QueueFits, QueueType

\* A packet is appended only where there is room.
LEMMA AppendFits ==
  ASSUME NEW q \in QueueType, NEW size \in [Caches -> Nat], QueueFits(q, size),
         NEW l \in Caches, NEW p \in Packet, Len(q[l]) # size[l]
  PROVE  QueueFits([q EXCEPT ![l] = Append(@, p)], size)
<1>1. q[l] \in Seq(Packet) /\ size[l] \in Nat /\ Len(q[l]) <= size[l]
  BY DEF QueueType, QueueFits
<1>2. Len(Append(q[l], p)) = Len(q[l]) + 1 /\ Len(q[l]) \in Nat
  BY <1>1, AppendProperties, LenProperties
<1>3. Len(Append(q[l], p)) <= size[l]
  BY <1>1, <1>2
<1> QED
  BY <1>3 DEF QueueFits, QueueType

LEMMA SameInterval ==
  ASSUME NEW i \in Nat, NEW j \in Nat, 1..i = 1..j
  PROVE  i = j
<1>1. i > 0 => i \in 1..j
  OBVIOUS
<1>2. j > 0 => j \in 1..i
  OBVIOUS
<1> QED
  BY <1>1, <1>2

\* A merge rewrites packets in place.
LEMMA InPlaceFits ==
  ASSUME NEW q \in QueueType, NEW size \in [Caches -> Nat], QueueFits(q, size),
         NEW l \in Caches, NEW s \in Seq(Packet), DOMAIN s = DOMAIN q[l]
  PROVE  QueueFits([q EXCEPT ![l] = s], size)
<1>1. Len(s) = Len(q[l])
  <2>1. q[l] \in Seq(Packet)
    BY DEF QueueType
  <2>2. /\ DOMAIN s = 1..Len(s) /\ Len(s) \in Nat
        /\ DOMAIN q[l] = 1..Len(q[l]) /\ Len(q[l]) \in Nat
    BY <2>1, LenProperties
  <2> QED
    BY <2>2, SameInterval
<1> QED
  BY <1>1 DEF QueueFits, QueueType

LEMMA AddRqFits ==
  ASSUME NEW m \in MshrType, MshrFits(m), NEW q \in QueueType, QueueFits(q, RqSize),
         NEW l \in Caches, NEW p \in Packet, NEW word, AddRq(m, q, l, p, word)
  PROVE  MshrFits(mshr') /\ QueueFits(rq', RqSize)
<1>1. MshrFits(Answer(m, l, p)) /\ RqSize \in [Caches -> Nat]
  BY AnswerFits, SizeAssumption DEF Packet
<1>2. QueueFits(MergeRead(q, l, p), RqSize)
  <2>1. JoinRead(q[l], p) \in Seq(Packet)
    BY JoinReadType DEF QueueType
  <2>2. DOMAIN JoinRead(q[l], p) = DOMAIN q[l]
    BY DEF JoinRead
  <2> QED
    BY <1>1, <2>1, <2>2, InPlaceFits DEF MergeRead
<1>3. Len(q[l]) # RqSize[l] => QueueFits([q EXCEPT ![l] = Append(@, p)], RqSize)
  BY <1>1, AppendFits
<1> QED
  BY <1>1, <1>2, <1>3 DEF AddRq

LEMMA AddPqFits ==
  ASSUME NEW m \in MshrType, MshrFits(m), NEW q \in QueueType, QueueFits(q, PqSize),
         NEW l \in Caches, NEW p \in Packet, NEW word, AddPq(m, q, l, p, word)
  PROVE  MshrFits(mshr') /\ QueueFits(pq', PqSize)
<1>1. MshrFits(Answer(m, l, p)) /\ PqSize \in [Caches -> Nat]
  BY AnswerFits, SizeAssumption DEF Packet
<1>2. QueueFits([q EXCEPT ![l] = JoinPrefetch(@, p)], PqSize)
  <2>1. JoinPrefetch(q[l], p) \in Seq(Packet)
    BY JoinPrefetchType DEF QueueType
  <2>2. DOMAIN JoinPrefetch(q[l], p) = DOMAIN q[l]
    BY DEF JoinPrefetch
  <2> QED
    BY <1>1, <2>1, <2>2, InPlaceFits
<1>3. Len(q[l]) # PqSize[l] => QueueFits([q EXCEPT ![l] = Append(@, p)], PqSize)
  BY <1>1, AppendFits
<1> QED
  BY <1>1, <1>2, <1>3 DEF AddPq

LEMMA DramAddRqFits ==
  ASSUME NEW m \in MshrType, MshrFits(m), Fits(dramRq, DramRqSize), NEW p \in Packet,
         DramAddRq(m, p)
  PROVE  MshrFits(mshr') /\ Fits(dramRq', DramRqSize)
<1>1. MshrFits(ReturnData(m, Upper[Dram][p.port], p.addr))
  BY UpperType, ReturnDataFits DEF Packet
<1>2. ~DramRqFull => Fits(dramRq \cup {Down(p)}, DramRqSize)
  BY AddFits, SizeAssumption DEF DramRqFull
<1> QED
  BY <1>1, <1>2 DEF DramAddRq

LEMMA AddWqFits ==
  ASSUME NEW q \in QueueType, QueueFits(q, WqSize), NEW l \in Caches, NEW p \in Packet,
         NEW word, Len(q[l]) # WqSize[l]
  PROVE  QueueFits(AddWq(q, l, p, word), WqSize)
BY AppendFits, SizeAssumption DEF AddWq

\* An eviction finds room below: EvictOk for the caller, and a write queue of
\* the level below that the caller has not touched.
LEMMA EvictFits ==
  ASSUME TypeOK, Capacity, NEW c \in Caches, NEW w \in Ways(c), NEW q \in QueueType,
         QueueFits(q, WqSize), NEW port \in Ports, EvictOk(c, w), Evict(c, w, q, port),
         \A d \in Caches : d # c => q[d] = wq[d]
  PROVE  QueueFits(wq', WqSize) /\ Fits(dramWq', DramWqSize)
<1>1. Fits(dramWq, DramWqSize)
  BY DEF Capacity
<1>2. CASE ~block[c][w].dirty \/ Lower[c] = NoLower
  BY <1>1, <1>2 DEF Evict
<1>3. CASE ~(~block[c][w].dirty \/ Lower[c] = NoLower)
  <2>1. ~LowerWqFull(c)
    BY <1>3 DEF EvictOk
  <2>2. CASE Lower[c] = Dram
    <3>1. Fits(dramWq \cup {block[c][w].addr}, DramWqSize)
      BY <1>1, <2>1, <2>2, AddFits, SizeAssumption DEF LowerWqFull
    <3> QED
      BY <1>1, <1>3, <2>2, <3>1 DEF Evict
  <2>3. CASE Lower[c] # Dram
    <3>1. Lower[c] \in Caches /\ Lower[c] # c
      BY <1>3, <2>3, HierarchyAssumption
    <3>2. Len(q[Lower[c]]) # WqSize[Lower[c]]
      BY <2>1, <2>3, <3>1 DEF LowerWqFull
    <3>3. WritebackPacket(c, block[c][w].addr, port) \in Packet
      <4>1. block[c] \in [Ways(c) -> Block]
        BY DEF TypeOK
      <4>2. block[c][w] \in Block /\ block[c][w] # EmptyBlock
        BY <1>3, <4>1 DEF EmptyBlock
      <4>3. FillLevel[c] \in {1, 2, 4}
        BY HierarchyAssumption
      <4>4. block[c][w].addr \in Addr
        BY <4>2 DEF Block
      <4>5. 2 * FillLevel[c] \in Levels
        BY <4>3 DEF Levels
      <4>6. <<port[1], FALSE>> \in Ports
        BY DEF Ports
      <4> QED
        BY <4>4, <4>5, <4>6 DEF WritebackPacket, Packet, Types
    <3>4. QueueFits(AddWq(q, Lower[c], WritebackPacket(c, block[c][w].addr, port), TRUE),
                    WqSize)
      BY <3>1, <3>2, <3>3, AddWqFits
    <3> QED
      BY <1>1, <1>3, <2>3, <3>4 DEF Evict
  <2> QED
    BY <2>2, <2>3
<1> QED
  BY <1>2, <1>3

LEMMA HandleFillFits ==
  ASSUME TypeOK, Capacity, NEW c \in Caches, NEW a \in Addr, HandleFill(c, a)
  PROVE  Capacity'
<1>1. PICK e \in mshr[c], w \in Victims(c) :
        /\ EvictOk(c, w)
        /\ Evict(c, w, wq, e.port)
        /\ mshr' = Answer([mshr EXCEPT ![c] = @ \ {e}], c, e)
        /\ UNCHANGED <<rq, pq, dramRq>>
  BY DEF HandleFill
<1>2. e.port \in Ports /\ w \in Ways(c)
  BY DEF TypeOK, Entry, Victims, InvalidWays
<1>3. [mshr EXCEPT ![c] = @ \ {e}] \in MshrType
      /\ MshrFits([mshr EXCEPT ![c] = @ \ {e}])
  <2>1. Fits(mshr[c] \ {e}, MshrSize[c])
    BY RemoveFits, SizeAssumption DEF Capacity, MshrFits
  <2> QED
    BY <2>1 DEF Capacity, MshrFits, MshrType, TypeOK
<1>4. MshrFits(mshr')
  BY <1>1, <1>2, <1>3, AnswerFits
<1>5. QueueFits(wq', WqSize) /\ Fits(dramWq', DramWqSize)
  BY <1>1, <1>2, EvictFits DEF Capacity, TypeOK, QueueType
<1> QED
  BY <1>1, <1>4, <1>5 DEF Capacity

LEMMA HandleWritebackFits ==
  ASSUME TypeOK, Capacity, NEW c \in Caches, HandleWriteback(c)
  PROVE  Capacity'
<1> DEFINE p == Head(wq[c])
<1>1. wq[c] # <<>> /\ UNCHANGED pq
      /\ (WriteHit(c, p) \/ RfoNewMiss(c, p) \/ RfoMerge(c, p) \/ WriteAllocate(c, p))
  BY DEF HandleWriteback
<1>2. p \in Packet /\ Pop(wq, c) \in QueueType
  BY <1>1, PopType DEF TypeOK, QueueType
<1>3. mshr \in MshrType /\ rq \in QueueType /\ wq \in QueueType
  BY DEF TypeOK, MshrType, QueueType
<1>4. QueueFits(Pop(wq, c), WqSize)
  BY <1>1, <1>3, PopFits, SizeAssumption DEF Capacity
<1> HIDE DEF p
<1>5. MshrFits(Answer(mshr, c, p))
  BY <1>2, <1>3, AnswerFits DEF Packet, Capacity
<1>6. CASE WriteHit(c, p)
  BY <1>1, <1>4, <1>5, <1>6 DEF WriteHit, Capacity, dramVars
<1>7. CASE RfoNewMiss(c, p)
  <2>1. Lower[c] \in Caches
    BY <1>7, HierarchyAssumption DEF RfoNewMiss
  <2>2. [mshr EXCEPT ![c] = @ \cup {NewEntry(p, FALSE)}] \in MshrType
        /\ MshrFits([mshr EXCEPT ![c] = @ \cup {NewEntry(p, FALSE)}])
    BY <1>2, <1>3, <1>7, AllocateType, AllocateFits DEF RfoNewMiss, Capacity
  <2>3. MshrFits(mshr') /\ QueueFits(rq', RqSize)
    BY <1>2, <1>3, <1>7, <2>1, <2>2, AddRqFits, DownType DEF RfoNewMiss, Capacity
  <2> QED
    BY <1>1, <1>4, <1>7, <2>3 DEF RfoNewMiss, Capacity, dramVars
<1>8. CASE RfoMerge(c, p)
  <2>1. PICK e \in mshr[c] :
          mshr' = Replace(c, e, IF e.type = "PREFETCH" THEN NewEntry(p, e.returned)
                                ELSE [e EXCEPT !.fl = MinOf(p.fl, @)])
    BY <1>8 DEF RfoMerge
  <2>2. MshrFits(mshr')
    BY <2>1, ReplaceFits DEF Capacity
  <2> QED
    BY <1>1, <1>4, <1>8, <2>2 DEF RfoMerge, Capacity, dramVars
<1>9. CASE WriteAllocate(c, p)
  <2>1. PICK w \in Victims(c) : EvictOk(c, w) /\ Evict(c, w, Pop(wq, c), p.port)
    BY <1>9 DEF WriteAllocate
  <2>2. w \in Ways(c) /\ p.port \in Ports
    BY <1>2 DEF Victims, InvalidWays, Packet
  <2>3. \A d \in Caches : d # c => Pop(wq, c)[d] = wq[d]
    BY <1>3 DEF Pop, QueueType
  <2>4. QueueFits(wq', WqSize) /\ Fits(dramWq', DramWqSize)
    BY <1>2, <1>4, <2>1, <2>2, <2>3, EvictFits
  <2> QED
    BY <1>1, <1>5, <1>9, <2>4 DEF WriteAllocate, Capacity
<1> QED
  BY <1>1, <1>6, <1>7, <1>8, <1>9

LEMMA HandleReadFits ==
  ASSUME TypeOK, Capacity, NEW c \in Caches, HandleRead(c)
  PROVE  Capacity'
<1> DEFINE p == Head(rq[c])
<1>1. rq[c] # <<>> /\ UNCHANGED <<wq, pq, dramWq>>
      /\ (ReadHit(c, p) \/ ReadNewMiss(c, p) \/ ReadMerge(c, p))
  BY DEF HandleRead
<1>2. p \in Packet /\ Pop(rq, c) \in QueueType
  BY <1>1, PopType DEF TypeOK, QueueType
<1>3. mshr \in MshrType /\ rq \in QueueType
  BY DEF TypeOK, MshrType, QueueType
<1>4. QueueFits(Pop(rq, c), RqSize)
  BY <1>1, <1>3, PopFits, SizeAssumption DEF Capacity
<1> HIDE DEF p
<1>5. MshrFits(mshr') /\ QueueFits(rq', RqSize) /\ Fits(dramRq', DramRqSize)
  <2>1. CASE ReadHit(c, p)
    BY <1>2, <1>3, <1>4, <2>1, AnswerFits DEF ReadHit, Packet, Capacity
  <2>2. CASE ReadNewMiss(c, p)
    <3>1. /\ [mshr EXCEPT ![c] = @ \cup {NewEntry(p, FALSE)}] \in MshrType
          /\ MshrFits([mshr EXCEPT ![c] = @ \cup {NewEntry(p, FALSE)}])
          /\ MshrFits([mshr EXCEPT ![c] = @ \cup {NewEntry(p, TRUE)}])
      BY <1>2, <1>3, <2>2, AllocateType, AllocateFits DEF ReadNewMiss, Capacity
    <3>2. CASE /\ Lower[c] \in Caches
               /\ AddRq([mshr EXCEPT ![c] = @ \cup {NewEntry(p, FALSE)}], Pop(rq, c),
                        Lower[c], Down(p), TRUE)
               /\ UNCHANGED dramRq
      BY <1>2, <1>4, <3>1, <3>2, AddRqFits, DownType DEF Capacity
    <3>3. CASE /\ DramAddRq([mshr EXCEPT ![c] = @ \cup {NewEntry(p, FALSE)}], p)
               /\ rq' = Pop(rq, c)
      BY <1>2, <1>4, <3>1, <3>3, DramAddRqFits DEF Capacity
    <3>4. CASE /\ mshr' = [mshr EXCEPT ![c] = @ \cup {NewEntry(p, TRUE)}]
               /\ rq' = Pop(rq, c)
               /\ UNCHANGED dramRq
      BY <1>4, <3>1, <3>4 DEF Capacity
    <3> QED
      BY <2>2, <3>2, <3>3, <3>4 DEF ReadNewMiss
  <2>3. CASE ReadMerge(c, p)
    <3>1. PICK e \in mshr[c] : mshr' = Replace(c, e, MergeDemand(e, p))
      BY <2>3 DEF ReadMerge
    <3> QED
      BY <1>4, <2>3, <3>1, ReplaceFits DEF ReadMerge, Capacity
  <2> QED
    BY <1>1, <2>1, <2>2, <2>3
<1> QED
  BY <1>1, <1>5 DEF Capacity

LEMMA HandlePrefetchFits ==
  ASSUME TypeOK, Capacity, NEW c \in Caches, HandlePrefetch(c)
  PROVE  Capacity'
<1> DEFINE p == Head(pq[c])
<1>1. pq[c] # <<>> /\ UNCHANGED <<rq, wq, dramWq>>
      /\ (PrefetchHit(c, p) \/ PrefetchNewMiss(c, p) \/ PrefetchMerge(c, p))
  BY DEF HandlePrefetch
<1>2. p \in Packet /\ Pop(pq, c) \in QueueType
  BY <1>1, PopType DEF TypeOK, QueueType
<1>3. mshr \in MshrType /\ pq \in QueueType
  BY DEF TypeOK, MshrType, QueueType
<1>4. QueueFits(Pop(pq, c), PqSize)
  BY <1>1, <1>3, PopFits, SizeAssumption DEF Capacity
<1> HIDE DEF p
<1>5. MshrFits(mshr') /\ QueueFits(pq', PqSize) /\ Fits(dramRq', DramRqSize)
  <2>1. CASE PrefetchHit(c, p)
    BY <1>2, <1>3, <1>4, <2>1, AnswerFits DEF PrefetchHit, Packet, Capacity
  <2>2. CASE PrefetchNewMiss(c, p)
    <3> DEFINE m == IF TakesMshr(c, p)
                    THEN [mshr EXCEPT ![c] = @ \cup {NewEntry(p, FALSE)}] ELSE mshr
    <3>1. m \in MshrType /\ MshrFits(m)
      BY <1>2, <1>3, <2>2, AllocateType, AllocateFits DEF PrefetchNewMiss, Capacity
    <3>2. \/ /\ Lower[c] \in Caches
             /\ AddPq(m, Pop(pq, c), Lower[c], p, TRUE)
             /\ UNCHANGED dramRq
          \/ DramAddRq(m, p) /\ pq' = Pop(pq, c)
      BY <2>2 DEF PrefetchNewMiss
    <3> HIDE DEF m
    <3> QED
      BY <1>2, <1>4, <3>1, <3>2, AddPqFits, DramAddRqFits DEF Capacity
  <2>3. CASE PrefetchMerge(c, p)
    <3>1. PICK e \in mshr[c] : mshr' = Replace(c, e, [e EXCEPT !.fl = MinOf(p.fl, @)])
      BY <2>3 DEF PrefetchMerge
    <3> QED
      BY <1>4, <2>3, <3>1, ReplaceFits DEF PrefetchMerge, Capacity
  <2> QED
    BY <1>1, <2>1, <2>2, <2>3
<1> QED
  BY <1>1, <1>5 DEF Capacity

LEMMA CoreStepFits ==
  ASSUME TypeOK, Capacity, CoreStep
  PROVE  Capacity'
<1>1. mshr \in MshrType /\ rq \in QueueType /\ wq \in QueueType /\ pq \in QueueType
  BY DEF TypeOK, MshrType, QueueType
<1>2. ASSUME NEW s \in Slots, NEW d \in Demands, NEW word, Issue(s, d, word)
      PROVE  Capacity'
  <2>1. [addr |-> d.addr, type |-> d.type, fl |-> FillLevel[d.cache],
         port |-> PortOf[d.cache], deps |-> {s}] \in Packet
    BY InputAssumption, HierarchyAssumption DEF Packet, Types, Levels
  <2>2. MshrFits(mshr') /\ QueueFits(rq', RqSize)
    BY <1>1, <1>2, <2>1, AddRqFits, InputAssumption DEF Issue, Capacity
  <2> QED
    BY <1>2, <2>2 DEF Issue, Capacity, dramVars
<1>3. ASSUME NEW c \in Caches, CompleteFetch(c)
      PROVE  Capacity'
  BY <1>3 DEF CompleteFetch, Capacity, dramVars
<1>4. ASSUME NEW cpu \in Cpus, Retire(cpu)
      PROVE  Capacity'
  BY <1>4 DEF Retire, RetireSlot, Capacity, dramVars
<1>5. ASSUME NEW cpu \in Cpus, NEW st \in Stores, NEW word, RetireStore(cpu, st, word)
      PROVE  Capacity'
  <2> DEFINE p == [addr |-> st.addr, type |-> "RFO", fl |-> FillLevel[st.cache],
                   port |-> PortOf[st.cache], deps |-> {}]
  <2>1. st.cache \in Caches /\ p \in Packet
    BY InputAssumption, HierarchyAssumption DEF Packet, Types, Levels
  <2>2. Len(wq[st.cache]) # WqSize[st.cache]
    <3>1. Len(wq[st.cache]) \in Nat /\ WqSize[st.cache] \in Nat
      BY <1>1, <2>1, LenProperties, SizeAssumption DEF QueueType
    <3> QED
      BY <1>5, <3>1 DEF RetireStore
  <2>3. wq' = AddWq(wq, st.cache, p, word)
    BY <1>5 DEF RetireStore
  <2> HIDE DEF p
  <2>4. QueueFits(wq', WqSize)
    BY <1>1, <2>1, <2>2, <2>3, AddWqFits DEF Capacity
  <2> QED
    BY <1>5, <2>4 DEF RetireStore, RetireSlot, Capacity, dramVars
<1>6. ASSUME NEW r \in Prefetches, NEW word, PrefetchLine(r.cache, r.addr, r.fl, word)
      PROVE  Capacity'
  <2>1. [addr |-> r.addr, type |-> "PREFETCH", fl |-> r.fl,
         port |-> PortOf[r.cache], deps |-> {}] \in Packet
    BY InputAssumption, HierarchyAssumption DEF Packet, Types, Levels
  <2>2. MshrFits(mshr') /\ QueueFits(pq', PqSize)
    BY <1>1, <1>6, <2>1, AddPqFits, InputAssumption DEF PrefetchLine, Capacity
  <2> QED
    BY <1>6, <2>2 DEF PrefetchLine, Capacity, dramVars
<1> QED
  BY <1>2, <1>3, <1>4, <1>5, <1>6 DEF CoreStep

LEMMA DramStepFits ==
  ASSUME TypeOK, Capacity, DramStep
  PROVE  Capacity'
<1>1. ASSUME NEW a \in Addr, DramReturn(a) PROVE Capacity'
  <2>1. PICK p \in dramRq : /\ mshr' = ReturnData(mshr, Upper[Dram][p.port], a)
                            /\ dramRq' = dramRq \ {p}
    BY <1>1 DEF DramReturn
  <2>2. MshrFits(mshr')
    BY <2>1, UpperType, ReturnDataFits DEF Capacity, TypeOK, MshrType, Packet
  <2>3. Fits(dramRq', DramRqSize)
    BY <2>1, RemoveFits, SizeAssumption DEF Capacity
  <2> QED
    BY <1>1, <2>2, <2>3 DEF DramReturn, Capacity
<1>2. ASSUME NEW a \in Addr, DramWrite(a) PROVE Capacity'
  <2>1. Fits(dramWq', DramWqSize)
    BY <1>2, RemoveFits, SizeAssumption DEF DramWrite, Capacity
  <2> QED
    BY <1>2, <2>1 DEF DramWrite, Capacity
<1>3. CASE WarmupComplete
  BY <1>3 DEF WarmupComplete, Capacity, dramVars
<1> QED
  BY <1>1, <1>2, <1>3 DEF DramStep

LEMMA CapacityInit == Init => Capacity
<1>1. Cardinality({}) = 0 /\ IsFiniteSet({})
  BY FS_EmptySet
<1>2. \A n \in Nat : Fits({}, n)
  BY <1>1 DEF Fits
<1>3. Len(<<>>) = 0
  OBVIOUS
<1> QED
  BY <1>2, <1>3, SizeAssumption DEF Init, Capacity, MshrFits, QueueFits

LEMMA CapacityNext == TypeOK /\ Capacity /\ [Next]_vars => Capacity'
<1> SUFFICES ASSUME TypeOK, Capacity, [Next]_vars PROVE Capacity'
  OBVIOUS
<1>1. ASSUME NEW c \in Caches, CacheStep(c) PROVE Capacity'
  BY <1>1, HandleFillFits, HandleWritebackFits, HandleReadFits, HandlePrefetchFits
     DEF CacheStep
<1>2. CASE UNCHANGED vars
  BY <1>2 DEF vars, Capacity
<1> QED
  BY <1>1, <1>2, CoreStepFits, DramStepFits DEF Next

\* No queue, MSHR file or DRAM queue overflows, for every hierarchy and every
\* choice of sizes: the tests of occupancy that the callers of add_rq, add_wq,
\* add_pq and add_mshr make are enough, also where one handler calls another.
THEOREM CapacityCorrect == Spec => []WithinCapacity
<1>1. Init => TypeOK /\ Capacity
  BY TypeInit, CapacityInit
<1>2. TypeOK /\ Capacity /\ [Next]_vars => (TypeOK /\ Capacity)'
  BY TypeNext, CapacityNext
<1>3. Capacity => WithinCapacity
  BY DEF Capacity, MshrFits, QueueFits, Fits, WithinCapacity
<1> QED
  BY <1>1, <1>2, <1>3, PTL DEF Spec
-----------------------------------------------------------------------------
(* Wake-ups.  A waiting instruction is in one place: a packet of a read    *)
(* queue, an MSHR entry or an element of PROCESSED, of one cache.  The     *)
(* invariant says so with a function F from slots to places; a handler     *)
(* moves the instructions of one packet or entry to another place.         *)

Nowhere == <<NoLower, "nowhere">>
Places == (Caches \X {"rq", "mshr", "processed"}) \cup {Nowhere}

Moved(F, D, x) == [s \in Slots |-> IF s \in D THEN x ELSE F[s]]

\* The packets s of a read queue wake exactly the instructions that F has in
\* place x, each once; check_queue keeps their blocks distinct.
PacketsAt(s, x, F) ==
  /\ \A t \in Slots : (\E i \in DOMAIN s : t \in s[i].deps) <=> F[t] = x
  /\ \A i, j \in DOMAIN s : s[i].addr = s[j].addr => i = j
  /\ \A i, j \in DOMAIN s, t \in Slots : t \in s[i].deps /\ t \in s[j].deps => i = j

EntriesAt(S, x, F) ==
  /\ \A t \in Slots : (\E e \in S : t \in e.deps) <=> F[t] = x
  /\ \A e, f \in S, t \in Slots : t \in e.deps /\ t \in f.deps => e = f

WokenAt(z, x, F) ==
  /\ \A t \in Slots : (\E i \in DOMAIN z : t \in z[i]) <=> F[t] = x
  /\ \A i, j \in DOMAIN z, t \in Slots : t \in z[i] /\ t \in z[j] => i = j

RqAt(q, F) == \A c \in Caches : PacketsAt(q[c], <<c, "rq">>, F)
MshrAt(m, F) == \A c \in Caches : EntriesAt(m[c], <<c, "mshr">>, F)
ProcessedAt(z, F) == \A c \in Caches : WokenAt(z[c], <<c, "processed">>, F)
RobAt(w, F) == \A t \in Slots : w[t] = "waiting" <=> F[t] # Nowhere

Located(q, m, z, w, F) ==
  /\ F \in [Slots -> Places]
  /\ RqAt(q, F) /\ MshrAt(m, F) /\ ProcessedAt(z, F) /\ RobAt(w, F)

LEMMA MovedType ==
  ASSUME NEW F \in [Slots -> Places], NEW D, NEW x \in Places
  PROVE  Moved(F, D, x) \in [Slots -> Places]
BY DEF Moved

LEMMA MovedNothing ==
  ASSUME NEW F \in [Slots -> Places], NEW x
  PROVE  Moved(F, {}, x) = F
BY DEF Moved

-----------------------------------------------------------------------------
(* One read queue, one MSHR file, one PROCESSED queue.                     *)

\* What happens elsewhere does not matter.
LEMMA PacketsElsewhere ==
  ASSUME NEW s, NEW x, NEW y, NEW F, NEW D, PacketsAt(s, x, F),
         y # x, \A t \in D : F[t] # x
  PROVE  PacketsAt(s, x, Moved(F, D, y))
BY DEF PacketsAt, Moved

LEMMA EntriesElsewhere ==
  ASSUME NEW S, NEW x, NEW y, NEW F, NEW D, EntriesAt(S, x, F),
         y # x, \A t \in D : F[t] # x
  PROVE  EntriesAt(S, x, Moved(F, D, y))
BY DEF EntriesAt, Moved

LEMMA WokenElsewhere ==
  ASSUME NEW z, NEW x, NEW y, NEW F, NEW D, WokenAt(z, x, F),
         y # x, \A t \in D : F[t] # x
  PROVE  WokenAt(z, x, Moved(F, D, y))
BY DEF WokenAt, Moved

\* The instructions of the head of a queue are in its place.
LEMMA HeadAt ==
  ASSUME NEW s \in Seq(Packet), s # <<>>, NEW x, NEW F, PacketsAt(s, x, F),
         NEW t \in Slots, t \in Head(s).deps
  PROVE  F[t] = x
<1>1. Head(s) = s[1] /\ 1 \in DOMAIN s
  BY HeadTailProperties, LenProperties
<1> QED
  BY <1>1 DEF PacketsAt

LEMMA WokenHeadAt ==
  ASSUME NEW z \in Seq(SUBSET Slots), z # <<>>, NEW x, NEW F, WokenAt(z, x, F),
         NEW t \in Slots, t \in Head(z)
  PROVE  F[t] = x
<1>1. Head(z) = z[1] /\ 1 \in DOMAIN z
  BY HeadTailProperties, LenProperties
<1> QED
  BY <1>1 DEF WokenAt

\* The head of a queue leaves: the packet's instructions go to y.
LEMMA TailAt ==
  ASSUME NEW s \in Seq(Packet), s # <<>>, NEW x, NEW y, y # x, NEW F, PacketsAt(s, x, F)
  PROVE  PacketsAt(Tail(s), x, Moved(F, Head(s).deps, y))
<1>1. /\ Tail(s) \in Seq(Packet) /\ Len(Tail(s)) = Len(s) - 1 /\ Len(s) \in Nat \ {0}
      /\ \A i \in 1..Len(Tail(s)) : Tail(s)[i] = s[i + 1]
      /\ Head(s) = s[1]
  BY HeadTailProperties, LenProperties
<1>2. DOMAIN Tail(s) = 1..Len(Tail(s)) /\ DOMAIN s = 1..Len(s)
  BY <1>1, LenProperties
<1>3. \A i \in DOMAIN Tail(s) : i + 1 \in DOMAIN s /\ i + 1 # 1 /\ Tail(s)[i] = s[i + 1]
  BY <1>1, <1>2
<1>4. /\ 1 \in DOMAIN s
      /\ \A j \in DOMAIN s : j # 1 => j - 1 \in DOMAIN Tail(s) /\ Tail(s)[j - 1] = s[j]
  BY <1>1, <1>2
<1>5. \A i, j \in DOMAIN Tail(s) : i + 1 = j + 1 => i = j
  BY <1>2
<1>6. \A t \in Slots : (\E i \in DOMAIN Tail(s) : t \in Tail(s)[i].deps) <=>
                       (F[t] = x /\ t \notin s[1].deps)
  <2>1. \A t \in Slots : F[t] = x <=> \E i \in DOMAIN s : t \in s[i].deps
    BY DEF PacketsAt
  <2>2. \A i \in DOMAIN s, t \in Slots : i # 1 /\ t \in s[i].deps => t \notin s[1].deps
    BY <1>4 DEF PacketsAt
  <2>3. ASSUME NEW t \in Slots, NEW i \in DOMAIN Tail(s), t \in Tail(s)[i].deps
        PROVE  F[t] = x /\ t \notin s[1].deps
    BY <1>3, <2>1, <2>2, <2>3
  <2>4. ASSUME NEW t \in Slots, F[t] = x, t \notin s[1].deps
        PROVE  \E i \in DOMAIN Tail(s) : t \in Tail(s)[i].deps
    <3>1. PICK j \in DOMAIN s : t \in s[j].deps
      BY <2>1, <2>4
    <3>2. j - 1 \in DOMAIN Tail(s) /\ Tail(s)[j - 1] = s[j]
      BY <1>4, <2>4, <3>1
    <3> QED
      BY <3>1, <3>2
  <2> QED
    BY <2>3, <2>4
<1>7. \A i, j \in DOMAIN Tail(s) : Tail(s)[i].addr = Tail(s)[j].addr => i = j
  BY <1>3, <1>5 DEF PacketsAt
<1>8. \A i, j \in DOMAIN Tail(s), t \in Slots :
        t \in Tail(s)[i].deps /\ t \in Tail(s)[j].deps => i = j
  BY <1>3, <1>5 DEF PacketsAt
<1> QED
  BY <1>1, <1>6, <1>7, <1>8 DEF PacketsAt, Moved

LEMMA WokenTailAt ==
  ASSUME NEW z \in Seq(SUBSET Slots), z # <<>>, NEW x, NEW y, y # x, NEW F, WokenAt(z, x, F)
  PROVE  WokenAt(Tail(z), x, Moved(F, Head(z), y))
<1>1. /\ Tail(z) \in Seq(SUBSET Slots) /\ Len(Tail(z)) = Len(z) - 1 /\ Len(z) \in Nat \ {0}
      /\ \A i \in 1..Len(Tail(z)) : Tail(z)[i] = z[i + 1]
      /\ Head(z) = z[1]
  BY HeadTailProperties, LenProperties
<1>2. DOMAIN Tail(z) = 1..Len(Tail(z)) /\ DOMAIN z = 1..Len(z)
  BY <1>1, LenProperties
<1>3. \A i \in DOMAIN Tail(z) : i + 1 \in DOMAIN z /\ i + 1 # 1 /\ Tail(z)[i] = z[i + 1]
  BY <1>1, <1>2
<1>4. /\ 1 \in DOMAIN z
      /\ \A j \in DOMAIN z : j # 1 => j - 1 \in DOMAIN Tail(z) /\ Tail(z)[j - 1] = z[j]
  BY <1>1, <1>2
<1>5. \A i, j \in DOMAIN Tail(z) : i + 1 = j + 1 => i = j
  BY <1>2
<1>6. \A t \in Slots : (\E i \in DOMAIN Tail(z) : t \in Tail(z)[i]) <=>
                       (F[t] = x /\ t \notin z[1])
  BY <1>3, <1>4 DEF WokenAt
<1>7. \A i, j \in DOMAIN Tail(z), t \in Slots : t \in Tail(z)[i] /\ t \in Tail(z)[j] => i = j
  BY <1>3, <1>5 DEF WokenAt
<1> QED
  BY <1>1, <1>6, <1>7 DEF WokenAt, Moved

\* A packet or an element is appended: its instructions come to x.
LEMMA AppendAt ==
  ASSUME NEW s \in Seq(Packet), NEW p \in Packet, ~Queued(s, p.addr), NEW x, NEW F,
         PacketsAt(s, x, F), \A t \in p.deps : F[t] # x
  PROVE  PacketsAt(Append(s, p), x, Moved(F, p.deps, x))
<1> DEFINE n == Len(s) + 1
           r == Append(s, p)
<1>1. n \in Nat /\ DOMAIN s = 1..(n - 1)
  BY LenProperties
<1>2. /\ r \in Seq(Packet) /\ Len(r) = n /\ r[n] = p
      /\ \A i \in 1..(n - 1) : r[i] = s[i]
  BY AppendProperties
<1>3. DOMAIN r = 1..n
  BY <1>2, LenProperties
<1> HIDE DEF n, r
<1>4. n >= 1
  BY LenProperties DEF n
<1>5. /\ n \in DOMAIN r /\ n \notin DOMAIN s
      /\ \A i \in DOMAIN r : i \in DOMAIN s \/ i = n
      /\ \A i \in DOMAIN s : i \in DOMAIN r /\ r[i] = s[i]
  BY <1>1, <1>2, <1>3, <1>4
<1>6. \A i \in DOMAIN s : s[i].addr # p.addr
  BY DEF Queued
<1>7. \A i \in DOMAIN s, t \in Slots : t \in s[i].deps => t \notin p.deps
  BY DEF PacketsAt
<1>8. \A i, j \in DOMAIN r : r[i].addr = r[j].addr => i = j
  BY <1>2, <1>5, <1>6 DEF PacketsAt
<1>9. \A i, j \in DOMAIN r, t \in Slots : t \in r[i].deps /\ t \in r[j].deps => i = j
  BY <1>2, <1>5, <1>7 DEF PacketsAt
<1>10. \A t \in Slots : (\E i \in DOMAIN r : t \in r[i].deps) <=> (t \in p.deps \/ F[t] = x)
  BY <1>2, <1>5 DEF PacketsAt
<1>11. PacketsAt(r, x, Moved(F, p.deps, x))
  BY <1>8, <1>9, <1>10 DEF PacketsAt, Moved
<1> QED
  BY <1>11 DEF r

LEMMA WokenAppendAt ==
  ASSUME NEW z \in Seq(SUBSET Slots), NEW D \in SUBSET Slots, NEW x, NEW F,
         WokenAt(z, x, F), \A t \in D : F[t] # x
  PROVE  WokenAt(Append(z, D), x, Moved(F, D, x))
<1> DEFINE n == Len(z) + 1
           r == Append(z, D)
<1>1. n \in Nat /\ DOMAIN z = 1..(n - 1)
  BY LenProperties
<1>2. /\ r \in Seq(SUBSET Slots) /\ Len(r) = n /\ r[n] = D
      /\ \A i \in 1..(n - 1) : r[i] = z[i]
  BY AppendProperties
<1>3. DOMAIN r = 1..n
  BY <1>2, LenProperties
<1> HIDE DEF n, r
<1>4. n >= 1
  BY LenProperties DEF n
<1>5. /\ n \in DOMAIN r /\ n \notin DOMAIN z
      /\ \A i \in DOMAIN r : i \in DOMAIN z \/ i = n
      /\ \A i \in DOMAIN z : i \in DOMAIN r /\ r[i] = z[i]
  BY <1>1, <1>2, <1>3, <1>4
<1>6. \A i \in DOMAIN z, t \in Slots : t \in z[i] => t \notin D
  BY DEF WokenAt
<1>7. \A i, j \in DOMAIN r, t \in Slots : t \in r[i] /\ t \in r[j] => i = j
  BY <1>2, <1>5, <1>6 DEF WokenAt
<1>8. \A t \in Slots : (\E i \in DOMAIN r : t \in r[i]) <=> (t \in D \/ F[t] = x)
  BY <1>2, <1>5 DEF WokenAt
<1>9. WokenAt(r, x, Moved(F, D, x))
  BY <1>7, <1>8 DEF WokenAt, Moved
<1> QED
  BY <1>9 DEF r

\* A duplicate read joins the packet of its block.
LEMMA JoinAt ==
  ASSUME NEW s \in Seq(Packet), NEW p \in Packet, Queued(s, p.addr), NEW x, NEW F,
         PacketsAt(s, x, F), \A t \in p.deps : F[t] # x
  PROVE  PacketsAt(JoinRead(s, p), x, Moved(F, p.deps, x))
<1> DEFINE r == JoinRead(s, p)
<1>1. PICK k \in DOMAIN s : s[k].addr = p.addr
  BY DEF Queued
<1>2. \A i \in DOMAIN s : s[i] \in Packet
  BY ElementOfSeq, LenProperties
<1>3. DOMAIN r = DOMAIN s
  BY DEF JoinRead
<1>4. /\ \A i \in DOMAIN s : i # k => r[i] = s[i]
      /\ r[k].addr = s[k].addr /\ r[k].deps = s[k].deps \cup p.deps
  BY <1>1, <1>2 DEF JoinRead, PacketsAt, Packet
<1> HIDE DEF r
<1>5. \A i \in DOMAIN s, t \in Slots : t \in s[i].deps => t \notin p.deps
  BY DEF PacketsAt
<1>6. \A i, j \in DOMAIN r : r[i].addr = r[j].addr => i = j
  BY <1>3, <1>4 DEF PacketsAt
<1>7. \A i, j \in DOMAIN r, t \in Slots : t \in r[i].deps /\ t \in r[j].deps => i = j
  BY <1>3, <1>4, <1>5 DEF PacketsAt
<1>8. \A t \in Slots : (\E i \in DOMAIN r : t \in r[i].deps) <=> (t \in p.deps \/ F[t] = x)
  <2>1. \A t \in Slots : (\E i \in DOMAIN r : t \in r[i].deps) <=>
                         (t \in p.deps \/ \E i \in DOMAIN s : t \in s[i].deps)
    BY <1>3, <1>4
  <2> QED
    BY <2>1 DEF PacketsAt
<1>9. PacketsAt(r, x, Moved(F, p.deps, x))
  BY <1>6, <1>7, <1>8 DEF PacketsAt, Moved
<1> QED
  BY <1>9 DEF r

\* An entry is added, for instructions that were not in the file.
LEMMA EntryAdded ==
  ASSUME NEW S, NEW e, NEW x, NEW F, EntriesAt(S, x, F), \A t \in e.deps : F[t] # x
  PROVE  EntriesAt(S \cup {e}, x, Moved(F, e.deps, x))
BY DEF EntriesAt, Moved

\* An entry is exchanged for one that wakes the instructions D as well.
LEMMA EntryExchanged ==
  ASSUME NEW S, NEW e \in S, NEW f, NEW D, f.deps = e.deps \cup D, NEW x, NEW F,
         EntriesAt(S, x, F), \A t \in D : F[t] # x
  PROVE  EntriesAt((S \ {e}) \cup {f}, x, Moved(F, D, x))
<1>1. \A t \in Slots : (\E g \in (S \ {e}) \cup {f} : t \in g.deps) <=>
                       (t \in D \/ \E g \in S : t \in g.deps)
  OBVIOUS
<1>2. \A g \in S, t \in Slots : t \in g.deps => t \notin D
  BY DEF EntriesAt
<1>3. \A g \in S \ {e}, t \in Slots : t \in g.deps => t \notin f.deps
  BY <1>2 DEF EntriesAt
<1>4. \A g, h \in (S \ {e}) \cup {f}, t \in Slots : t \in g.deps /\ t \in h.deps => g = h
  BY <1>3 DEF EntriesAt
<1> QED
  BY <1>1, <1>4 DEF EntriesAt, Moved

\* An entry is freed: its instructions go to y.
LEMMA EntryFreed ==
  ASSUME NEW S, NEW e \in S, NEW x, NEW y, y # x, NEW F, EntriesAt(S, x, F)
  PROVE  EntriesAt(S \ {e}, x, Moved(F, e.deps, y))
BY DEF EntriesAt, Moved

\* return_data marks entries and wakes nobody.
LEMMA EntriesReturned ==
  ASSUME NEW S \in SUBSET Entry, NEW a, NEW x, NEW F, EntriesAt(S, x, F)
  PROVE  EntriesAt({IF e.addr = a THEN [e EXCEPT !.returned = TRUE] ELSE e : e \in S}, x, F)
<1> DEFINE R(e) == IF e.addr = a THEN [e EXCEPT !.returned = TRUE] ELSE e
           T == {R(e) : e \in S}
<1>1. \A e \in S : R(e).deps = e.deps
  BY DEF Entry
<1>2. /\ \A e \in S : R(e) \in T
      /\ \A g \in T : \E e \in S : g = R(e)
  OBVIOUS
<1> HIDE DEF R, T
<1>3. \A t \in Slots : (\E g \in T : t \in g.deps) <=> F[t] = x
  BY <1>1, <1>2 DEF EntriesAt
<1>4. \A g, h \in T, t \in Slots : t \in g.deps /\ t \in h.deps => g = h
  BY <1>1, <1>2 DEF EntriesAt
<1>5. EntriesAt(T, x, F)
  BY <1>3, <1>4 DEF EntriesAt
<1> QED
  BY <1>5 DEF T, R
-----------------------------------------------------------------------------
(* All caches, and the calls between them.                                 *)

\* The instructions D are in no container of kind k.
NotIn(F, D, k) == \A t \in D, c \in Caches : F[t] # <<c, k>>

\* The core drains PROCESSED, so that a completion finds room.
ProcessedHasRoom == \A c \in Caches : Len(processed[c]) < ProcessedSize

LEMMA RqElsewhere ==
  ASSUME NEW q, NEW F, NEW D, NEW y, RqAt(q, F), NotIn(F, D, "rq"),
         \A c \in Caches : y # <<c, "rq">>
  PROVE  RqAt(q, Moved(F, D, y))
BY PacketsElsewhere DEF RqAt, NotIn

LEMMA MshrElsewhereAt ==
  ASSUME NEW m, NEW F, NEW D, NEW y, MshrAt(m, F), NotIn(F, D, "mshr"),
         \A c \in Caches : y # <<c, "mshr">>
  PROVE  MshrAt(m, Moved(F, D, y))
BY EntriesElsewhere DEF MshrAt, NotIn

LEMMA ProcessedElsewhere ==
  ASSUME NEW z, NEW F, NEW D, NEW y, ProcessedAt(z, F), NotIn(F, D, "processed"),
         \A c \in Caches : y # <<c, "processed">>
  PROVE  ProcessedAt(z, Moved(F, D, y))
BY WokenElsewhere DEF ProcessedAt, NotIn

\* Instructions that wait go on waiting.
LEMMA RobMoves ==
  ASSUME NEW w, NEW F, NEW D, NEW y, RobAt(w, F), y # Nowhere, \A t \in D : F[t] # Nowhere
  PROVE  RobAt(w, Moved(F, D, y))
BY DEF RobAt, Moved

LEMMA RqPopAt ==
  ASSUME NEW q \in QueueType, NEW c \in Caches, q[c] # <<>>, NEW F, RqAt(q, F),
         NEW y, \A d \in Caches : y # <<d, "rq">>
  PROVE  /\ RqAt(Pop(q, c), Moved(F, Head(q[c]).deps, y))
         /\ \A t \in Head(q[c]).deps : F[t] = <<c, "rq">>
<1> DEFINE D == Head(q[c]).deps
<1>1. q[c] \in Seq(Packet) /\ Head(q[c]) \in Packet
  BY PopType DEF QueueType
<1>2. PacketsAt(q[c], <<c, "rq">>, F) /\ y # <<c, "rq">>
  BY DEF RqAt
<1>3. PacketsAt(Tail(q[c]), <<c, "rq">>, Moved(F, D, y))
  BY <1>1, <1>2, TailAt
<1>4. D \in SUBSET Slots
  BY <1>1 DEF Packet
<1>5. \A t \in D : F[t] = <<c, "rq">>
  <2>1. \A t \in Slots : t \in D => F[t] = <<c, "rq">>
    BY <1>1, <1>2, HeadAt
  <2> QED
    BY <1>4, <2>1
<1>6. ASSUME NEW d \in Caches, d # c
      PROVE  PacketsAt(q[d], <<d, "rq">>, Moved(F, D, y))
  <2>1. \A t \in D : F[t] # <<d, "rq">>
    BY <1>5, <1>6
  <2> HIDE DEF D
  <2> QED
    BY <2>1, PacketsElsewhere DEF RqAt
<1>7. /\ Pop(q, c)[c] = Tail(q[c])
      /\ \A d \in Caches : d # c => Pop(q, c)[d] = q[d]
  BY DEF Pop, QueueType
<1> HIDE DEF D
<1>8. RqAt(Pop(q, c), Moved(F, D, y))
  BY <1>3, <1>6, <1>7 DEF RqAt
<1> QED
  BY <1>5, <1>8 DEF D

\* The calls of add_rq between caches carry no wake-ups; the core's do.
LEMMA RqAppendAt ==
  ASSUME NEW q \in QueueType, NEW l \in Caches, NEW p \in Packet, ~Queued(q[l], p.addr),
         NEW F, RqAt(q, F), NotIn(F, p.deps, "rq")
  PROVE  RqAt([q EXCEPT ![l] = Append(@, p)], Moved(F, p.deps, <<l, "rq">>))
<1> DEFINE r == [q EXCEPT ![l] = Append(@, p)]
<1>1. q[l] \in Seq(Packet)
  BY DEF QueueType
<1>2. PacketsAt(Append(q[l], p), <<l, "rq">>, Moved(F, p.deps, <<l, "rq">>))
  BY <1>1, AppendAt DEF RqAt, NotIn
<1>3. ASSUME NEW d \in Caches, d # l
      PROVE  PacketsAt(q[d], <<d, "rq">>, Moved(F, p.deps, <<l, "rq">>))
  BY <1>3, PacketsElsewhere DEF RqAt, NotIn
<1>4. r[l] = Append(q[l], p) /\ \A d \in Caches : d # l => r[d] = q[d]
  BY DEF QueueType
<1> HIDE DEF r
<1>5. RqAt(r, Moved(F, p.deps, <<l, "rq">>))
  BY <1>2, <1>3, <1>4 DEF RqAt
<1> QED
  BY <1>5 DEF r

LEMMA RqMergeAt ==
  ASSUME NEW q \in QueueType, NEW l \in Caches, NEW p \in Packet, Queued(q[l], p.addr),
         NEW F, RqAt(q, F), NotIn(F, p.deps, "rq")
  PROVE  RqAt(MergeRead(q, l, p), Moved(F, p.deps, <<l, "rq">>))
<1> DEFINE r == MergeRead(q, l, p)
<1>1. q[l] \in Seq(Packet)
  BY DEF QueueType
<1>2. PacketsAt(JoinRead(q[l], p), <<l, "rq">>, Moved(F, p.deps, <<l, "rq">>))
  BY <1>1, JoinAt DEF RqAt, NotIn
<1>3. ASSUME NEW d \in Caches, d # l
      PROVE  PacketsAt(q[d], <<d, "rq">>, Moved(F, p.deps, <<l, "rq">>))
  BY <1>3, PacketsElsewhere DEF RqAt, NotIn
<1>4. r[l] = JoinRead(q[l], p) /\ \A d \in Caches : d # l => r[d] = q[d]
  BY DEF MergeRead, QueueType
<1> HIDE DEF r
<1>5. RqAt(r, Moved(F, p.deps, <<l, "rq">>))
  BY <1>2, <1>3, <1>4 DEF RqAt
<1> QED
  BY <1>5 DEF r

LEMMA PushAt ==
  ASSUME TypeOK, ProcessedHasRoom, NEW c \in Caches, NEW D \in SUBSET Slots, NEW F,
         ProcessedAt(processed, F), NotIn(F, D, "processed")
  PROVE  ProcessedAt(PushProcessed(c, D), Moved(F, D, <<c, "processed">>))
<1> DEFINE z == PushProcessed(c, D)
<1>1. processed \in [Caches -> Seq(SUBSET Slots)]
  BY DEF TypeOK
<1>2. WokenAt(Append(processed[c], D), <<c, "processed">>, Moved(F, D, <<c, "processed">>))
  BY <1>1, WokenAppendAt DEF ProcessedAt, NotIn
<1>3. ASSUME NEW d \in Caches, d # c
      PROVE  WokenAt(processed[d], <<d, "processed">>, Moved(F, D, <<c, "processed">>))
  BY <1>3, WokenElsewhere DEF ProcessedAt, NotIn
<1>4. z[c] = Append(processed[c], D) /\ \A d \in Caches : d # c => z[d] = processed[d]
  BY <1>1 DEF PushProcessed, ProcessedHasRoom
<1> HIDE DEF z
<1>5. ProcessedAt(z, Moved(F, D, <<c, "processed">>))
  BY <1>2, <1>3, <1>4 DEF ProcessedAt
<1> QED
  BY <1>5 DEF z

LEMMA ReturnDataAt ==
  ASSUME NEW m \in MshrType, NEW u \in Caches, NEW a, NEW F, MshrAt(m, F)
  PROVE  MshrAt(ReturnData(m, u, a), F)
<1> DEFINE n == ReturnData(m, u, a)
<1>1. m[u] \in SUBSET Entry /\ EntriesAt(m[u], <<u, "mshr">>, F)
  BY DEF MshrType, MshrAt
<1>2. EntriesAt({IF e.addr = a THEN [e EXCEPT !.returned = TRUE] ELSE e : e \in m[u]},
                <<u, "mshr">>, F)
  BY <1>1, EntriesReturned
<1>3. n[u] = {IF e.addr = a THEN [e EXCEPT !.returned = TRUE] ELSE e : e \in m[u]}
  BY DEF ReturnData, MshrType
<1>4. \A c \in Caches : c # u => n[c] = m[c]
  BY DEF ReturnData, MshrType
<1> HIDE DEF n
<1>5. EntriesAt(n[u], <<u, "mshr">>, F)
  BY <1>2, <1>3
<1>6. MshrAt(n, F)
  BY <1>4, <1>5 DEF MshrAt
<1> QED
  BY <1>6 DEF n

LEMMA AnswerAt ==
  ASSUME NEW m \in MshrType, NEW c \in Caches, NEW p, p.port \in Ports, NEW F, MshrAt(m, F)
  PROVE  MshrAt(Answer(m, c, p), F)
BY UpperType, ReturnDataAt DEF Answer

LEMMA AllocateAt ==
  ASSUME NEW m \in MshrType, NEW c \in Caches, NEW e, NEW F, MshrAt(m, F),
         NotIn(F, e.deps, "mshr")
  PROVE  MshrAt([m EXCEPT ![c] = @ \cup {e}], Moved(F, e.deps, <<c, "mshr">>))
<1> DEFINE n == [m EXCEPT ![c] = @ \cup {e}]
<1>1. EntriesAt(m[c] \cup {e}, <<c, "mshr">>, Moved(F, e.deps, <<c, "mshr">>))
  BY EntryAdded DEF MshrAt, NotIn
<1>2. ASSUME NEW d \in Caches, d # c
      PROVE  EntriesAt(m[d], <<d, "mshr">>, Moved(F, e.deps, <<c, "mshr">>))
  BY <1>2, EntriesElsewhere DEF MshrAt, NotIn
<1>3. n[c] = m[c] \cup {e} /\ \A d \in Caches : d # c => n[d] = m[d]
  BY DEF MshrType
<1> HIDE DEF n
<1>4. MshrAt(n, Moved(F, e.deps, <<c, "mshr">>))
  BY <1>1, <1>2, <1>3 DEF MshrAt
<1> QED
  BY <1>4 DEF n

LEMMA ReplaceAt ==
  ASSUME mshr \in MshrType, NEW c \in Caches, NEW e \in mshr[c], NEW f, NEW D,
         f.deps = e.deps \cup D, NEW F, MshrAt(mshr, F), NotIn(F, D, "mshr")
  PROVE  MshrAt(Replace(c, e, f), Moved(F, D, <<c, "mshr">>))
<1> DEFINE n == Replace(c, e, f)
<1>1. EntriesAt((mshr[c] \ {e}) \cup {f}, <<c, "mshr">>, Moved(F, D, <<c, "mshr">>))
  BY EntryExchanged DEF MshrAt, NotIn
<1>2. ASSUME NEW d \in Caches, d # c
      PROVE  EntriesAt(mshr[d], <<d, "mshr">>, Moved(F, D, <<c, "mshr">>))
  BY <1>2, EntriesElsewhere DEF MshrAt, NotIn
<1>3. n[c] = (mshr[c] \ {e}) \cup {f} /\ \A d \in Caches : d # c => n[d] = mshr[d]
  BY DEF MshrType, Replace
<1> HIDE DEF n
<1>4. MshrAt(n, Moved(F, D, <<c, "mshr">>))
  BY <1>1, <1>2, <1>3 DEF MshrAt
<1> QED
  BY <1>4 DEF n

LEMMA FreeAt ==
  ASSUME mshr \in MshrType, NEW c \in Caches, NEW e \in mshr[c], e.deps \in SUBSET Slots,
         NEW F, MshrAt(mshr, F), NEW y, \A d \in Caches : y # <<d, "mshr">>
  PROVE  /\ MshrAt([mshr EXCEPT ![c] = @ \ {e}], Moved(F, e.deps, y))
         /\ \A t \in e.deps : F[t] = <<c, "mshr">>
<1> DEFINE n == [mshr EXCEPT ![c] = @ \ {e}]
<1>1. EntriesAt(mshr[c], <<c, "mshr">>, F) /\ y # <<c, "mshr">>
  BY DEF MshrAt
<1>2. EntriesAt(mshr[c] \ {e}, <<c, "mshr">>, Moved(F, e.deps, y))
  BY <1>1, EntryFreed
<1>3. \A t \in e.deps : F[t] = <<c, "mshr">>
  BY <1>1 DEF EntriesAt
<1>4. ASSUME NEW d \in Caches, d # c
      PROVE  EntriesAt(mshr[d], <<d, "mshr">>, Moved(F, e.deps, y))
  <2>1. \A t \in e.deps : F[t] # <<d, "mshr">>
    BY <1>3, <1>4
  <2> QED
    BY <2>1, EntriesElsewhere DEF MshrAt
<1>5. n[c] = mshr[c] \ {e} /\ \A d \in Caches : d # c => n[d] = mshr[d]
  BY DEF MshrType
<1> HIDE DEF n
<1>6. MshrAt(n, Moved(F, e.deps, y))
  BY <1>2, <1>4, <1>5 DEF MshrAt
<1> QED
  BY <1>3, <1>6 DEF n

\* Where a call carries no wake-ups, nobody moves.
LEMMA AddRqAt ==
  ASSUME TypeOK, ProcessedHasRoom, NEW m \in MshrType, NEW q \in QueueType, NEW l \in Caches,
         NEW p \in Packet, p.deps = {}, NEW word, AddRq(m, q, l, p, word),
         NEW F \in [Slots -> Places], RqAt(q, F), MshrAt(m, F), ProcessedAt(processed, F)
  PROVE  RqAt(rq', F) /\ MshrAt(mshr', F) /\ ProcessedAt(processed', F)
<1>1. \A x : Moved(F, p.deps, x) = F
  BY MovedNothing
<1>2. \A k : NotIn(F, p.deps, k)
  BY DEF NotIn
<1>3. MshrAt(Answer(m, l, p), F)
  BY AnswerAt DEF Packet
<1>4. ProcessedAt(PushProcessed(l, p.deps), F)
  <2>1. p.deps \in SUBSET Slots
    BY DEF Packet
  <2>2. ProcessedAt(PushProcessed(l, p.deps), Moved(F, p.deps, <<l, "processed">>))
    BY <1>2, <2>1, PushAt
  <2> QED
    BY <1>1, <2>2
<1>5. Queued(q[l], p.addr) => RqAt(MergeRead(q, l, p), F)
  <2>1. Queued(q[l], p.addr) => RqAt(MergeRead(q, l, p), Moved(F, p.deps, <<l, "rq">>))
    BY <1>2, RqMergeAt
  <2> QED
    BY <1>1, <2>1
<1>6. ~Queued(q[l], p.addr) => RqAt([q EXCEPT ![l] = Append(@, p)], F)
  <2>1. ~Queued(q[l], p.addr) =>
          RqAt([q EXCEPT ![l] = Append(@, p)], Moved(F, p.deps, <<l, "rq">>))
    BY <1>2, RqAppendAt
  <2> QED
    BY <1>1, <2>1
<1>7. CASE WqMatch(l, p.addr, word)
  BY <1>3, <1>4, <1>7 DEF AddRq
<1>8. CASE ~WqMatch(l, p.addr, word)
  <2>1. RqAt(rq', F)
    BY <1>5, <1>6, <1>8 DEF AddRq
  <2> QED
    BY <1>8, <2>1 DEF AddRq
<1> QED
  BY <1>7, <1>8

LEMMA AddPqAt ==
  ASSUME NEW m \in MshrType, NEW q, NEW l \in Caches, NEW p \in Packet, NEW word,
         AddPq(m, q, l, p, word), NEW F, MshrAt(m, F)
  PROVE  MshrAt(mshr', F)
BY AnswerAt DEF AddPq, Packet

LEMMA DramAddRqAt ==
  ASSUME NEW m \in MshrType, NEW p \in Packet, DramAddRq(m, p), NEW F, MshrAt(m, F)
  PROVE  MshrAt(mshr', F)
BY UpperType, ReturnDataAt DEF DramAddRq, Packet
-----------------------------------------------------------------------------
(* Who may wake instructions: only the demands of first-level caches, which *)
(* push PROCESSED when they are filled or hit.                              *)

CoreKinds == {"ITLB", "DTLB", "L1I", "L1D"}

Reads(c) == {p \in Packet : p.type # "PREFETCH" /\ (p.deps = {} \/ Kind[c] \in CoreKinds)}
\* Nothing is written to the ITLB, DTLB and L1I.
Writes(c) ==
  {p \in Packet : p.type # "PREFETCH" /\ p.deps = {} /\ Kind[c] \notin {"ITLB", "DTLB", "L1I"}}
Fetches == {p \in Packet : p.deps = {}}
Misses(c) ==
  {e \in Entry : e.deps = {} \/ (e.type # "PREFETCH" /\ Kind[c] \in CoreKinds)}

RqQuiet(q) == \A c \in Caches : q[c] \in Seq(Reads(c))
WqQuiet(q) == \A c \in Caches : q[c] \in Seq(Writes(c))
PqQuiet(q) == \A c \in Caches : q[c] \in Seq(Fetches)
MshrQuiet(m) == \A c \in Caches : m[c] \subseteq Misses(c)
Quiet == RqQuiet(rq) /\ WqQuiet(wq) /\ PqQuiet(pq) /\ MshrQuiet(mshr)

LEMMA LowerReads ==
  ASSUME NEW c \in Caches, NEW l \in Caches, Lower[c] = l, NEW p \in Reads(c)
  PROVE  Down(p) \in Reads(l)
BY DownType DEF Reads, Down, Packet

LEMMA RqQuietPop ==
  ASSUME NEW q \in QueueType, NEW c \in Caches, q[c] # <<>>, RqQuiet(q)
  PROVE  RqQuiet(Pop(q, c)) /\ Head(q[c]) \in Reads(c)
<1>1. Tail(q[c]) \in Seq(Reads(c)) /\ Head(q[c]) \in Reads(c)
  BY HeadTailProperties DEF RqQuiet
<1> QED
  BY <1>1 DEF RqQuiet, Pop, QueueType

LEMMA WqQuietPop ==
  ASSUME NEW q \in QueueType, NEW c \in Caches, q[c] # <<>>, WqQuiet(q)
  PROVE  WqQuiet(Pop(q, c)) /\ Head(q[c]) \in Writes(c)
<1>1. Tail(q[c]) \in Seq(Writes(c)) /\ Head(q[c]) \in Writes(c)
  BY HeadTailProperties DEF WqQuiet
<1> QED
  BY <1>1 DEF WqQuiet, Pop, QueueType

LEMMA PqQuietPop ==
  ASSUME NEW q \in QueueType, NEW c \in Caches, q[c] # <<>>, PqQuiet(q)
  PROVE  PqQuiet(Pop(q, c)) /\ Head(q[c]) \in Fetches
<1>1. Tail(q[c]) \in Seq(Fetches) /\ Head(q[c]) \in Fetches
  BY HeadTailProperties DEF PqQuiet
<1> QED
  BY <1>1 DEF PqQuiet, Pop, QueueType

LEMMA ReturnDataQuiet ==
  ASSUME NEW m \in MshrType, NEW u \in Caches, NEW a, MshrQuiet(m)
  PROVE  MshrQuiet(ReturnData(m, u, a))
<1>1. \A e \in Misses(u) : [e EXCEPT !.returned = TRUE] \in Misses(u)
  BY DEF Misses, Entry
<1>2. m[u] \subseteq Misses(u)
  BY DEF MshrQuiet
<1>3. {IF e.addr = a THEN [e EXCEPT !.returned = TRUE] ELSE e : e \in m[u]} \subseteq Misses(u)
  BY <1>1, <1>2
<1> QED
  BY <1>3 DEF MshrQuiet, ReturnData, MshrType

LEMMA AnswerQuiet ==
  ASSUME NEW m \in MshrType, NEW c \in Caches, NEW p, p.port \in Ports, MshrQuiet(m)
  PROVE  MshrQuiet(Answer(m, c, p))
BY UpperType, ReturnDataQuiet DEF Answer

LEMMA AllocateQuiet ==
  ASSUME NEW m \in MshrType, NEW c \in Caches, NEW e \in Misses(c), MshrQuiet(m)
  PROVE  MshrQuiet([m EXCEPT ![c] = @ \cup {e}])
BY DEF MshrQuiet, MshrType

LEMMA ReplaceQuiet ==
  ASSUME mshr \in MshrType, NEW c \in Caches, NEW e, NEW f \in Misses(c), MshrQuiet(mshr)
  PROVE  MshrQuiet(Replace(c, e, f))
BY DEF MshrQuiet, MshrType, Replace

LEMMA AddRqQuiet ==
  ASSUME NEW m \in MshrType, NEW q \in QueueType, NEW l \in Caches, NEW p \in Reads(l),
         NEW word, AddRq(m, q, l, p, word), RqQuiet(q), MshrQuiet(m)
  PROVE  RqQuiet(rq') /\ MshrQuiet(mshr')
<1>1. MshrQuiet(Answer(m, l, p))
  BY AnswerQuiet DEF Reads, Packet
<1>2. q[l] \in Seq(Reads(l))
  BY DEF RqQuiet
<1>3. RqQuiet([q EXCEPT ![l] = Append(@, p)])
  <2>1. Append(q[l], p) \in Seq(Reads(l))
    BY <1>2, AppendProperties
  <2> QED
    BY <2>1 DEF RqQuiet, QueueType
<1>4. RqQuiet(MergeRead(q, l, p))
  <2>1. Len(q[l]) \in Nat /\ DOMAIN q[l] = 1..Len(q[l])
    BY <1>2, LenProperties
  <2>2. \A i \in 1..Len(q[l]) : q[l][i] \in Reads(l)
    BY <1>2, ElementOfSeq
  <2>3. \A g \in Reads(l) : [g EXCEPT !.deps = @ \cup p.deps] \in Reads(l)
    BY DEF Reads, Packet
  <2>4. JoinRead(q[l], p) \in [1..Len(q[l]) -> Reads(l)]
    BY <2>1, <2>2, <2>3 DEF JoinRead
  <2>5. JoinRead(q[l], p) \in Seq(Reads(l))
    BY <2>1, <2>4, FunctionIsSeq
  <2> QED
    BY <2>5 DEF MergeRead, RqQuiet, QueueType
<1> QED
  BY <1>1, <1>3, <1>4 DEF AddRq

LEMMA AddPqQuiet ==
  ASSUME NEW m \in MshrType, NEW q \in QueueType, NEW l \in Caches, NEW p \in Fetches,
         NEW word, AddPq(m, q, l, p, word), PqQuiet(q), MshrQuiet(m)
  PROVE  PqQuiet(pq') /\ MshrQuiet(mshr')
<1>1. MshrQuiet(Answer(m, l, p))
  BY AnswerQuiet DEF Fetches, Packet
<1>2. q[l] \in Seq(Fetches)
  BY DEF PqQuiet
<1>3. PqQuiet([q EXCEPT ![l] = Append(@, p)])
  <2>1. Append(q[l], p) \in Seq(Fetches)
    BY <1>2, AppendProperties
  <2> QED
    BY <2>1 DEF PqQuiet, QueueType
<1>4. PqQuiet([q EXCEPT ![l] = JoinPrefetch(@, p)])
  <2>1. Len(q[l]) \in Nat /\ DOMAIN q[l] = 1..Len(q[l])
    BY <1>2, LenProperties
  <2>2. \A i \in 1..Len(q[l]) : q[l][i] \in Fetches
    BY <1>2, ElementOfSeq
  <2>3. \A g \in Fetches : [g EXCEPT !.fl = MinOf(p.fl, @)] \in Fetches
    BY DEF Fetches, Packet, MinOf
  <2>4. JoinPrefetch(q[l], p) \in [1..Len(q[l]) -> Fetches]
    BY <2>1, <2>2, <2>3 DEF JoinPrefetch
  <2>5. JoinPrefetch(q[l], p) \in Seq(Fetches)
    BY <2>1, <2>4, FunctionIsSeq
  <2> QED
    BY <2>5 DEF PqQuiet, QueueType
<1> QED
  BY <1>1, <1>3, <1>4 DEF AddPq

LEMMA AddWqQuiet ==
  ASSUME NEW q \in QueueType, NEW l \in Caches, NEW p \in Writes(l), NEW word, WqQuiet(q)
  PROVE  WqQuiet(AddWq(q, l, p, word))
<1>1. Append(q[l], p) \in Seq(Writes(l))
  BY AppendProperties DEF WqQuiet
<1> QED
  BY <1>1 DEF AddWq, WqQuiet, QueueType

LEMMA DramAddRqQuiet ==
  ASSUME NEW m \in MshrType, NEW p \in Packet, DramAddRq(m, p), MshrQuiet(m)
  PROVE  MshrQuiet(mshr')
BY UpperType, ReturnDataQuiet DEF DramAddRq, Packet

LEMMA EvictQuiet ==
  ASSUME TypeOK, NEW c \in Caches, NEW w \in Ways(c), NEW q \in QueueType, WqQuiet(q),
         NEW port \in Ports, Evict(c, w, q, port)
  PROVE  WqQuiet(wq')
<1>1. CASE ~block[c][w].dirty \/ Lower[c] = NoLower \/ Lower[c] = Dram
  BY <1>1 DEF Evict
<1>2. CASE ~(~block[c][w].dirty \/ Lower[c] = NoLower \/ Lower[c] = Dram)
  <2>1. Lower[c] \in Caches
    BY <1>2, HierarchyAssumption
  <2>2. block[c][w].addr \in Addr
    <3>1. block[c] \in [Ways(c) -> Block]
      BY DEF TypeOK
    <3>2. block[c][w] \in Block /\ block[c][w] # EmptyBlock
      BY <1>2, <3>1 DEF EmptyBlock
    <3> QED
      BY <3>2 DEF Block
  <2>3. 2 * FillLevel[c] \in Levels
    <3>1. FillLevel[c] \in {1, 2, 4}
      BY HierarchyAssumption
    <3> QED
      BY <3>1 DEF Levels
  <2>4. WritebackPacket(c, block[c][w].addr, port) \in Packet
    BY <2>2, <2>3 DEF WritebackPacket, Packet, Types, Ports
  <2>5. Kind[Lower[c]] \notin {"ITLB", "DTLB", "L1I"}
    BY <2>1, WiringAssumption
  <2>6. WritebackPacket(c, block[c][w].addr, port) \in Writes(Lower[c])
    BY <2>4, <2>5 DEF Writes, WritebackPacket
  <2>7. wq' = AddWq(q, Lower[c], WritebackPacket(c, block[c][w].addr, port), TRUE)
    BY <1>2 DEF Evict
  <2> QED
    BY <2>1, <2>6, <2>7, AddWqQuiet
<1> QED
  BY <1>1, <1>2
-----------------------------------------------------------------------------
(* One lemma per handler.                                                  *)

LEMMA PlaceType ==
  ASSUME NEW c \in Caches, NEW k \in {"rq", "mshr", "processed"}
  PROVE  <<c, k>> \in Places /\ <<c, k>> # Nowhere
BY HierarchyAssumption DEF Places, Nowhere

\* Instructions in one place are in no other.
LEMMA InEntryOnly ==
  ASSUME NEW F, NEW D, NEW c \in Caches, \A t \in D : F[t] = <<c, "mshr">>
  PROVE  /\ NotIn(F, D, "rq") /\ NotIn(F, D, "processed")
         /\ \A t \in D : F[t] # Nowhere
<1>1. <<c, "mshr">> # Nowhere
  BY PlaceType
<1>2. \A d \in Caches : <<c, "mshr">> # <<d, "rq">> /\ <<c, "mshr">> # <<d, "processed">>
  OBVIOUS
<1> QED
  BY <1>1, <1>2 DEF NotIn

LEMMA InPacketOnly ==
  ASSUME NEW F, NEW D, NEW c \in Caches, \A t \in D : F[t] = <<c, "rq">>
  PROVE  /\ NotIn(F, D, "mshr") /\ NotIn(F, D, "processed")
         /\ \A t \in D : F[t] # Nowhere
<1>1. <<c, "rq">> # Nowhere
  BY PlaceType
<1>2. \A d \in Caches : <<c, "rq">> # <<d, "mshr">> /\ <<c, "rq">> # <<d, "processed">>
  OBVIOUS
<1> QED
  BY <1>1, <1>2 DEF NotIn

LEMMA HandleFillWakes ==
  ASSUME TypeOK, ProcessedHasRoom, Quiet, NEW F, Located(rq, mshr, processed, rob, F),
         NEW c \in Caches, NEW a \in Addr, HandleFill(c, a)
  PROVE  Quiet' /\ \E G : Located(rq', mshr', processed', rob', G)
<1>1. PICK e \in mshr[c], w \in Victims(c) :
        /\ Evict(c, w, wq, e.port)
        /\ mshr' = Answer([mshr EXCEPT ![c] = @ \ {e}], c, e)
        /\ processed' = IF \/ Kind[c] \in {"ITLB", "DTLB", "L1I"}
                          \/ (Kind[c] = "L1D" /\ e.type # "PREFETCH")
                        THEN PushProcessed(c, e.deps) ELSE processed
        /\ rq' = rq /\ pq' = pq /\ rob' = rob
  BY DEF HandleFill, coreVars
<1> DEFINE m == [mshr EXCEPT ![c] = @ \ {e}]
           y == <<c, "processed">>
           G == Moved(F, e.deps, y)
<1>2. /\ mshr \in MshrType /\ wq \in QueueType /\ m \in MshrType
      /\ F \in [Slots -> Places] /\ RqAt(rq, F) /\ MshrAt(mshr, F)
      /\ ProcessedAt(processed, F) /\ RobAt(rob, F)
  BY DEF TypeOK, MshrType, QueueType, Located
<1>3. e \in Entry /\ e \in Misses(c)
  BY <1>2 DEF MshrType, Quiet, MshrQuiet
<1>4. e.port \in Ports /\ e.deps \in SUBSET Slots /\ w \in Ways(c)
  BY <1>3 DEF Entry, Victims, InvalidWays
<1>5. y \in Places /\ y # Nowhere /\ \A d \in Caches : y # <<d, "rq">> /\ y # <<d, "mshr">>
  BY PlaceType
<1>6. \A t \in e.deps : F[t] = <<c, "mshr">>
  BY <1>2, <1>4, <1>5, FreeAt
<1>7. NotIn(F, e.deps, "rq") /\ NotIn(F, e.deps, "processed") /\ \A t \in e.deps : F[t] # Nowhere
  BY <1>6, InEntryOnly
<1>8. MshrAt(m, G)
  BY <1>2, <1>4, <1>5, FreeAt
<1>9. RqAt(rq, G) /\ RobAt(rob, G) /\ G \in [Slots -> Places]
  BY <1>2, <1>5, <1>7, RqElsewhere, RobMoves, MovedType
<1>10. MshrQuiet(m)
  BY <1>2 DEF Quiet, MshrQuiet, MshrType
<1>11. ProcessedAt(processed', G)
  <2>1. ProcessedAt(PushProcessed(c, e.deps), G)
    BY <1>2, <1>4, <1>7, PushAt
  <2>2. e.deps = {} => ProcessedAt(processed, G)
    BY <1>2, MovedNothing
  <2>3. e.deps # {} => e.type # "PREFETCH" /\ Kind[c] \in {"ITLB", "DTLB", "L1I", "L1D"}
    BY <1>3 DEF Misses, CoreKinds
  <2> HIDE DEF G
  <2> QED
    BY <1>1, <2>1, <2>2, <2>3
<1> HIDE DEF m, G, y
<1>12. MshrAt(mshr', G) /\ MshrQuiet(mshr')
  BY <1>1, <1>2, <1>4, <1>8, <1>10, AnswerAt, AnswerQuiet DEF m
<1>13. WqQuiet(wq')
  BY <1>1, <1>2, <1>4, EvictQuiet DEF Quiet
<1>14. Quiet'
  BY <1>1, <1>12, <1>13 DEF Quiet, RqQuiet, PqQuiet, WqQuiet, MshrQuiet
<1>15. Located(rq', mshr', processed', rob', G)
  BY <1>1, <1>9, <1>11, <1>12 DEF Located
<1> QED
  BY <1>14, <1>15

LEMMA HandleWritebackWakes ==
  ASSUME TypeOK, ProcessedHasRoom, Quiet, NEW F, Located(rq, mshr, processed, rob, F),
         NEW c \in Caches, HandleWriteback(c)
  PROVE  Quiet' /\ \E G : Located(rq', mshr', processed', rob', G)
<1> DEFINE p == Head(wq[c])
<1>1. /\ wq[c] # <<>> /\ pq' = pq /\ rob' = rob
      /\ WriteHit(c, p) \/ RfoNewMiss(c, p) \/ RfoMerge(c, p) \/ WriteAllocate(c, p)
  BY DEF HandleWriteback, coreVars
<1>2. /\ mshr \in MshrType /\ wq \in QueueType /\ rq \in QueueType
      /\ F \in [Slots -> Places] /\ RqAt(rq, F) /\ MshrAt(mshr, F)
      /\ ProcessedAt(processed, F) /\ RobAt(rob, F)
      /\ RqQuiet(rq) /\ WqQuiet(wq) /\ PqQuiet(pq) /\ MshrQuiet(mshr)
  BY DEF TypeOK, MshrType, QueueType, Located, Quiet
<1>3. p \in Writes(c) /\ WqQuiet(Pop(wq, c)) /\ Pop(wq, c) \in QueueType
  BY <1>1, <1>2, WqQuietPop, PopType DEF QueueType
<1>4. p \in Packet /\ p.deps = {} /\ p.type # "PREFETCH" /\ p.port \in Ports
  BY <1>3 DEF Writes, Packet
<1> HIDE DEF p
<1>5. MshrAt(Answer(mshr, c, p), F) /\ MshrQuiet(Answer(mshr, c, p))
  BY <1>2, <1>4, AnswerAt, AnswerQuiet
<1>6. \A D, y : D = {} => NotIn(F, D, "mshr") /\ Moved(F, D, y) = F
  BY <1>2, MovedNothing DEF NotIn
<1>7. /\ RqAt(rq', F) /\ MshrAt(mshr', F) /\ ProcessedAt(processed', F)
      /\ RqQuiet(rq') /\ WqQuiet(wq') /\ MshrQuiet(mshr')
  <2>1. CASE WriteHit(c, p)
    BY <1>2, <1>3, <1>5, <2>1 DEF WriteHit
  <2>2. CASE WriteAllocate(c, p)
    <3>1. PICK w \in Victims(c) : Evict(c, w, Pop(wq, c), p.port)
      BY <2>2 DEF WriteAllocate
    <3>2. w \in Ways(c)
      BY DEF Victims, InvalidWays
    <3>3. WqQuiet(wq')
      BY <1>3, <1>4, <3>1, <3>2, EvictQuiet
    <3> QED
      BY <1>2, <1>5, <2>2, <3>3 DEF WriteAllocate
  <2>3. CASE RfoNewMiss(c, p)
    <3> DEFINE e == NewEntry(p, FALSE)
               m == [mshr EXCEPT ![c] = @ \cup {e}]
    <3>1. Lower[c] \in Caches
      BY <2>3, HierarchyAssumption DEF RfoNewMiss
    <3>2. e \in Entry /\ e.deps = {}
      BY <1>4, NewEntryType DEF NewEntry
    <3>3. \A g \in Entry : g.deps = {} => g \in Misses(c)
      BY DEF Misses
    <3>4. e \in Misses(c)
      BY <3>2, <3>3
    <3>5. m \in MshrType
      BY <1>2, <1>4, AllocateType
    <3> HIDE DEF e
    <3>6. MshrAt(m, F) /\ MshrQuiet(m)
      <4>1. MshrAt(m, Moved(F, e.deps, <<c, "mshr">>))
        BY <1>2, <1>6, <3>2, AllocateAt
      <4> HIDE DEF m
      <4>2. MshrAt(m, F)
        BY <1>6, <3>2, <4>1
      <4> QED
        BY <1>2, <3>4, <4>2, AllocateQuiet DEF m
    <3>7. Down(p) \in Reads(Lower[c]) /\ Down(p).deps = {} /\ Down(p) \in Packet
      BY <1>4, DownType DEF Reads, Down, Packet
    <3>8. AddRq(m, rq, Lower[c], Down(p), TRUE) /\ wq' = Pop(wq, c)
      BY <2>3 DEF RfoNewMiss, e
    <3> HIDE DEF m
    <3>9. RqAt(rq', F) /\ MshrAt(mshr', F) /\ ProcessedAt(processed', F)
      BY <1>2, <3>1, <3>5, <3>6, <3>7, <3>8, AddRqAt
    <3>10. RqQuiet(rq') /\ MshrQuiet(mshr')
      BY <1>2, <3>1, <3>5, <3>6, <3>7, <3>8, AddRqQuiet
    <3> QED
      BY <1>3, <3>8, <3>9, <3>10
  <2>4. CASE RfoMerge(c, p)
    <3>1. PICK e \in mshr[c] :
            mshr' = Replace(c, e, IF e.type = "PREFETCH" THEN NewEntry(p, e.returned)
                                  ELSE [e EXCEPT !.fl = MinOf(p.fl, @)])
      BY <2>4 DEF RfoMerge
    <3> DEFINE f == IF e.type = "PREFETCH" THEN NewEntry(p, e.returned)
                    ELSE [e EXCEPT !.fl = MinOf(p.fl, @)]
    <3>2. e \in Misses(c) /\ e \in Entry
      BY <1>2 DEF MshrType, MshrQuiet
    <3>3. f \in Misses(c) /\ f.deps = e.deps
      <4>1. CASE e.type = "PREFETCH"
        <5>1. NewEntry(p, e.returned) \in Entry
          BY <1>4, <3>2, NewEntryType DEF Entry
        <5>2. NewEntry(p, e.returned).deps = {}
          BY <1>4 DEF NewEntry
        <5>3. NewEntry(p, e.returned) \in Misses(c)
          BY <5>1, <5>2 DEF Misses
        <5>4. e.deps = {}
          BY <3>2, <4>1 DEF Misses
        <5>5. f = NewEntry(p, e.returned)
          BY <4>1
        <5> HIDE DEF f
        <5> QED
          BY <5>2, <5>3, <5>4, <5>5
      <4>2. CASE e.type # "PREFETCH"
        <5>1. f = [e EXCEPT !.fl = MinOf(p.fl, @)]
          BY <4>2
        <5> HIDE DEF f
        <5> QED
          BY <1>4, <3>2, <5>1 DEF Misses, Entry, Packet, MinOf
      <4> QED
        BY <4>1, <4>2
    <3> HIDE DEF f
    <3>4. MshrAt(Replace(c, e, f), Moved(F, {}, <<c, "mshr">>))
      BY <1>2, <1>6, <3>3, ReplaceAt
    <3>5. MshrAt(Replace(c, e, f), F) /\ MshrQuiet(Replace(c, e, f))
      BY <1>2, <1>6, <3>3, <3>4, ReplaceQuiet
    <3>6. mshr' = Replace(c, e, f)
      BY <3>1 DEF f
    <3> QED
      BY <1>2, <1>3, <2>4, <3>5, <3>6 DEF RfoMerge
  <2> QED
    BY <1>1, <2>1, <2>2, <2>3, <2>4 DEF p
<1>8. Quiet'
  BY <1>1, <1>2, <1>7 DEF Quiet, RqQuiet, PqQuiet, WqQuiet, MshrQuiet
<1>9. Located(rq', mshr', processed', rob', F)
  BY <1>1, <1>2, <1>7 DEF Located
<1> QED
  BY <1>8, <1>9

LEMMA HandleReadWakes ==
  ASSUME TypeOK, ProcessedHasRoom, Quiet, NEW F, Located(rq, mshr, processed, rob, F),
         NEW c \in Caches, HandleRead(c)
  PROVE  Quiet' /\ \E G : Located(rq', mshr', processed', rob', G)
<1> DEFINE p == Head(rq[c])
           z == Pop(rq, c)
<1>1. /\ rq[c] # <<>> /\ wq' = wq /\ pq' = pq /\ rob' = rob
      /\ ReadHit(c, p) \/ ReadNewMiss(c, p) \/ ReadMerge(c, p)
  BY DEF HandleRead, coreVars
<1>2. /\ mshr \in MshrType /\ rq \in QueueType
      /\ F \in [Slots -> Places] /\ RqAt(rq, F) /\ MshrAt(mshr, F)
      /\ ProcessedAt(processed, F) /\ RobAt(rob, F)
      /\ RqQuiet(rq) /\ WqQuiet(wq) /\ PqQuiet(pq) /\ MshrQuiet(mshr)
  BY DEF TypeOK, MshrType, QueueType, Located, Quiet
<1>3. p \in Reads(c) /\ RqQuiet(z) /\ z \in QueueType
  BY <1>1, <1>2, RqQuietPop, PopType DEF QueueType
<1>4. p \in Packet /\ p.deps \in SUBSET Slots /\ p.port \in Ports /\ p.type # "PREFETCH"
  BY <1>3 DEF Reads, Packet
<1>5. \A t \in p.deps : F[t] = <<c, "rq">>
  <2>1. \A d \in Caches : <<c, "mshr">> # <<d, "rq">>
    OBVIOUS
  <2> QED
    BY <1>1, <1>2, <2>1, RqPopAt
<1>6. /\ NotIn(F, p.deps, "mshr") /\ NotIn(F, p.deps, "processed")
      /\ \A t \in p.deps : F[t] # Nowhere
  BY <1>5, InPacketOnly
<1>7. CASE ReadHit(c, p)
  <2> DEFINE y == <<c, "processed">>
             G == Moved(F, p.deps, y)
  <2>1. y \in Places /\ y # Nowhere /\ \A d \in Caches : y # <<d, "rq">> /\ y # <<d, "mshr">>
    BY PlaceType
  <2>2. RqAt(z, G)
    BY <1>1, <1>2, <2>1, RqPopAt
  <2>3. MshrAt(mshr, G) /\ RobAt(rob, G) /\ G \in [Slots -> Places]
    BY <1>2, <1>6, <2>1, MshrElsewhereAt, RobMoves, MovedType
  <2>4. ProcessedAt(PushProcessed(c, p.deps), G)
    BY <1>2, <1>4, <1>6, PushAt
  <2>5. p.deps = {} => ProcessedAt(processed, G)
    BY <1>2, MovedNothing
  <2>6. p.deps # {} => Kind[c] \in {"ITLB", "DTLB", "L1I", "L1D"}
    BY <1>3 DEF Reads, CoreKinds
  <2> HIDE DEF G, y, z, p
  <2>7. MshrAt(mshr', G) /\ MshrQuiet(mshr')
    BY <1>2, <1>4, <1>7, <2>3, AnswerAt, AnswerQuiet DEF ReadHit
  <2>8. rq' = z /\ ProcessedAt(processed', G)
    BY <1>7, <2>4, <2>5, <2>6 DEF ReadHit, z
  <2>9. Quiet'
    BY <1>1, <1>2, <1>3, <2>7, <2>8 DEF Quiet, RqQuiet, PqQuiet, WqQuiet, MshrQuiet
  <2>10. Located(rq', mshr', processed', rob', G)
    BY <1>1, <2>2, <2>3, <2>7, <2>8 DEF Located
  <2> QED
    BY <2>9, <2>10
<1>8. CASE ReadNewMiss(c, p) \/ ReadMerge(c, p)
  <2> DEFINE y == <<c, "mshr">>
             G == Moved(F, p.deps, y)
  <2>1. y \in Places /\ y # Nowhere /\ \A d \in Caches : y # <<d, "rq">> /\ y # <<d, "processed">>
    BY PlaceType
  <2>2. RqAt(z, G)
    BY <1>1, <1>2, <2>1, RqPopAt
  <2>3. ProcessedAt(processed, G) /\ RobAt(rob, G) /\ G \in [Slots -> Places]
    BY <1>2, <1>6, <2>1, ProcessedElsewhere, RobMoves, MovedType
  <2>4. /\ RqAt(rq', G) /\ MshrAt(mshr', G) /\ ProcessedAt(processed', G)
        /\ RqQuiet(rq') /\ MshrQuiet(mshr')
    <3>1. CASE ReadNewMiss(c, p)
      <4> DEFINE m(r) == [mshr EXCEPT ![c] = @ \cup {NewEntry(p, r)}]
      <4>1. \A r \in BOOLEAN : m(r) \in MshrType
        BY <1>2, <1>4, AllocateType
      <4>2. ASSUME NEW r \in BOOLEAN
            PROVE  MshrAt(m(r), G) /\ MshrQuiet(m(r))
        <5> DEFINE e == NewEntry(p, r)
        <5>1. e \in Entry
          BY <1>4, NewEntryType
        <5>2. e.deps = p.deps /\ e.type = p.type
          BY DEF NewEntry
        <5> HIDE DEF e, p
        <5>3. e \in Misses(c)
          BY <1>3, <5>1, <5>2 DEF Misses, Reads
        <5>4. NotIn(F, e.deps, "mshr") /\ G = Moved(F, e.deps, <<c, "mshr">>)
          BY <1>6, <5>2
        <5> HIDE DEF G
        <5>5. MshrAt([mshr EXCEPT ![c] = @ \cup {e}], G)
          BY <1>2, <5>4, AllocateAt
        <5>6. MshrQuiet([mshr EXCEPT ![c] = @ \cup {e}])
          BY <1>2, <5>3, AllocateQuiet
        <5> QED
          BY <5>5, <5>6 DEF e
      <4>3. \/ /\ Lower[c] \in Caches
               /\ AddRq(m(FALSE), z, Lower[c], Down(p), TRUE)
            \/ /\ DramAddRq(m(FALSE), p)
               /\ rq' = z /\ processed' = processed
            \/ mshr' = m(TRUE) /\ rq' = z /\ processed' = processed
        BY <3>1 DEF ReadNewMiss
      <4> HIDE DEF m, z, G, p
      <4>4. CASE Lower[c] \in Caches /\ AddRq(m(FALSE), z, Lower[c], Down(p), TRUE)
        <5>1. Down(p) \in Reads(Lower[c])
          BY <1>3, <4>4, LowerReads
        <5>2. Down(p).deps = {} /\ Down(p) \in Packet
          BY <1>4, DownType DEF Down, Packet
        <5>3. RqAt(rq', G) /\ MshrAt(mshr', G) /\ ProcessedAt(processed', G)
          BY <1>3, <2>2, <2>3, <4>1, <4>2, <4>4, <5>2, AddRqAt
        <5>4. RqQuiet(rq') /\ MshrQuiet(mshr')
          BY <1>3, <4>1, <4>2, <4>4, <5>1, AddRqQuiet
        <5> QED
          BY <5>3, <5>4
      <4>5. CASE DramAddRq(m(FALSE), p) /\ rq' = z /\ processed' = processed
        <5>1. MshrAt(mshr', G) /\ MshrQuiet(mshr')
          BY <1>4, <4>1, <4>2, <4>5, DramAddRqAt, DramAddRqQuiet
        <5> QED
          BY <1>3, <2>2, <2>3, <4>5, <5>1
      <4>6. CASE mshr' = m(TRUE) /\ rq' = z /\ processed' = processed
        BY <1>3, <2>2, <2>3, <4>2, <4>6
      <4> QED
        BY <4>3, <4>4, <4>5, <4>6
    <3>2. CASE ReadMerge(c, p)
      <4>1. PICK e \in mshr[c] : mshr' = Replace(c, e, MergeDemand(e, p))
        BY <3>2 DEF ReadMerge
      <4> DEFINE f == MergeDemand(e, p)
      <4>2. e \in Misses(c) /\ e \in Entry
        BY <1>2 DEF MshrType, MshrQuiet
      <4>3. f.deps = e.deps \cup p.deps
        <5>1. e.type = "PREFETCH" => e.deps = {}
          BY <4>2 DEF Misses
        <5> HIDE DEF p
        <5> QED
          BY <4>2, <5>1 DEF MergeDemand, NewEntry, Entry
      <4>4. f \in Entry
        BY <1>4, <4>2, MergeDemandType
      <4>5. f.type # "PREFETCH"
        BY <1>4, <4>2 DEF MergeDemand, NewEntry, Entry
      <4> HIDE DEF f, p, G, z
      <4>6. f \in Misses(c)
        BY <1>3, <4>2, <4>3, <4>4, <4>5 DEF Misses, Reads
      <4>7. MshrAt(Replace(c, e, f), G)
        BY <1>2, <1>6, <4>3, ReplaceAt DEF G, y
      <4>8. MshrQuiet(Replace(c, e, f))
        BY <1>2, <4>6, ReplaceQuiet
      <4>9. rq' = z /\ processed' = processed
        BY <3>2 DEF ReadMerge, z
      <4> QED
        BY <1>3, <2>2, <2>3, <4>1, <4>7, <4>8, <4>9 DEF f
    <3> QED
      BY <1>8, <3>1, <3>2
  <2> HIDE DEF G
  <2>5. Quiet'
    BY <1>1, <1>2, <2>4 DEF Quiet, RqQuiet, PqQuiet, WqQuiet, MshrQuiet
  <2>6. Located(rq', mshr', processed', rob', G)
    BY <1>1, <2>3, <2>4 DEF Located
  <2> QED
    BY <2>5, <2>6
<1> QED
  BY <1>1, <1>7, <1>8

LEMMA HandlePrefetchWakes ==
  ASSUME TypeOK, Quiet, NEW F, Located(rq, mshr, processed, rob, F),
         NEW c \in Caches, HandlePrefetch(c)
  PROVE  Quiet' /\ \E G : Located(rq', mshr', processed', rob', G)
<1> DEFINE p == Head(pq[c])
           z == Pop(pq, c)
<1>1. /\ pq[c] # <<>> /\ wq' = wq /\ rq' = rq /\ processed' = processed /\ rob' = rob
      /\ PrefetchHit(c, p) \/ PrefetchNewMiss(c, p) \/ PrefetchMerge(c, p)
  BY DEF HandlePrefetch, coreVars
<1>2. /\ mshr \in MshrType /\ pq \in QueueType
      /\ F \in [Slots -> Places] /\ RqAt(rq, F) /\ MshrAt(mshr, F)
      /\ ProcessedAt(processed, F) /\ RobAt(rob, F)
      /\ RqQuiet(rq) /\ WqQuiet(wq) /\ PqQuiet(pq) /\ MshrQuiet(mshr)
  BY DEF TypeOK, MshrType, QueueType, Located, Quiet
<1>3. p \in Fetches /\ PqQuiet(z) /\ z \in QueueType
  BY <1>1, <1>2, PqQuietPop, PopType DEF QueueType
<1>4. p \in Packet /\ p.deps = {} /\ p.port \in Ports
  BY <1>3 DEF Fetches, Packet
<1>5. \A D, y : D = {} => NotIn(F, D, "mshr") /\ Moved(F, D, y) = F
  BY <1>2, MovedNothing DEF NotIn
<1> HIDE DEF p, z
<1>6. MshrAt(mshr', F) /\ PqQuiet(pq') /\ MshrQuiet(mshr')
  <2>1. CASE PrefetchHit(c, p)
    BY <1>2, <1>3, <1>4, <2>1, AnswerAt, AnswerQuiet DEF PrefetchHit, z
  <2>2. CASE PrefetchNewMiss(c, p)
    <3> DEFINE e == NewEntry(p, FALSE)
               n == [mshr EXCEPT ![c] = @ \cup {e}]
               m == IF TakesMshr(c, p) THEN n ELSE mshr
    <3>1. e \in Entry /\ e.deps = {}
      BY <1>4, NewEntryType DEF NewEntry
    <3>2. \A g \in Entry : g.deps = {} => g \in Misses(c)
      BY DEF Misses
    <3>3. e \in Misses(c)
      BY <3>1, <3>2
    <3>4. n \in MshrType
      BY <1>2, <1>4, AllocateType
    <3>5. \/ Lower[c] \in Caches /\ AddPq(m, z, Lower[c], p, TRUE)
          \/ DramAddRq(m, p) /\ pq' = z
      BY <2>2 DEF PrefetchNewMiss, z
    <3> HIDE DEF e
    <3>6. MshrAt(n, Moved(F, e.deps, <<c, "mshr">>))
      BY <1>2, <1>5, <3>1, AllocateAt
    <3>7. MshrQuiet(n)
      BY <1>2, <3>3, AllocateQuiet
    <3> HIDE DEF n
    <3>8. MshrAt(n, F)
      BY <1>5, <3>1, <3>6
    <3>9. m \in MshrType /\ MshrAt(m, F) /\ MshrQuiet(m)
      BY <1>2, <3>4, <3>7, <3>8
    <3> HIDE DEF m
    <3>10. CASE Lower[c] \in Caches /\ AddPq(m, z, Lower[c], p, TRUE)
      <4>1. MshrAt(mshr', F)
        BY <1>4, <3>9, <3>10, AddPqAt
      <4>2. PqQuiet(pq') /\ MshrQuiet(mshr')
        BY <1>3, <3>9, <3>10, AddPqQuiet
      <4> QED
        BY <4>1, <4>2
    <3>11. CASE DramAddRq(m, p) /\ pq' = z
      BY <1>3, <1>4, <3>9, <3>11, DramAddRqAt, DramAddRqQuiet
    <3> QED
      BY <3>5, <3>10, <3>11
  <2>3. CASE PrefetchMerge(c, p)
    <3>1. PICK e \in mshr[c] : mshr' = Replace(c, e, [e EXCEPT !.fl = MinOf(p.fl, @)])
      BY <2>3 DEF PrefetchMerge
    <3> DEFINE f == [e EXCEPT !.fl = MinOf(p.fl, @)]
    <3>2. e \in Misses(c) /\ e \in Entry
      BY <1>2 DEF MshrType, MshrQuiet
    <3>3. f \in Misses(c) /\ f.deps = e.deps
      BY <1>4, <3>2 DEF Misses, Entry, Packet, MinOf
    <3> HIDE DEF f
    <3>4. MshrAt(Replace(c, e, f), Moved(F, {}, <<c, "mshr">>))
      BY <1>2, <1>5, <3>3, ReplaceAt
    <3>5. MshrAt(Replace(c, e, f), F) /\ MshrQuiet(Replace(c, e, f))
      BY <1>2, <1>5, <3>3, <3>4, ReplaceQuiet
    <3>6. mshr' = Replace(c, e, f) /\ pq' = z
      BY <2>3, <3>1 DEF f, PrefetchMerge, z
    <3> QED
      BY <1>3, <3>5, <3>6
  <2> QED
    BY <1>1, <2>1, <2>2, <2>3 DEF p
<1>7. Quiet'
  BY <1>1, <1>2, <1>6 DEF Quiet, RqQuiet, PqQuiet, WqQuiet, MshrQuiet
<1>8. Located(rq', mshr', processed', rob', F)
  BY <1>1, <1>2, <1>6 DEF Located
<1> QED
  BY <1>7, <1>8

LEMMA DramReturnWakes ==
  ASSUME TypeOK, Quiet, NEW F, Located(rq, mshr, processed, rob, F),
         NEW a \in Addr, DramReturn(a)
  PROVE  Quiet' /\ \E G : Located(rq', mshr', processed', rob', G)
<1>1. PICK p \in dramRq : mshr' = ReturnData(mshr, Upper[Dram][p.port], a)
  BY DEF DramReturn
<1>2. Upper[Dram][p.port] \in Caches /\ mshr \in MshrType
  BY UpperType DEF TypeOK, Packet, MshrType
<1>3. MshrAt(mshr', F)
  BY <1>1, <1>2, ReturnDataAt DEF Located
<1>4. MshrQuiet(mshr')
  BY <1>1, <1>2, ReturnDataQuiet DEF Quiet
<1>5. Quiet'
  BY <1>4 DEF DramReturn, Quiet, RqQuiet, PqQuiet, WqQuiet, MshrQuiet
<1>6. Located(rq', mshr', processed', rob', F)
  BY <1>3 DEF DramReturn, Located, coreVars
<1> QED
  BY <1>5, <1>6

LEMMA PrefetchLineWakes ==
  ASSUME TypeOK, Quiet, NEW F, Located(rq, mshr, processed, rob, F),
         NEW r \in Prefetches, NEW word, PrefetchLine(r.cache, r.addr, r.fl, word)
  PROVE  Quiet' /\ \E G : Located(rq', mshr', processed', rob', G)
<1> DEFINE p == [addr |-> r.addr, type |-> "PREFETCH", fl |-> r.fl,
                 port |-> PortOf[r.cache], deps |-> {}]
<1>1. r.cache \in Caches /\ r.addr \in Addr /\ r.fl \in {1, 2, 4}
  BY InputAssumption
<1>2. PortOf[r.cache] \in Ports
  BY <1>1, HierarchyAssumption
<1>3. p \in Packet /\ p \in Fetches
  BY <1>1, <1>2 DEF Packet, Types, Levels, Fetches
<1>4. AddPq(mshr, pq, r.cache, p, word)
  BY DEF PrefetchLine
<1> HIDE DEF p
<1>5. mshr \in MshrType /\ pq \in QueueType
  BY DEF TypeOK, MshrType, QueueType
<1>6. MshrAt(mshr', F)
  BY <1>1, <1>3, <1>4, <1>5, AddPqAt DEF Located
<1>7. PqQuiet(pq') /\ MshrQuiet(mshr')
  BY <1>1, <1>3, <1>4, <1>5, AddPqQuiet DEF Quiet
<1>8. Quiet'
  BY <1>7 DEF PrefetchLine, Quiet, RqQuiet, PqQuiet, WqQuiet, MshrQuiet
<1>9. Located(rq', mshr', processed', rob', F)
  BY <1>6 DEF PrefetchLine, Located, coreVars
<1> QED
  BY <1>8, <1>9

\* A read is forwarded from the write queue of an L1D only: nothing is written
\* to the other caches a core reads.
LEMMA ForwardsFromL1D ==
  ASSUME WqQuiet(wq), NEW l \in Caches, Kind[l] \in CoreKinds, NEW a, NEW word,
         WqMatch(l, a, word)
  PROVE  Kind[l] = "L1D"
<1>1. wq[l] \in Seq(Writes(l))
  BY DEF WqQuiet
<1>2. PICK i \in DOMAIN wq[l] : wq[l][i].addr = a
  BY DEF WqMatch, Queued
<1>3. wq[l][i] \in Writes(l)
  BY <1>1, <1>2, ElementOfSeq, LenProperties
<1> QED
  BY <1>3 DEF Writes, CoreKinds

\* A free slot waits nowhere; its access puts it in one place.
LEMMA IssueWakes ==
  ASSUME TypeOK, ProcessedHasRoom, Quiet, NEW F, Located(rq, mshr, processed, rob, F),
         NEW s \in Slots, NEW d \in Demands, NEW word, Issue(s, d, word)
  PROVE  Quiet' /\ \E G : Located(rq', mshr', processed', rob', G)
<1> DEFINE l == d.cache
           p == [addr |-> d.addr, type |-> d.type, fl |-> FillLevel[d.cache],
                 port |-> PortOf[d.cache], deps |-> {s}]
<1>1. l \in Caches /\ d.addr \in Addr /\ d.type \in {"LOAD", "RFO"} /\ Kind[l] \in CoreKinds
  BY InputAssumption, WiringAssumption DEF CoreKinds
<1>2. PortOf[l] \in Ports /\ FillLevel[l] \in {1, 2, 4}
  BY <1>1, HierarchyAssumption
<1>3. p \in Packet /\ p.deps = {s} /\ p \in Reads(l) /\ p.addr = d.addr
  <2>1. p \in Packet
    BY <1>1, <1>2 DEF Packet, Types, Levels
  <2> QED
    BY <1>1, <2>1 DEF Reads
<1>4. /\ AddRq(mshr, rq, l, p, word)
      /\ WqMatch(l, d.addr, word) \/ Queued(rq[l], d.addr) \/ Len(rq[l]) < RqSize[l]
      /\ rob[s] = "free" /\ rob' = [rob EXCEPT ![s] = "waiting"]
      /\ wq' = wq /\ pq' = pq
  BY DEF Issue
<1> HIDE DEF p, l
<1>5. /\ mshr \in MshrType /\ rq \in QueueType
      /\ F \in [Slots -> Places] /\ RqAt(rq, F) /\ MshrAt(mshr, F)
      /\ ProcessedAt(processed, F) /\ RobAt(rob, F)
      /\ RqQuiet(rq) /\ WqQuiet(wq) /\ PqQuiet(pq) /\ MshrQuiet(mshr)
  BY DEF TypeOK, MshrType, QueueType, Located, Quiet
<1>6. F[s] = Nowhere
  BY <1>4, <1>5 DEF RobAt
<1>7. NotIn(F, {s}, "rq") /\ NotIn(F, {s}, "mshr") /\ NotIn(F, {s}, "processed")
  BY <1>6, PlaceType DEF NotIn
<1>8. RqQuiet(rq') /\ MshrQuiet(mshr')
  BY <1>1, <1>3, <1>4, <1>5, AddRqQuiet
<1>9. Quiet'
  BY <1>4, <1>5, <1>8 DEF Quiet, RqQuiet, PqQuiet, WqQuiet, MshrQuiet
<1>10. \A y : y # Nowhere => RobAt(rob', Moved(F, {s}, y))
  BY <1>4, <1>5 DEF RobAt, Moved, TypeOK
<1>11. CASE WqMatch(l, d.addr, word)
  <2> DEFINE y == <<l, "processed">>
             G == Moved(F, {s}, y)
  <2>1. y \in Places /\ y # Nowhere /\ \A c \in Caches : y # <<c, "rq">> /\ y # <<c, "mshr">>
    BY <1>1, PlaceType
  <2>2. RqAt(rq, G) /\ MshrAt(mshr, G) /\ RobAt(rob', G) /\ G \in [Slots -> Places]
    BY <1>5, <1>7, <1>10, <2>1, RqElsewhere, MshrElsewhereAt, MovedType
  <2>3. ProcessedAt(PushProcessed(l, {s}), G)
    BY <1>1, <1>5, <1>7, PushAt
  <2> HIDE DEF G, y
  <2>4. MshrAt(Answer(mshr, l, p), G)
    BY <1>1, <1>3, <1>5, <2>2, AnswerAt DEF Packet
  <2>5. Kind[l] = "L1D"
    BY <1>1, <1>5, <1>11, ForwardsFromL1D
  <2>6. rq' = rq /\ mshr' = Answer(mshr, l, p) /\ processed' = PushProcessed(l, {s})
    BY <1>3, <1>4, <1>11, <2>5 DEF AddRq
  <2>7. Located(rq', mshr', processed', rob', G)
    BY <2>2, <2>3, <2>4, <2>6 DEF Located
  <2> QED
    BY <1>9, <2>7
<1>12. CASE ~WqMatch(l, d.addr, word)
  <2> DEFINE y == <<l, "rq">>
             G == Moved(F, {s}, y)
  <2>1. /\ y \in Places /\ y # Nowhere
        /\ \A c \in Caches : y # <<c, "mshr">> /\ y # <<c, "processed">>
    BY <1>1, PlaceType
  <2>2. MshrAt(mshr, G) /\ ProcessedAt(processed, G) /\ RobAt(rob', G) /\ G \in [Slots -> Places]
    BY <1>5, <1>7, <1>10, <2>1, MshrElsewhereAt, ProcessedElsewhere, MovedType
  <2>3. mshr' = mshr /\ processed' = processed
    BY <1>3, <1>4, <1>12 DEF AddRq
  <2>4. RqAt(rq', G)
    <3>1. CASE Queued(rq[l], p.addr)
      <4>1. RqAt(MergeRead(rq, l, p), Moved(F, p.deps, <<l, "rq">>))
        BY <1>1, <1>3, <1>5, <1>7, <3>1, RqMergeAt
      <4> QED
        BY <1>3, <1>4, <1>12, <3>1, <4>1 DEF AddRq
    <3>2. CASE ~Queued(rq[l], p.addr)
      <4>1. RqAt([rq EXCEPT ![l] = Append(@, p)], Moved(F, p.deps, <<l, "rq">>))
        BY <1>1, <1>3, <1>5, <1>7, <3>2, RqAppendAt
      <4>2. Len(rq[l]) # RqSize[l]
        <5>1. rq[l] \in Seq(Packet)
          BY <1>1, <1>5 DEF QueueType
        <5>2. Len(rq[l]) \in Nat /\ RqSize[l] \in Nat /\ Len(rq[l]) < RqSize[l]
          BY <1>1, <1>3, <1>4, <1>12, <3>2, <5>1, LenProperties, SizeAssumption
        <5> QED
          BY <5>2
      <4>3. rq' = [rq EXCEPT ![l] = Append(@, p)]
        BY <1>3, <1>4, <1>12, <3>2, <4>2 DEF AddRq
      <4> QED
        BY <1>3, <4>1, <4>3
    <3> QED
      BY <3>1, <3>2
  <2> HIDE DEF G
  <2>5. Located(rq', mshr', processed', rob', G)
    BY <2>2, <2>3, <2>4 DEF Located
  <2> QED
    BY <1>9, <2>5
<1> QED
  BY <1>11, <1>12

LEMMA WokenPopAt ==
  ASSUME processed \in [Caches -> Seq(SUBSET Slots)], NEW c \in Caches, processed[c] # <<>>,
         NEW F, ProcessedAt(processed, F), NEW y, \A d \in Caches : y # <<d, "processed">>
  PROVE  /\ ProcessedAt(Pop(processed, c), Moved(F, Head(processed[c]), y))
         /\ \A t \in Head(processed[c]) : F[t] = <<c, "processed">>
<1> DEFINE D == Head(processed[c])
<1>1. processed[c] \in Seq(SUBSET Slots) /\ D \in SUBSET Slots
  BY HeadTailProperties
<1>2. WokenAt(processed[c], <<c, "processed">>, F) /\ y # <<c, "processed">>
  BY DEF ProcessedAt
<1>3. WokenAt(Tail(processed[c]), <<c, "processed">>, Moved(F, D, y))
  BY <1>1, <1>2, WokenTailAt
<1>4. \A t \in D : F[t] = <<c, "processed">>
  <2>1. \A t \in Slots : t \in D => F[t] = <<c, "processed">>
    BY <1>1, <1>2, WokenHeadAt
  <2> QED
    BY <1>1, <2>1
<1>5. ASSUME NEW d \in Caches, d # c
      PROVE  WokenAt(processed[d], <<d, "processed">>, Moved(F, D, y))
  <2>1. \A t \in D : F[t] # <<d, "processed">>
    BY <1>4, <1>5
  <2> HIDE DEF D
  <2> QED
    BY <1>5, <2>1, WokenElsewhere DEF ProcessedAt
<1>6. /\ Pop(processed, c)[c] = Tail(processed[c])
      /\ \A d \in Caches : d # c => Pop(processed, c)[d] = processed[d]
  BY DEF Pop
<1> HIDE DEF D
<1>7. ProcessedAt(Pop(processed, c), Moved(F, D, y))
  BY <1>3, <1>5, <1>6 DEF ProcessedAt
<1> QED
  BY <1>4, <1>7 DEF D

\* The core wakes the instructions of the oldest element.
LEMMA CompleteFetchWakes ==
  ASSUME TypeOK, Quiet, NEW F, Located(rq, mshr, processed, rob, F),
         NEW c \in Caches, CompleteFetch(c)
  PROVE  Quiet' /\ \E G : Located(rq', mshr', processed', rob', G)
<1> DEFINE D == Head(processed[c])
           G == Moved(F, D, Nowhere)
<1>1. processed \in [Caches -> Seq(SUBSET Slots)] /\ processed[c] # <<>>
  BY DEF TypeOK, CompleteFetch
<1>2. /\ F \in [Slots -> Places] /\ RqAt(rq, F) /\ MshrAt(mshr, F)
      /\ ProcessedAt(processed, F) /\ RobAt(rob, F)
  BY DEF Located
<1>3. /\ Nowhere \in Places
      /\ \A d \in Caches : /\ Nowhere # <<d, "rq">> /\ Nowhere # <<d, "mshr">>
                           /\ Nowhere # <<d, "processed">>
  BY PlaceType DEF Places
<1>4. ProcessedAt(Pop(processed, c), G) /\ \A t \in D : F[t] = <<c, "processed">>
  BY <1>1, <1>2, <1>3, WokenPopAt
<1>5. NotIn(F, D, "rq") /\ NotIn(F, D, "mshr")
  <2>1. \A d \in Caches : <<c, "processed">> # <<d, "rq">> /\ <<c, "processed">> # <<d, "mshr">>
    OBVIOUS
  <2> QED
    BY <1>4, <2>1 DEF NotIn
<1>6. RqAt(rq, G) /\ MshrAt(mshr, G) /\ G \in [Slots -> Places]
  BY <1>2, <1>3, <1>5, RqElsewhere, MshrElsewhereAt, MovedType
<1>7. RobAt(rob', G)
  <2>1. rob' = [t \in Slots |-> IF t \in D THEN "done" ELSE rob[t]]
    BY DEF CompleteFetch
  <2> HIDE DEF D
  <2> QED
    BY <1>2, <2>1 DEF RobAt, Moved
<1> HIDE DEF G, D
<1>8. Quiet'
  BY DEF CompleteFetch, Quiet, RqQuiet, PqQuiet, WqQuiet, MshrQuiet
<1>9. Located(rq', mshr', processed', rob', G)
  BY <1>4, <1>6, <1>7 DEF CompleteFetch, Located
<1> QED
  BY <1>8, <1>9

\* A slot that retires waits for nothing.
LEMMA RetireSlotWakes ==
  ASSUME TypeOK, Quiet, NEW F, Located(rq, mshr, processed, rob, F),
         NEW cpu \in Cpus, RetireSlot(cpu), WqQuiet(wq')
  PROVE  Quiet' /\ \E G : Located(rq', mshr', processed', rob', G)
<1> DEFINE s == <<cpu, robHead[cpu]>>
<1>1. s \in Slots /\ rob \in [Slots -> {"free", "waiting", "done"}]
  BY DEF TypeOK, Slots
<1>2. rob[s] = "done" /\ rob' = [rob EXCEPT ![s] = "free"]
  BY DEF RetireSlot
<1> HIDE DEF s
<1>3. RobAt(rob', F)
  BY <1>1, <1>2 DEF Located, RobAt
<1>4. Quiet'
  BY DEF RetireSlot, Quiet, RqQuiet, PqQuiet, WqQuiet, MshrQuiet
<1>5. Located(rq', mshr', processed', rob', F)
  BY <1>3 DEF RetireSlot, Located
<1> QED
  BY <1>4, <1>5

LEMMA RetireStoreWakes ==
  ASSUME TypeOK, Quiet, NEW F, Located(rq, mshr, processed, rob, F),
         NEW cpu \in Cpus, NEW st \in Stores, NEW word, RetireStore(cpu, st, word)
  PROVE  Quiet' /\ \E G : Located(rq', mshr', processed', rob', G)
<1> DEFINE p == [addr |-> st.addr, type |-> "RFO", fl |-> FillLevel[st.cache],
                 port |-> PortOf[st.cache], deps |-> {}]
<1>1. st.cache \in Caches /\ st.addr \in Addr /\ Kind[st.cache] = "L1D"
  BY InputAssumption, WiringAssumption
<1>2. PortOf[st.cache] \in Ports /\ FillLevel[st.cache] \in {1, 2, 4}
  BY <1>1, HierarchyAssumption
<1>3. p \in Packet
  BY <1>1, <1>2 DEF Packet, Types, Levels
<1>4. p \in Writes(st.cache)
  BY <1>1, <1>3 DEF Writes
<1>5. wq' = AddWq(wq, st.cache, p, word)
  BY DEF RetireStore
<1> HIDE DEF p
<1>6. WqQuiet(wq')
  BY <1>1, <1>4, <1>5, AddWqQuiet DEF Quiet, TypeOK, QueueType
<1> QED
  BY <1>6, RetireSlotWakes DEF RetireStore
-----------------------------------------------------------------------------
Wakeups == Quiet /\ \E F : Located(rq, mshr, processed, rob, F)

LEMMA WakeupsInit == Init => Wakeups
<1> SUFFICES ASSUME Init PROVE Wakeups
  OBVIOUS
<1> DEFINE F == [s \in Slots |-> Nowhere]
<1>1. \A c \in Caches, k \in {"rq", "mshr", "processed"} : Nowhere # <<c, k>>
  BY PlaceType
<1>2. F \in [Slots -> Places] /\ \A s \in Slots : F[s] = Nowhere
  BY DEF Places
<1> HIDE DEF F
<1>3. /\ \A c \in Caches : rq[c] = <<>> /\ mshr[c] = {} /\ processed[c] = <<>>
      /\ DOMAIN <<>> = {}
  BY DEF Init
<1>4. RqAt(rq, F)
  BY <1>3, <1>1, <1>2 DEF RqAt, PacketsAt
<1>5. MshrAt(mshr, F)
  BY <1>3, <1>1, <1>2 DEF MshrAt, EntriesAt
<1>6. ProcessedAt(processed, F)
  BY <1>3, <1>1, <1>2 DEF ProcessedAt, WokenAt
<1>7. RobAt(rob, F)
  BY <1>2 DEF Init, RobAt
<1>8. Located(rq, mshr, processed, rob, F)
  BY <1>2, <1>4, <1>5, <1>6, <1>7 DEF Located
<1>9. Quiet
  <2>1. \A S : <<>> \in Seq(S)
    OBVIOUS
  <2> QED
    BY <2>1 DEF Init, Quiet, RqQuiet, WqQuiet, PqQuiet, MshrQuiet
<1> QED
  BY <1>8, <1>9 DEF Wakeups

LEMMA WakeupsNext ==
  ASSUME TypeOK, ProcessedHasRoom, Wakeups, [Next]_vars
  PROVE  Wakeups'
<1>1. PICK F : Located(rq, mshr, processed, rob, F)
  BY DEF Wakeups
<1>2. Quiet
  BY DEF Wakeups
<1>3. ASSUME NEW c \in Caches, CacheStep(c)
      PROVE  Quiet' /\ \E G : Located(rq', mshr', processed', rob', G)
  BY <1>1, <1>2, <1>3, HandleFillWakes, HandleWritebackWakes, HandleReadWakes,
     HandlePrefetchWakes DEF CacheStep
<1>4. ASSUME CoreStep
      PROVE  Quiet' /\ \E G : Located(rq', mshr', processed', rob', G)
  <2>1. ASSUME NEW cpu \in Cpus, Retire(cpu)
        PROVE  Quiet' /\ \E G : Located(rq', mshr', processed', rob', G)
    <3>1. WqQuiet(wq')
      BY <1>2, <2>1 DEF Retire, Quiet
    <3> QED
      BY <1>1, <1>2, <2>1, <3>1, RetireSlotWakes DEF Retire
  <2>2. ASSUME NEW r \in Prefetches, NEW word \in BOOLEAN,
               PrefetchLine(r.cache, r.addr, r.fl, word)
        PROVE  Quiet' /\ \E G : Located(rq', mshr', processed', rob', G)
    BY <1>1, <1>2, <2>2, PrefetchLineWakes
  <2> QED
    BY <1>1, <1>2, <1>4, <2>1, <2>2, IssueWakes, CompleteFetchWakes, RetireStoreWakes
       DEF CoreStep
<1>5. ASSUME DramStep \/ UNCHANGED vars
      PROVE  Quiet' /\ \E G : Located(rq', mshr', processed', rob', G)
  <2>1. CASE \E a \in Addr : DramReturn(a)
    BY <1>1, <1>2, <2>1, DramReturnWakes
  <2>2. CASE \/ \E a \in Addr : DramWrite(a)
             \/ WarmupComplete \/ UNCHANGED vars
    <3>1. /\ rq' = rq /\ wq' = wq /\ pq' = pq /\ mshr' = mshr /\ processed' = processed
          /\ rob' = rob
      BY <2>2 DEF DramWrite, WarmupComplete, vars, coreVars
    <3>2. Quiet'
      BY <1>2, <3>1 DEF Quiet, RqQuiet, PqQuiet, WqQuiet, MshrQuiet
    <3> QED
      BY <1>1, <3>1, <3>2
  <2> QED
    BY <1>5, <2>1, <2>2 DEF DramStep
<1>6. Quiet' /\ \E G : Located(rq', mshr', processed', rob', G)
  BY <1>3, <1>4, <1>5 DEF Next
<1> QED
  BY <1>6 DEF Wakeups, Located, RqAt, MshrAt, ProcessedAt, RobAt, PacketsAt, EntriesAt, WokenAt

\* The place of a slot is the only one where it is found.
LEMMA PlacesOf ==
  ASSUME NEW s \in Slots, NEW x
  PROVE  x \in WakeupPlaces(s) <=>
           \E c \in Caches :
             \/ \E i \in DOMAIN rq[c] : s \in rq[c][i].deps /\ x = <<c, "rq", i>>
             \/ \E e \in mshr[c] : s \in e.deps /\ x = <<c, "mshr", e>>
             \/ \E i \in DOMAIN processed[c] :
                  s \in processed[c][i] /\ x = <<c, "processed", i>>
BY DEF WakeupPlaces

LEMMA OnePlace ==
  ASSUME NEW s \in Slots, NEW F, Located(rq, mshr, processed, rob, F)
  PROVE  Cardinality(WakeupPlaces(s)) = IF rob[s] = "waiting" THEN 1 ELSE 0
<1>1. /\ F[s] \in Places
      /\ rob[s] = "waiting" <=> F[s] # Nowhere
  BY DEF Located, RobAt
<1>2. ASSUME NEW c \in Caches
      PROVE  /\ (\E i \in DOMAIN rq[c] : s \in rq[c][i].deps) <=> F[s] = <<c, "rq">>
             /\ (\E e \in mshr[c] : s \in e.deps) <=> F[s] = <<c, "mshr">>
             /\ (\E i \in DOMAIN processed[c] : s \in processed[c][i]) <=>
                  F[s] = <<c, "processed">>
  BY DEF Located, RqAt, MshrAt, ProcessedAt, PacketsAt, EntriesAt, WokenAt
<1>3. CASE F[s] = Nowhere
  <2>1. \A c \in Caches, k \in {"rq", "mshr", "processed"} : F[s] # <<c, k>>
    BY <1>3, PlaceType
  <2>2. WakeupPlaces(s) = {}
    <3>1. \A x : x \notin WakeupPlaces(s)
      BY <1>2, <2>1, PlacesOf
    <3> QED
      BY <3>1
  <2> QED
    BY <1>1, <1>3, <2>2, FS_EmptySet
<1>4. CASE F[s] # Nowhere
  <2>1. PICK c \in Caches, k \in {"rq", "mshr", "processed"} : F[s] = <<c, k>>
    BY <1>1, <1>4 DEF Places
  <2>2. \E x : WakeupPlaces(s) = {x}
    <3>1. CASE k = "rq"
      <4>1. PICK i \in DOMAIN rq[c] : s \in rq[c][i].deps
        BY <1>2, <2>1, <3>1
      <4>2. \A j \in DOMAIN rq[c] : s \in rq[c][j].deps => j = i
        BY <4>1 DEF Located, RqAt, PacketsAt
      <4>3. \A x : x \in WakeupPlaces(s) <=> x = <<c, "rq", i>>
        BY <1>2, <2>1, <3>1, <4>1, <4>2, PlacesOf
      <4>4. WakeupPlaces(s) = {<<c, "rq", i>>}
        BY <4>3
      <4> QED
        BY <4>4
    <3>2. CASE k = "mshr"
      <4>1. PICK e \in mshr[c] : s \in e.deps
        BY <1>2, <2>1, <3>2
      <4>2. \A f \in mshr[c] : s \in f.deps => f = e
        BY <4>1 DEF Located, MshrAt, EntriesAt
      <4>3. \A x : x \in WakeupPlaces(s) <=> x = <<c, "mshr", e>>
        BY <1>2, <2>1, <3>2, <4>1, <4>2, PlacesOf
      <4>4. WakeupPlaces(s) = {<<c, "mshr", e>>}
        BY <4>3
      <4> QED
        BY <4>4
    <3>3. CASE k = "processed"
      <4>1. PICK i \in DOMAIN processed[c] : s \in processed[c][i]
        BY <1>2, <2>1, <3>3
      <4>2. \A j \in DOMAIN processed[c] : s \in processed[c][j] => j = i
        BY <4>1 DEF Located, ProcessedAt, WokenAt
      <4>3. \A x : x \in WakeupPlaces(s) <=> x = <<c, "processed", i>>
        BY <1>2, <2>1, <3>3, <4>1, <4>2, PlacesOf
      <4>4. WakeupPlaces(s) = {<<c, "processed", i>>}
        BY <4>3
      <4> QED
        BY <4>4
    <3> QED
      BY <3>1, <3>2, <3>3
  <2> QED
    BY <1>1, <1>4, <2>2, FS_Singleton
<1> QED
  BY <1>3, <1>4

\* While the core keeps room in the PROCESSED queues, which it drains every
\* cycle, each waiting instruction is found in exactly one place of the
\* hierarchy and every other instruction in none: merging in a read queue or an
\* MSHR entry, replacing a prefetch entry by a demand, forwarding from a write
\* queue and filling neither lose a wake-up nor duplicate one.
THEOREM WakeupsAreKept == Spec /\ []ProcessedHasRoom => []NoLostWakeup
<1>1. Init => TypeOK /\ Wakeups
  BY TypeInit, WakeupsInit
<1>2. ProcessedHasRoom /\ (TypeOK /\ Wakeups) /\ [Next]_vars => (TypeOK /\ Wakeups)'
  BY TypeNext, WakeupsNext
<1>3. Wakeups => NoLostWakeup
  BY OnePlace DEF Wakeups, NoLostWakeup
<1> QED
  BY <1>1, <1>2, <1>3, PTL DEF Spec

-----------------------------------------------------------------------------
(* No store is lost between the L1D and DRAM.  Where a modified block may   *)
(* be, of queues and files that need not yet be those of the state.        *)

InQueue(q, a) == \E c \in Caches : Queued(q[c], a)
RfoIn(m, a) ==
  \E c \in Caches : Kind[c] = "L1D" /\ \E e \in m[c] : e.addr = a /\ e.type = "RFO"
DirtyIn(b, a) == \E c \in Caches : \E w \in Ways(c) : b[c][w].addr = a /\ b[c][w].dirty
Held(b, m, q, d, a) == InQueue(q, a) \/ RfoIn(m, a) \/ DirtyIn(b, a) \/ a \in d

\* Write queues of the L1Ds hold stores, all others write-backs: a packet in
\* any of them stands for a modified block.
LEMMA ModifiedIsHeld ==
  ASSUME NEW a
  PROVE  /\ Modified(a) <=> Held(block, mshr, wq, dramWq, a)
         /\ Modified(a)' <=> Held(block', mshr', wq', dramWq', a)
<1>1. Modified(a) <=> Held(block, mshr, wq, dramWq, a)
  BY DEF Modified, RfoPending, Dirty, WritebackPending, Held, InQueue, RfoIn, DirtyIn
<1>2. Modified(a)' <=> Held(block', mshr', wq', dramWq', a)
  BY DEF Modified, RfoPending, Dirty, WritebackPending, Held, InQueue, RfoIn, DirtyIn,
         Queued, Ways
<1> QED
  BY <1>1, <1>2

(* What the queues and files may hold.  ModifiedUntilWritten needs that no   *)
(* write-back reaches an L1D, whose write queue would take it for a store    *)
(* and allocate an entry of its type, and that the TLBs, which have no level *)
(* to write to, hold nothing dirty.                                          *)
EntriesRead(m) == \A c \in Caches : \A e \in m[c] : e.type # "WRITEBACK"
PacketsRead(q) == \A c \in Caches : \A i \in DOMAIN q[c] : q[c][i].type # "WRITEBACK"
WritesPlaced(q) ==
  /\ \A c \in Caches : Kind[c] = "L1D" => \A i \in DOMAIN q[c] : q[c][i].type = "RFO"
  /\ \A c \in Tlbs : q[c] = <<>>
TlbsClean(b) == \A c \in Tlbs : \A w \in Ways(c) : ~b[c][w].dirty

Placed ==
  EntriesRead(mshr) /\ PacketsRead(rq) /\ PacketsRead(pq) /\ WritesPlaced(wq)
  /\ TlbsClean(block)

\* The RFOs recorded in one MSHR file are recorded in another.
Keeps(m, n) == \A a \in Addr : RfoIn(m, a) => RfoIn(n, a)

-----------------------------------------------------------------------------
(* MSHR files.                                                             *)

LEMMA ReturnDataKeeps ==
  ASSUME NEW m \in MshrType, NEW u \in Caches, NEW a
  PROVE  /\ Keeps(m, ReturnData(m, u, a))
         /\ EntriesRead(m) => EntriesRead(ReturnData(m, u, a))
<1> DEFINE R(e) == IF e.addr = a THEN [e EXCEPT !.returned = TRUE] ELSE e
<1>1. \A e \in Entry : R(e).addr = e.addr /\ R(e).type = e.type
  BY DEF Entry
<1>2. \A c \in Caches : m[c] \subseteq Entry
  BY DEF MshrType
<1>3. \A c \in Caches : ReturnData(m, u, a)[c] = IF c = u THEN {R(e) : e \in m[u]} ELSE m[c]
  BY DEF ReturnData, MshrType
<1> HIDE DEF R
<1> DEFINE n == ReturnData(m, u, a)
<1>4. ASSUME NEW c \in Caches, NEW e \in m[c]
      PROVE  \E f \in n[c] : f.addr = e.addr /\ f.type = e.type
  <2>1. R(e) \in n[c] \/ e \in n[c]
    BY <1>3
  <2> QED
    BY <1>1, <1>2, <2>1
<1>5. ASSUME NEW c \in Caches, NEW f \in n[c]
      PROVE  \E e \in m[c] : f.addr = e.addr /\ f.type = e.type
  <2>1. \E e \in m[c] : f = R(e) \/ f = e
    BY <1>3
  <2> QED
    BY <1>1, <1>2, <2>1
<1> HIDE DEF n
<1>6. Keeps(m, n)
  BY <1>4 DEF Keeps, RfoIn
<1>7. EntriesRead(m) => EntriesRead(n)
  BY <1>5 DEF EntriesRead
<1> QED
  BY <1>6, <1>7 DEF n

LEMMA AnswerKeeps ==
  ASSUME NEW m \in MshrType, NEW c \in Caches, NEW p, p.port \in Ports
  PROVE  Keeps(m, Answer(m, c, p)) /\ (EntriesRead(m) => EntriesRead(Answer(m, c, p)))
<1>1. Keeps(m, m)
  BY DEF Keeps
<1> QED
  BY <1>1, UpperType, ReturnDataKeeps DEF Answer

\* A new entry for the packet p.
WithEntry(c, p, r) == [mshr EXCEPT ![c] = @ \cup {NewEntry(p, r)}]

LEMMA AllocateKeeps ==
  ASSUME TypeOK, EntriesRead(mshr), NEW c \in Caches, NEW p \in Packet, NEW r \in BOOLEAN,
         p.type # "WRITEBACK"
  PROVE  /\ WithEntry(c, p, r) \in MshrType
         /\ Keeps(mshr, WithEntry(c, p, r)) /\ EntriesRead(WithEntry(c, p, r))
         /\ Kind[c] = "L1D" /\ p.type = "RFO" => RfoIn(WithEntry(c, p, r), p.addr)
<1> DEFINE e == NewEntry(p, r)
           m == WithEntry(c, p, r)
<1>1. e.type = p.type /\ e.addr = p.addr
  BY DEF NewEntry
<1>2. \A d \in Caches : m[d] = IF d = c THEN mshr[c] \cup {e} ELSE mshr[d]
  BY DEF WithEntry, TypeOK
<1>3. m \in MshrType
  BY AllocateType DEF WithEntry, TypeOK, MshrType
<1> HIDE DEF e, m
<1>4. Keeps(mshr, m)
  BY <1>2 DEF Keeps, RfoIn
<1>5. EntriesRead(m)
  BY <1>1, <1>2 DEF EntriesRead
<1>6. Kind[c] = "L1D" /\ p.type = "RFO" => RfoIn(m, p.addr)
  BY <1>1, <1>2 DEF RfoIn
<1> QED
  BY <1>3, <1>4, <1>5, <1>6 DEF m

\* A merge that does not turn the entry of an RFO into another keeps it.
LEMMA ReplaceKeeps ==
  ASSUME TypeOK, EntriesRead(mshr), NEW c \in Caches, NEW e \in mshr[c], NEW f \in Entry,
         f.addr = e.addr, f.type # "WRITEBACK",
         Kind[c] = "L1D" /\ e.type = "RFO" => f.type = "RFO"
  PROVE  /\ Keeps(mshr, Replace(c, e, f)) /\ EntriesRead(Replace(c, e, f))
         /\ Kind[c] = "L1D" /\ f.type = "RFO" => RfoIn(Replace(c, e, f), e.addr)
<1> DEFINE m == Replace(c, e, f)
<1>1. \A d \in Caches : m[d] = IF d = c THEN (mshr[c] \ {e}) \cup {f} ELSE mshr[d]
  BY DEF Replace, TypeOK
<1> HIDE DEF m
<1>2. Keeps(mshr, m)
  BY <1>1 DEF Keeps, RfoIn
<1>3. EntriesRead(m)
  BY <1>1 DEF EntriesRead
<1>4. Kind[c] = "L1D" /\ f.type = "RFO" => RfoIn(m, e.addr)
  BY <1>1 DEF RfoIn
<1> QED
  BY <1>2, <1>3, <1>4 DEF m

-----------------------------------------------------------------------------
(* Queues.                                                                 *)

\* A packet leaves a queue at its head only.
LEMMA PopQueue ==
  ASSUME NEW q \in QueueType, NEW c \in Caches, q[c] # <<>>
  PROVE  /\ PacketsRead(q) => PacketsRead(Pop(q, c)) /\ Head(q[c]).type # "WRITEBACK"
         /\ WritesPlaced(q) => /\ WritesPlaced(Pop(q, c)) /\ c \notin Tlbs
                               /\ Kind[c] = "L1D" => Head(q[c]).type = "RFO"
         /\ \A a : InQueue(q, a) => InQueue(Pop(q, c), a) \/ Head(q[c]).addr = a
<1> DEFINE s == q[c]
           n == Pop(q, c)
<1>1. \A d \in Caches : n[d] = IF d = c THEN Tail(s) ELSE q[d]
  BY DEF Pop, QueueType
<1>2. s \in Seq(Packet) /\ s # <<>> /\ s = q[c]
  BY DEF QueueType
<1>3. /\ Len(s) \in Nat /\ DOMAIN s = 1..Len(s) /\ Len(Tail(s)) = Len(s) - 1
      /\ DOMAIN Tail(s) = 1..Len(Tail(s))
      /\ \A i \in 1..Len(Tail(s)) : Tail(s)[i] = s[i + 1]
      /\ Head(s) = s[1] /\ 1 \in DOMAIN s
  BY <1>2, HeadTailProperties, LenProperties
<1> HIDE DEF s, n
<1>4. \A i \in DOMAIN Tail(s) : i + 1 \in DOMAIN s /\ Tail(s)[i] = s[i + 1]
  BY <1>3
<1>5. ASSUME NEW i \in DOMAIN s PROVE i = 1 \/ \E j \in DOMAIN Tail(s) : Tail(s)[j] = s[i]
  <2>1. CASE i # 1
    <3>1. i - 1 \in DOMAIN Tail(s) /\ (i - 1) + 1 = i
      BY <1>3, <2>1
    <3> QED
      BY <1>4, <3>1
  <2> QED
    BY <2>1
<1>6. PacketsRead(q) => PacketsRead(n) /\ Head(s).type # "WRITEBACK"
  <2>1. ASSUME PacketsRead(q) PROVE \A i \in DOMAIN s : s[i].type # "WRITEBACK"
    BY <1>2, <2>1 DEF PacketsRead
  <2>2. ASSUME PacketsRead(q), NEW d \in Caches, NEW i \in DOMAIN n[d]
        PROVE  n[d][i].type # "WRITEBACK"
    <3>1. CASE d = c
      <4>1. n[d] = Tail(s)
        BY <1>1, <3>1
      <4> QED
        BY <1>4, <2>1, <2>2, <4>1
    <3>2. CASE d # c
      <4>1. n[d] = q[d]
        BY <1>1, <3>2
      <4> QED
        BY <2>2, <4>1 DEF PacketsRead
    <3> QED
      BY <3>1, <3>2
  <2>3. PacketsRead(q) => Head(s).type # "WRITEBACK"
    BY <1>3, <2>1
  <2> QED
    BY <2>2, <2>3 DEF PacketsRead
<1>7. WritesPlaced(q) =>
        WritesPlaced(n) /\ c \notin Tlbs /\ (Kind[c] = "L1D" => Head(s).type = "RFO")
  <2>1. ASSUME WritesPlaced(q), Kind[c] = "L1D" PROVE \A i \in DOMAIN s : s[i].type = "RFO"
    BY <1>2, <2>1 DEF WritesPlaced
  <2>2. WritesPlaced(q) => c \notin Tlbs
    BY <1>2 DEF WritesPlaced
  <2>3. ASSUME WritesPlaced(q), NEW d \in Caches, Kind[d] = "L1D", NEW i \in DOMAIN n[d]
        PROVE  n[d][i].type = "RFO"
    <3>1. CASE d = c
      <4>1. n[d] = Tail(s)
        BY <1>1, <3>1
      <4> QED
        BY <1>4, <2>1, <2>3, <3>1, <4>1
    <3>2. CASE d # c
      <4>1. n[d] = q[d]
        BY <1>1, <3>2
      <4> QED
        BY <2>3, <4>1 DEF WritesPlaced
    <3> QED
      BY <3>1, <3>2
  <2>4. WritesPlaced(q) => \A d \in Tlbs : n[d] = <<>>
    BY <1>1, <2>2 DEF WritesPlaced, Tlbs
  <2>5. WritesPlaced(q) /\ Kind[c] = "L1D" => Head(s).type = "RFO"
    BY <1>3, <2>1
  <2> QED
    BY <2>2, <2>3, <2>4, <2>5 DEF WritesPlaced
<1>8. ASSUME NEW a, InQueue(q, a) PROVE InQueue(n, a) \/ Head(s).addr = a
  <2>1. PICK d \in Caches : \E i \in DOMAIN q[d] : q[d][i].addr = a
    BY <1>8 DEF InQueue, Queued
  <2>2. CASE d = c
    <3>1. PICK i \in DOMAIN s : s[i].addr = a
      BY <1>2, <2>1, <2>2
    <3>2. CASE i = 1
      BY <1>3, <3>1, <3>2
    <3>3. CASE i # 1
      <4>1. PICK j \in DOMAIN Tail(s) : Tail(s)[j] = s[i]
        BY <1>5, <3>3
      <4>2. n[c] = Tail(s)
        BY <1>1
      <4>3. Queued(n[c], a)
        BY <3>1, <4>1, <4>2 DEF Queued
      <4> QED
        BY <4>3 DEF InQueue
    <3> QED
      BY <3>2, <3>3
  <2>3. CASE d # c
    BY <1>1, <2>1, <2>3 DEF InQueue, Queued
  <2> QED
    BY <2>2, <2>3
<1> QED
  BY <1>2, <1>6, <1>7, <1>8 DEF n

LEMMA AppendQueue ==
  ASSUME NEW q \in QueueType, NEW l \in Caches, NEW p \in Packet
  PROVE  LET n == [q EXCEPT ![l] = Append(@, p)] IN
         /\ PacketsRead(q) /\ p.type # "WRITEBACK" => PacketsRead(n)
         /\ WritesPlaced(q) /\ l \notin Tlbs /\ (Kind[l] = "L1D" => p.type = "RFO")
              => WritesPlaced(n)
         /\ InQueue(n, p.addr)
         /\ \A a : InQueue(q, a) => InQueue(n, a)
<1> DEFINE s == q[l]
           t == Append(s, p)
           n == [q EXCEPT ![l] = Append(@, p)]
<1>1. \A d \in Caches : n[d] = IF d = l THEN t ELSE q[d]
  BY DEF QueueType
<1>2. s \in Seq(Packet)
  BY DEF QueueType
<1>3. /\ t \in Seq(Packet) /\ Len(t) = Len(s) + 1 /\ Len(s) \in Nat
      /\ \A i \in 1..Len(s) : t[i] = s[i]
      /\ t[Len(s) + 1] = p
      /\ DOMAIN s = 1..Len(s)
  BY <1>2, AppendProperties, LenProperties
<1>4. DOMAIN t = 1..Len(s) + 1
  BY <1>3, LenProperties
<1> HIDE DEF s, t, n
<1>5. /\ \A i \in DOMAIN t : t[i] = p \/ (i \in DOMAIN s /\ t[i] = s[i])
      /\ \A i \in DOMAIN s : i \in DOMAIN t /\ t[i] = s[i]
      /\ \E i \in DOMAIN t : t[i] = p
  BY <1>3, <1>4
<1>6. PacketsRead(q) /\ p.type # "WRITEBACK" => PacketsRead(n)
  BY <1>1, <1>5 DEF PacketsRead, s
<1>7. WritesPlaced(q) /\ l \notin Tlbs /\ (Kind[l] = "L1D" => p.type = "RFO")
        => WritesPlaced(n)
  BY <1>1, <1>5 DEF WritesPlaced, Tlbs, s
<1>8. InQueue(n, p.addr)
  BY <1>1, <1>5 DEF InQueue, Queued
<1>9. ASSUME NEW a, InQueue(q, a) PROVE InQueue(n, a)
  BY <1>1, <1>5, <1>9 DEF InQueue, Queued, s
<1> QED
  BY <1>6, <1>7, <1>8, <1>9 DEF n

\* Duplicates rewrite queued packets but not their types.
LEMMA JoinReadKeeps ==
  ASSUME NEW q \in QueueType, PacketsRead(q), NEW l \in Caches, NEW p \in Packet
  PROVE  PacketsRead(MergeRead(q, l, p))
<1>1. \A d \in Caches : MergeRead(q, l, p)[d] = IF d = l THEN JoinRead(q[l], p) ELSE q[d]
  BY DEF MergeRead, QueueType
<1>2. q[l] \in Seq(Packet)
  BY DEF QueueType
<1>3. \A i \in DOMAIN q[l] : q[l][i] \in Packet
  BY <1>2, ElementOfSeq, LenProperties
<1>4. /\ DOMAIN JoinRead(q[l], p) = DOMAIN q[l]
      /\ \A i \in DOMAIN q[l] : JoinRead(q[l], p)[i].type = q[l][i].type
  BY <1>3 DEF JoinRead, Packet
<1> QED
  BY <1>1, <1>4 DEF PacketsRead

LEMMA JoinPrefetchKeeps ==
  ASSUME NEW q \in QueueType, PacketsRead(q), NEW l \in Caches, NEW p \in Packet
  PROVE  PacketsRead([q EXCEPT ![l] = JoinPrefetch(@, p)])
<1> DEFINE n == [q EXCEPT ![l] = JoinPrefetch(@, p)]
<1>1. \A d \in Caches : n[d] = IF d = l THEN JoinPrefetch(q[l], p) ELSE q[d]
  BY DEF QueueType
<1>2. q[l] \in Seq(Packet)
  BY DEF QueueType
<1>3. \A i \in DOMAIN q[l] : q[l][i] \in Packet
  BY <1>2, ElementOfSeq, LenProperties
<1>4. /\ DOMAIN JoinPrefetch(q[l], p) = DOMAIN q[l]
      /\ \A i \in DOMAIN q[l] : JoinPrefetch(q[l], p)[i].type = q[l][i].type
  BY <1>3 DEF JoinPrefetch, Packet
<1> HIDE DEF n
<1>5. PacketsRead(n)
  BY <1>1, <1>4 DEF PacketsRead
<1> QED
  BY <1>5 DEF n

-----------------------------------------------------------------------------
(* Calls between caches.                                                   *)

LEMMA AddRqKeeps ==
  ASSUME NEW m \in MshrType, EntriesRead(m), NEW q \in QueueType, PacketsRead(q),
         NEW l \in Caches, NEW p \in Packet, p.type # "WRITEBACK", NEW word,
         AddRq(m, q, l, p, word)
  PROVE  EntriesRead(mshr') /\ Keeps(m, mshr') /\ PacketsRead(rq')
<1>1. Keeps(m, m)
  BY DEF Keeps
<1>2. Keeps(m, Answer(m, l, p)) /\ EntriesRead(Answer(m, l, p))
  BY AnswerKeeps DEF Packet
<1>3. PacketsRead(MergeRead(q, l, p)) /\ PacketsRead([q EXCEPT ![l] = Append(@, p)])
  BY JoinReadKeeps, AppendQueue
<1> QED
  BY <1>1, <1>2, <1>3 DEF AddRq

LEMMA AddPqKeeps ==
  ASSUME NEW m \in MshrType, EntriesRead(m), NEW q \in QueueType, PacketsRead(q),
         NEW l \in Caches, NEW p \in Packet, p.type # "WRITEBACK", NEW word,
         AddPq(m, q, l, p, word)
  PROVE  EntriesRead(mshr') /\ Keeps(m, mshr') /\ PacketsRead(pq')
<1>1. Keeps(m, m)
  BY DEF Keeps
<1>2. Keeps(m, Answer(m, l, p)) /\ EntriesRead(Answer(m, l, p))
  BY AnswerKeeps DEF Packet
<1>3. /\ PacketsRead([q EXCEPT ![l] = JoinPrefetch(@, p)])
      /\ PacketsRead([q EXCEPT ![l] = Append(@, p)])
  BY JoinPrefetchKeeps, AppendQueue
<1> QED
  BY <1>1, <1>2, <1>3 DEF AddPq

LEMMA DramAddRqKeeps ==
  ASSUME NEW m \in MshrType, EntriesRead(m), NEW p \in Packet, DramAddRq(m, p)
  PROVE  EntriesRead(mshr') /\ Keeps(m, mshr')
<1>1. Keeps(m, m)
  BY DEF Keeps
<1>2. Upper[Dram][p.port] \in Caches
  BY UpperType DEF Packet
<1> QED
  BY <1>1, <1>2, ReturnDataKeeps DEF DramAddRq

\* add_wq: the block is queued afterwards, whether or not it was before.
LEMMA AddWqKeeps ==
  ASSUME NEW q \in QueueType, NEW l \in Caches, NEW p \in Packet, NEW word,
         WritesPlaced(q), l \notin Tlbs, Kind[l] = "L1D" => p.type = "RFO"
  PROVE  /\ WritesPlaced(AddWq(q, l, p, word))
         /\ InQueue(AddWq(q, l, p, word), p.addr)
         /\ \A a : InQueue(q, a) => InQueue(AddWq(q, l, p, word), a)
<1>1. CASE AddWq(q, l, p, word) = q
          /\ \E i \in DOMAIN q[l] : q[l][i].addr = p.addr
  BY <1>1 DEF InQueue, Queued
<1>2. CASE AddWq(q, l, p, word) = [q EXCEPT ![l] = Append(@, p)]
  <2> DEFINE n == [q EXCEPT ![l] = Append(@, p)]
  <2>1. WritesPlaced(n) /\ InQueue(n, p.addr) /\ \A a : InQueue(q, a) => InQueue(n, a)
    BY AppendQueue
  <2> HIDE DEF n
  <2> QED
    BY <1>2, <2>1 DEF n
<1> QED
  BY <1>1, <1>2 DEF AddWq

\* An eviction hands a modified block to the level below, unless DRAM drops it
\* during warm-up; a TLB, with no level below, has none to hand on.
LEMMA EvictKeeps ==
  ASSUME TypeOK, Placed, NEW c \in Caches, NEW w \in Ways(c), NEW q \in QueueType,
         WritesPlaced(q), NEW port \in Ports, Evict(c, w, q, port)
  PROVE  /\ WritesPlaced(wq')
         /\ \A a : InQueue(q, a) => InQueue(wq', a)
         /\ dramWq \subseteq dramWq'
         /\ warm /\ block[c][w].dirty =>
              InQueue(wq', block[c][w].addr) \/ block[c][w].addr \in dramWq'
<1>1. CASE ~block[c][w].dirty \/ Lower[c] = NoLower
  <2>1. ~block[c][w].dirty
    BY <1>1, WiringAssumption DEF Placed, TlbsClean
  <2> QED
    BY <1>1, <2>1 DEF Evict
<1>2. CASE ~(~block[c][w].dirty \/ Lower[c] = NoLower) /\ Lower[c] = Dram
  BY <1>2 DEF Evict
<1>3. CASE ~(~block[c][w].dirty \/ Lower[c] = NoLower) /\ Lower[c] # Dram
  <2> DEFINE p == WritebackPacket(c, block[c][w].addr, port)
             l == Lower[c]
  <2>1. l \in Caches
    BY <1>3, HierarchyAssumption
  <2>2. c \notin Tlbs
    BY <1>3 DEF Placed, TlbsClean
  <2>3. l \notin Tlbs /\ Kind[l] # "L1D"
    BY <2>1, <2>2, WiringAssumption
  <2>4. p \in Packet /\ p.addr = block[c][w].addr
    <3>1. block[c] \in [Ways(c) -> Block]
      BY DEF TypeOK
    <3>2. block[c][w] \in Block /\ block[c][w] # EmptyBlock
      BY <1>3, <3>1 DEF EmptyBlock
    <3>3. FillLevel[c] \in {1, 2, 4}
      BY HierarchyAssumption
    <3>4. block[c][w].addr \in Addr
      BY <3>2 DEF Block
    <3>5. 2 * FillLevel[c] \in Levels
      BY <3>3 DEF Levels
    <3>6. <<port[1], FALSE>> \in Ports
      BY DEF Ports
    <3> QED
      BY <3>4, <3>5, <3>6 DEF WritebackPacket, Packet, Types
  <2>5. wq' = AddWq(q, l, p, TRUE) /\ UNCHANGED dramWq
    BY <1>3 DEF Evict
  <2> HIDE DEF p, l
  <2> QED
    BY <2>1, <2>3, <2>4, <2>5, AddWqKeeps
<1> QED
  BY <1>1, <1>2, <1>3

\* A fill overwrites one way and may leave its block dirty.
LEMMA FillKeeps ==
  ASSUME TypeOK, NEW c \in Caches, NEW w \in Ways(c), NEW a \in Addr,
         NEW dirty \in BOOLEAN, FillCache(c, w, a, dirty)
  PROVE  /\ \A b : DirtyIn(block, b) =>
              DirtyIn(block', b) \/ (block[c][w].dirty /\ block[c][w].addr = b)
         /\ dirty => DirtyIn(block', a)
         /\ TlbsClean(block) /\ (c \in Tlbs => ~dirty) => TlbsClean(block')
<1>1. /\ \A d \in Caches : d # c => block'[d] = block[d]
      /\ \A v \in Ways(c) : v # w => block'[c][v] = block[c][v]
      /\ block'[c][w] = [valid |-> TRUE, addr |-> a, dirty |-> dirty]
  BY DEF FillCache, TypeOK
<1>2. ASSUME NEW b, DirtyIn(block, b)
      PROVE  DirtyIn(block', b) \/ (block[c][w].dirty /\ block[c][w].addr = b)
  <2>1. PICK d \in Caches : \E v \in Ways(d) : block[d][v].addr = b /\ block[d][v].dirty
    BY <1>2 DEF DirtyIn
  <2>2. PICK v \in Ways(d) : block[d][v].addr = b /\ block[d][v].dirty
    BY <2>1
  <2>3. CASE d = c /\ v = w
    BY <2>2, <2>3
  <2>4. CASE ~(d = c /\ v = w)
    <3>1. block'[d][v] = block[d][v]
      BY <1>1, <2>2, <2>4
    <3> QED
      BY <2>2, <3>1 DEF DirtyIn
  <2> QED
    BY <2>3, <2>4
<1>3. dirty => DirtyIn(block', a)
  BY <1>1 DEF DirtyIn
<1>4. TlbsClean(block) /\ (c \in Tlbs => ~dirty) => TlbsClean(block')
  BY <1>1 DEF TlbsClean, Tlbs
<1> QED
  BY <1>2, <1>3, <1>4

-----------------------------------------------------------------------------
(* The actions: each leaves every packet and entry in its place, and every  *)
(* modified block somewhere.                                                *)

NotLost(a) ==
  Held(block, mshr, wq, dramWq, a) =>
    \/ Held(block', mshr', wq', dramWq', a)
    \/ a \in dramWq \/ ~warm \/ RfoJoinsLoad(a)

\* The block of an RFO moves from its entry to a dirty way.
LEMMA HandleFillKeeps ==
  ASSUME TypeOK, Placed, NEW c \in Caches, NEW x \in Addr, HandleFill(c, x)
  PROVE  Placed' /\ \A a \in Addr : NotLost(a)
<1>1. PICK e \in mshr[c], w \in Victims(c) :
        /\ e.addr = x
        /\ Evict(c, w, wq, e.port)
        /\ FillCache(c, w, x, FillsDirty(c, e))
        /\ mshr' = Answer([mshr EXCEPT ![c] = @ \ {e}], c, e)
        /\ UNCHANGED <<rq, pq>>
  BY DEF HandleFill
<1>2. w \in Ways(c) /\ e.port \in Ports /\ wq \in QueueType /\ mshr \in MshrType
  BY DEF Victims, InvalidWays, TypeOK, Entry, QueueType, MshrType
<1> DEFINE m == [mshr EXCEPT ![c] = @ \ {e}]
           dirty == FillsDirty(c, e)
<1>3. m \in MshrType /\ \A d \in Caches : m[d] = IF d = c THEN mshr[c] \ {e} ELSE mshr[d]
  BY <1>2 DEF MshrType
<1>4. dirty \in BOOLEAN /\ (dirty <=> Kind[c] = "L1D" /\ e.type = "RFO")
  BY DEF FillsDirty
<1> HIDE DEF m, dirty
<1>5. mshr' = Answer(m, c, e) /\ FillCache(c, w, x, dirty)
  BY <1>1 DEF m, dirty
<1>6. EntriesRead(m)
  BY <1>3 DEF Placed, EntriesRead
<1>7. Keeps(m, mshr') /\ EntriesRead(mshr')
  BY <1>2, <1>3, <1>5, <1>6, AnswerKeeps
<1>8. \A a : RfoIn(mshr, a) => RfoIn(m, a) \/ (a = x /\ dirty)
  BY <1>1, <1>3, <1>4 DEF RfoIn
<1>9. /\ WritesPlaced(wq')
      /\ \A a : InQueue(wq, a) => InQueue(wq', a)
      /\ dramWq \subseteq dramWq'
      /\ warm /\ block[c][w].dirty =>
           InQueue(wq', block[c][w].addr) \/ block[c][w].addr \in dramWq'
  BY <1>1, <1>2, EvictKeeps DEF Placed
<1>10. /\ \A b : DirtyIn(block, b) =>
            DirtyIn(block', b) \/ (block[c][w].dirty /\ block[c][w].addr = b)
       /\ dirty => DirtyIn(block', x)
       /\ TlbsClean(block) /\ (c \in Tlbs => ~dirty) => TlbsClean(block')
  BY <1>2, <1>4, <1>5, FillKeeps
<1>11. Placed'
  <2>1. c \in Tlbs => ~dirty
    BY <1>4 DEF Tlbs
  <2> QED
    BY <1>1, <1>7, <1>9, <1>10, <2>1 DEF Placed
<1>12. ASSUME NEW a \in Addr, Held(block, mshr, wq, dramWq, a), warm
       PROVE  Held(block', mshr', wq', dramWq', a)
  <2>1. CASE InQueue(wq, a) \/ a \in dramWq
    BY <1>9, <2>1 DEF Held
  <2>2. CASE RfoIn(mshr, a)
    BY <1>7, <1>8, <1>10, <2>2 DEF Held, Keeps
  <2>3. CASE DirtyIn(block, a)
    BY <1>9, <1>10, <1>12, <2>3 DEF Held
  <2> QED
    BY <1>12, <2>1, <2>2, <2>3 DEF Held
<1> QED
  BY <1>11, <1>12 DEF NotLost

\* A write marks its block dirty; when it misses, the L1D allocates an entry of
\* its type and the levels below a way.
LEMMA HandleWritebackKeeps ==
  ASSUME TypeOK, Placed, NEW c \in Caches, HandleWriteback(c)
  PROVE  Placed' /\ \A a \in Addr : NotLost(a)
<1> DEFINE p == Head(wq[c])
           popped == Pop(wq, c)
<1>1. /\ wq[c] # <<>> /\ pq' = pq
      /\ WriteHit(c, p) \/ RfoNewMiss(c, p) \/ RfoMerge(c, p) \/ WriteAllocate(c, p)
  BY DEF HandleWriteback
<1>2. p \in Packet /\ popped \in QueueType /\ popped[c] = Tail(wq[c])
  BY <1>1, PopType DEF TypeOK, QueueType, Pop
<1>3. wq \in QueueType /\ rq \in QueueType /\ mshr \in MshrType
  BY DEF TypeOK, QueueType, MshrType
<1>4. /\ WritesPlaced(popped) /\ c \notin Tlbs /\ (Kind[c] = "L1D" => p.type = "RFO")
      /\ \A a : InQueue(wq, a) => InQueue(popped, a) \/ p.addr = a
  BY <1>1, <1>3, PopQueue DEF Placed
<1>5. p.addr \in Addr /\ p.port \in Ports
  BY <1>2 DEF Packet
<1>6. Keeps(mshr, Answer(mshr, c, p)) /\ EntriesRead(Answer(mshr, c, p))
  BY <1>3, <1>5, AnswerKeeps DEF Placed
<1>7. CASE WriteHit(c, p)
  <2> DEFINE w == HitWay(c, p.addr)
  <2>1. w \in Ways(c) /\ block[c][w].addr = p.addr
    BY <1>7, HitWayFound DEF WriteHit
  <2>2. /\ block' = [block EXCEPT ![c][w].dirty = TRUE] /\ wq' = popped
        /\ mshr' = Answer(mshr, c, p) /\ UNCHANGED <<rq, dramWq>>
    BY <1>7 DEF WriteHit, dramVars
  <2> HIDE DEF w, p, popped
  <2>3. /\ \A d \in Caches : d # c => block'[d] = block[d]
        /\ \A v \in Ways(c) : v # w => block'[c][v] = block[c][v]
        /\ block'[c][w] = [block[c][w] EXCEPT !.dirty = TRUE]
    BY <2>1, <2>2 DEF TypeOK
  <2>4. block'[c][w].dirty /\ block'[c][w].addr = block[c][w].addr
    <3>1. block[c][w] \in Block
      BY <2>1 DEF TypeOK
    <3> QED
      BY <2>3, <3>1 DEF Block, EmptyBlock
  <2>5. TlbsClean(block')
    BY <1>4, <2>3 DEF Placed, TlbsClean, Tlbs
  <2>6. ASSUME NEW a, DirtyIn(block, a) PROVE DirtyIn(block', a)
    <3>1. PICK d \in Caches : \E v \in Ways(d) : block[d][v].addr = a /\ block[d][v].dirty
      BY <2>6 DEF DirtyIn
    <3>2. PICK v \in Ways(d) : block[d][v].addr = a /\ block[d][v].dirty
      BY <3>1
    <3>3. block'[d][v].addr = a /\ block'[d][v].dirty
      BY <2>3, <2>4, <3>2
    <3> QED
      BY <3>3 DEF DirtyIn
  <2>7. DirtyIn(block', p.addr)
    BY <2>1, <2>4 DEF DirtyIn
  <2>8. Placed'
    BY <1>1, <1>4, <1>6, <2>2, <2>5 DEF Placed
  <2>9. \A a \in Addr : Held(block, mshr, wq, dramWq, a) => Held(block', mshr', wq', dramWq', a)
    BY <1>4, <1>6, <2>2, <2>6, <2>7 DEF Held, Keeps
  <2> QED
    BY <2>8, <2>9 DEF NotLost
<1>8. CASE RfoNewMiss(c, p)
  <2> DEFINE m == WithEntry(c, p, FALSE)
  <2>1. Lower[c] \in Caches /\ Kind[c] = "L1D" /\ p.type = "RFO"
    BY <1>4, <1>8, HierarchyAssumption DEF RfoNewMiss
  <2>2. /\ m \in MshrType /\ Keeps(mshr, m) /\ EntriesRead(m)
        /\ RfoIn(m, p.addr)
    BY <1>2, <2>1, AllocateKeeps DEF Placed
  <2>3. /\ AddRq(m, rq, Lower[c], Down(p), TRUE)
        /\ wq' = popped /\ UNCHANGED <<block, dramWq>>
    BY <1>8 DEF RfoNewMiss, WithEntry, dramVars
  <2> HIDE DEF m, p, popped
  <2>4. Down(p) \in Packet /\ Down(p).type # "WRITEBACK"
    BY <1>2, <2>1, DownType DEF Down, Packet
  <2>5. EntriesRead(mshr') /\ Keeps(m, mshr') /\ PacketsRead(rq')
    BY <1>3, <2>1, <2>2, <2>3, <2>4, AddRqKeeps DEF Placed
  <2>6. Placed'
    BY <1>1, <1>4, <2>3, <2>5 DEF Placed
  <2>7. \A a \in Addr : Held(block, mshr, wq, dramWq, a) => Held(block', mshr', wq', dramWq', a)
    BY <1>4, <1>5, <2>2, <2>3, <2>5 DEF Held, Keeps
  <2> QED
    BY <2>6, <2>7 DEF NotLost
<1>9. CASE RfoMerge(c, p)
  <2>1. PICK e \in mshr[c] :
          /\ e.addr = p.addr
          /\ mshr' = Replace(c, e, IF e.type = "PREFETCH" THEN NewEntry(p, e.returned)
                                   ELSE [e EXCEPT !.fl = MinOf(p.fl, @)])
    BY <1>9 DEF RfoMerge
  <2>2. Kind[c] = "L1D" /\ p.type = "RFO" /\ wq' = popped /\ UNCHANGED <<block, dramWq, rq>>
    BY <1>4, <1>9 DEF RfoMerge, dramVars
  <2>3. e \in Entry /\ e.type # "WRITEBACK"
    BY <1>3 DEF MshrType, Placed, EntriesRead
  <2> DEFINE f == IF e.type = "PREFETCH" THEN NewEntry(p, e.returned)
                  ELSE [e EXCEPT !.fl = MinOf(p.fl, @)]
  <2>4. /\ f \in Entry /\ f.addr = e.addr
        /\ f.type = IF e.type = "PREFETCH" THEN "RFO" ELSE e.type
    <3>1. p.fl \in Levels /\ e.returned \in BOOLEAN
      BY <1>2, <2>3 DEF Packet, Entry
    <3>2. NewEntry(p, e.returned) \in Entry /\ [e EXCEPT !.fl = MinOf(p.fl, @)] \in Entry
      BY <1>2, <2>3, <3>1, NewEntryType, LowerFillType
    <3>3. NewEntry(p, e.returned).addr = e.addr /\ NewEntry(p, e.returned).type = "RFO"
      BY <2>1, <2>2 DEF NewEntry
    <3>4. /\ [e EXCEPT !.fl = MinOf(p.fl, @)].addr = e.addr
          /\ [e EXCEPT !.fl = MinOf(p.fl, @)].type = e.type
      BY <2>3 DEF Entry
    <3> QED
      BY <3>2, <3>3, <3>4
  <2>5. mshr' = Replace(c, e, f)
    BY <2>1
  <2> HIDE DEF f
  <2>6. /\ Keeps(mshr, mshr') /\ EntriesRead(mshr')
        /\ f.type = "RFO" => RfoIn(mshr', p.addr)
    BY <2>1, <2>2, <2>3, <2>4, <2>5, ReplaceKeeps DEF Placed
  <2>7. e.type = "LOAD" => RfoJoinsLoad(p.addr)
    BY <1>1, <1>2, <2>1, <2>2 DEF RfoJoinsLoad
  <2>8. e.type \in {"LOAD", "RFO", "PREFETCH"}
    BY <2>3 DEF Entry, Types
  <2> HIDE DEF p, popped
  <2>9. Placed'
    BY <1>1, <1>4, <2>2, <2>6 DEF Placed
  <2>10. \A a \in Addr : Held(block, mshr, wq, dramWq, a) =>
           Held(block', mshr', wq', dramWq', a) \/ RfoJoinsLoad(a)
    BY <1>4, <2>2, <2>4, <2>6, <2>7, <2>8 DEF Held, Keeps
  <2> QED
    BY <2>9, <2>10 DEF NotLost
<1>10. CASE WriteAllocate(c, p)
  <2>1. PICK w \in Victims(c) : /\ Evict(c, w, popped, p.port)
                                /\ FillCache(c, w, p.addr, TRUE)
    BY <1>10 DEF WriteAllocate
  <2>2. mshr' = Answer(mshr, c, p) /\ UNCHANGED rq
    BY <1>10 DEF WriteAllocate
  <2>3. w \in Ways(c)
    BY DEF Victims, InvalidWays
  <2> HIDE DEF p, popped
  <2>4. /\ WritesPlaced(wq')
        /\ \A a : InQueue(popped, a) => InQueue(wq', a)
        /\ dramWq \subseteq dramWq'
        /\ warm /\ block[c][w].dirty =>
             InQueue(wq', block[c][w].addr) \/ block[c][w].addr \in dramWq'
    BY <1>2, <1>4, <1>5, <2>1, <2>3, EvictKeeps
  <2>5. /\ \A b : DirtyIn(block, b) =>
             DirtyIn(block', b) \/ (block[c][w].dirty /\ block[c][w].addr = b)
        /\ DirtyIn(block', p.addr)
        /\ TlbsClean(block) => TlbsClean(block')
    BY <1>4, <1>5, <2>1, <2>3, FillKeeps
  <2>6. Placed'
    BY <1>1, <1>6, <2>2, <2>4, <2>5 DEF Placed
  <2>7. ASSUME NEW a \in Addr, Held(block, mshr, wq, dramWq, a), warm
        PROVE  Held(block', mshr', wq', dramWq', a)
    <3>1. CASE InQueue(wq, a) \/ a \in dramWq
      BY <1>4, <2>4, <2>5, <3>1 DEF Held
    <3>2. CASE RfoIn(mshr, a)
      BY <1>6, <2>2, <3>2 DEF Held, Keeps
    <3>3. CASE DirtyIn(block, a)
      BY <2>4, <2>5, <2>7, <3>3 DEF Held
    <3> QED
      BY <2>7, <3>1, <3>2, <3>3 DEF Held
  <2> QED
    BY <2>6, <2>7 DEF NotLost
<1> QED
  BY <1>1, <1>7, <1>8, <1>9, <1>10

\* Reads and prefetches write nothing: they only keep what is there.
LEMMA NothingWritten ==
  ASSUME TypeOK, Placed, Keeps(mshr, mshr'), EntriesRead(mshr'),
         PacketsRead(rq'), PacketsRead(pq'), UNCHANGED <<block, wq, dramWq>>
  PROVE  Placed' /\ \A a \in Addr : NotLost(a)
BY DEF Placed, NotLost, Held, Keeps

LEMMA HandleReadKeeps ==
  ASSUME TypeOK, Placed, NEW c \in Caches, HandleRead(c)
  PROVE  Placed' /\ \A a \in Addr : NotLost(a)
<1> DEFINE p == Head(rq[c])
           popped == Pop(rq, c)
<1>1. /\ rq[c] # <<>> /\ UNCHANGED <<block, wq, pq, dramWq>>
      /\ ReadHit(c, p) \/ ReadNewMiss(c, p) \/ ReadMerge(c, p)
  BY DEF HandleRead
<1>2. rq \in QueueType /\ mshr \in MshrType
  BY DEF TypeOK, QueueType, MshrType
<1>3. p \in Packet /\ popped \in QueueType
  BY <1>1, <1>2, PopType DEF QueueType
<1>4. p.type # "WRITEBACK" /\ PacketsRead(popped)
  BY <1>1, <1>2, PopQueue DEF Placed
<1> HIDE DEF p, popped
<1>5. CASE ReadNewMiss(c, p)
  <2>1. \A r \in BOOLEAN : /\ WithEntry(c, p, r) \in MshrType
                           /\ Keeps(mshr, WithEntry(c, p, r))
                           /\ EntriesRead(WithEntry(c, p, r))
    BY <1>3, <1>4, AllocateKeeps DEF Placed
  <2>2. ASSUME Lower[c] \in Caches,
               AddRq(WithEntry(c, p, FALSE), popped, Lower[c], Down(p), TRUE)
        PROVE  Keeps(mshr, mshr') /\ EntriesRead(mshr') /\ PacketsRead(rq')
    <3>1. Down(p) \in Packet /\ Down(p).type # "WRITEBACK"
      BY <1>3, <1>4, DownType DEF Down, Packet
    <3>2. EntriesRead(mshr') /\ Keeps(WithEntry(c, p, FALSE), mshr') /\ PacketsRead(rq')
      BY <1>3, <1>4, <2>1, <2>2, <3>1, AddRqKeeps
    <3> QED
      BY <2>1, <3>2 DEF Keeps
  <2>3. ASSUME DramAddRq(WithEntry(c, p, FALSE), p), rq' = popped
        PROVE  Keeps(mshr, mshr') /\ EntriesRead(mshr') /\ PacketsRead(rq')
    <3>1. EntriesRead(mshr') /\ Keeps(WithEntry(c, p, FALSE), mshr')
      BY <1>3, <2>1, <2>3, DramAddRqKeeps
    <3> QED
      BY <1>4, <2>1, <2>3, <3>1 DEF Keeps
  <2>4. ASSUME mshr' = WithEntry(c, p, TRUE), rq' = popped
        PROVE  Keeps(mshr, mshr') /\ EntriesRead(mshr') /\ PacketsRead(rq')
    BY <1>4, <2>1, <2>4
  <2>5. Keeps(mshr, mshr') /\ EntriesRead(mshr') /\ PacketsRead(rq')
    BY <1>5, <2>2, <2>3, <2>4 DEF ReadNewMiss, WithEntry, popped
  <2> QED
    BY <1>1, <2>5, NothingWritten DEF Placed
<1>6. CASE ReadMerge(c, p)
  <2>1. PICK e \in mshr[c] : e.addr = p.addr /\ mshr' = Replace(c, e, MergeDemand(e, p))
    BY <1>6 DEF ReadMerge
  <2>2. e \in Entry /\ e.type # "WRITEBACK"
    BY <1>2 DEF MshrType, Placed, EntriesRead
  <2>3. MergeDemand(e, p) \in Entry
    BY <1>3, <2>2, MergeDemandType
  <2>4. /\ MergeDemand(e, p).addr = e.addr
        /\ MergeDemand(e, p).type = IF e.type = "PREFETCH" THEN p.type ELSE e.type
    BY <2>1, <2>2 DEF MergeDemand, NewEntry, Entry
  <2>5. Keeps(mshr, mshr') /\ EntriesRead(mshr')
    BY <1>4, <2>1, <2>2, <2>3, <2>4, ReplaceKeeps DEF Placed
  <2>6. PacketsRead(rq')
    BY <1>4, <1>6 DEF ReadMerge, popped
  <2> QED
    BY <1>1, <2>5, <2>6, NothingWritten DEF Placed
<1>7. CASE ReadHit(c, p)
  <2>1. Keeps(mshr, mshr') /\ EntriesRead(mshr')
    BY <1>2, <1>3, <1>7, AnswerKeeps DEF ReadHit, Placed, Packet
  <2>2. PacketsRead(rq')
    BY <1>4, <1>7 DEF ReadHit, popped
  <2> QED
    BY <1>1, <2>1, <2>2, NothingWritten DEF Placed
<1> QED
  BY <1>1, <1>5, <1>6, <1>7 DEF p

LEMMA HandlePrefetchKeeps ==
  ASSUME TypeOK, Placed, NEW c \in Caches, HandlePrefetch(c)
  PROVE  Placed' /\ \A a \in Addr : NotLost(a)
<1> DEFINE p == Head(pq[c])
           popped == Pop(pq, c)
<1>1. /\ pq[c] # <<>> /\ UNCHANGED <<block, rq, wq, dramWq>>
      /\ PrefetchHit(c, p) \/ PrefetchNewMiss(c, p) \/ PrefetchMerge(c, p)
  BY DEF HandlePrefetch
<1>2. pq \in QueueType /\ mshr \in MshrType
  BY DEF TypeOK, QueueType, MshrType
<1>3. p \in Packet /\ popped \in QueueType
  BY <1>1, <1>2, PopType DEF QueueType
<1>4. p.type # "WRITEBACK" /\ PacketsRead(popped)
  BY <1>1, <1>2, PopQueue DEF Placed
<1> HIDE DEF p, popped
<1>5. CASE PrefetchHit(c, p)
  <2>1. Keeps(mshr, mshr') /\ EntriesRead(mshr')
    BY <1>2, <1>3, <1>5, AnswerKeeps DEF PrefetchHit, Placed, Packet
  <2>2. PacketsRead(pq')
    BY <1>4, <1>5 DEF PrefetchHit, popped
  <2> QED
    BY <1>1, <2>1, <2>2, NothingWritten DEF Placed
<1>6. CASE PrefetchNewMiss(c, p)
  <2> DEFINE m == IF TakesMshr(c, p) THEN WithEntry(c, p, FALSE) ELSE mshr
  <2>1. m \in MshrType /\ Keeps(mshr, m) /\ EntriesRead(m)
    <3>1. Keeps(mshr, mshr)
      BY DEF Keeps
    <3> QED
      BY <1>2, <1>3, <1>4, <3>1, AllocateKeeps DEF Placed
  <2>2. \/ Lower[c] \in Caches /\ AddPq(m, popped, Lower[c], p, TRUE)
        \/ DramAddRq(m, p) /\ pq' = popped
    BY <1>6 DEF PrefetchNewMiss, WithEntry, popped
  <2> HIDE DEF m
  <2>3. EntriesRead(mshr') /\ Keeps(m, mshr') /\ PacketsRead(pq')
    BY <1>3, <1>4, <2>1, <2>2, AddPqKeeps, DramAddRqKeeps
  <2>4. Keeps(mshr, mshr')
    BY <2>1, <2>3 DEF Keeps
  <2> QED
    BY <1>1, <2>3, <2>4, NothingWritten DEF Placed
<1>7. CASE PrefetchMerge(c, p)
  <2>1. PICK e \in mshr[c] :
          e.addr = p.addr /\ mshr' = Replace(c, e, [e EXCEPT !.fl = MinOf(p.fl, @)])
    BY <1>7 DEF PrefetchMerge
  <2>2. e \in Entry /\ e.type # "WRITEBACK" /\ p.fl \in Levels
    BY <1>2, <1>3 DEF MshrType, Placed, EntriesRead, Packet
  <2> DEFINE f == [e EXCEPT !.fl = MinOf(p.fl, @)]
  <2>3. f \in Entry /\ f.addr = e.addr /\ f.type = e.type
    BY <2>2, LowerFillType DEF Entry
  <2> HIDE DEF f
  <2>4. Keeps(mshr, mshr') /\ EntriesRead(mshr')
    BY <2>1, <2>2, <2>3, ReplaceKeeps DEF Placed, f
  <2>5. PacketsRead(pq')
    BY <1>4, <1>7 DEF PrefetchMerge, popped
  <2> QED
    BY <1>1, <2>4, <2>5, NothingWritten DEF Placed
<1> QED
  BY <1>1, <1>5, <1>6, <1>7 DEF p

\* DRAM writes a block only when it is in its write queue.
LEMMA DramStepKeeps ==
  ASSUME TypeOK, Placed, DramStep
  PROVE  Placed' /\ \A a \in Addr : NotLost(a)
<1>1. ASSUME NEW x \in Addr, DramReturn(x) PROVE Placed' /\ \A a \in Addr : NotLost(a)
  <2>1. PICK p \in dramRq : mshr' = ReturnData(mshr, Upper[Dram][p.port], x)
    BY <1>1 DEF DramReturn
  <2>2. Upper[Dram][p.port] \in Caches /\ mshr \in MshrType
    BY UpperType DEF TypeOK, Packet, MshrType
  <2>3. Keeps(mshr, mshr') /\ EntriesRead(mshr')
    BY <2>1, <2>2, ReturnDataKeeps DEF Placed
  <2> QED
    BY <1>1, <2>3, NothingWritten DEF DramReturn, Placed
<1>2. ASSUME NEW x \in Addr, DramWrite(x) PROVE Placed' /\ \A a \in Addr : NotLost(a)
  BY <1>2 DEF DramWrite, Placed, NotLost, Held
<1>3. CASE WarmupComplete
  BY <1>3 DEF WarmupComplete, Placed, NotLost, Held, dramVars
<1> QED
  BY <1>1, <1>2, <1>3 DEF DramStep

LEMMA CoreStepKeeps ==
  ASSUME TypeOK, Placed, CoreStep
  PROVE  Placed' /\ \A a \in Addr : NotLost(a)
<1>1. mshr \in MshrType /\ rq \in QueueType /\ wq \in QueueType /\ pq \in QueueType
  BY DEF TypeOK, MshrType, QueueType
<1>2. ASSUME NEW s \in Slots, NEW d \in Demands, NEW word, Issue(s, d, word)
      PROVE  Placed' /\ \A a \in Addr : NotLost(a)
  <2> DEFINE p == [addr |-> d.addr, type |-> d.type, fl |-> FillLevel[d.cache],
                   port |-> PortOf[d.cache], deps |-> {s}]
  <2>1. p \in Packet /\ p.type # "WRITEBACK" /\ d.cache \in Caches
    BY InputAssumption, HierarchyAssumption DEF Packet, Types, Levels
  <2>2. AddRq(mshr, rq, d.cache, p, word) /\ UNCHANGED <<block, wq, pq, dramWq>>
    BY <1>2 DEF Issue, dramVars
  <2> HIDE DEF p
  <2>3. EntriesRead(mshr') /\ Keeps(mshr, mshr') /\ PacketsRead(rq')
    BY <1>1, <2>1, <2>2, AddRqKeeps DEF Placed
  <2> QED
    BY <2>2, <2>3, NothingWritten DEF Placed
<1>3. ASSUME NEW r \in Prefetches, NEW word, PrefetchLine(r.cache, r.addr, r.fl, word)
      PROVE  Placed' /\ \A a \in Addr : NotLost(a)
  <2> DEFINE p == [addr |-> r.addr, type |-> "PREFETCH", fl |-> r.fl,
                   port |-> PortOf[r.cache], deps |-> {}]
  <2>1. p \in Packet /\ p.type # "WRITEBACK" /\ r.cache \in Caches
    BY InputAssumption, HierarchyAssumption DEF Packet, Types, Levels
  <2>2. AddPq(mshr, pq, r.cache, p, word) /\ UNCHANGED <<block, rq, wq, dramWq>>
    BY <1>3 DEF PrefetchLine, dramVars
  <2> HIDE DEF p
  <2>3. EntriesRead(mshr') /\ Keeps(mshr, mshr') /\ PacketsRead(pq')
    BY <1>1, <2>1, <2>2, AddPqKeeps DEF Placed
  <2> QED
    BY <2>2, <2>3, NothingWritten DEF Placed
<1>4. ASSUME NEW cpu \in Cpus, NEW st \in Stores, NEW word, RetireStore(cpu, st, word)
      PROVE  Placed' /\ \A a \in Addr : NotLost(a)
  <2> DEFINE p == [addr |-> st.addr, type |-> "RFO", fl |-> FillLevel[st.cache],
                   port |-> PortOf[st.cache], deps |-> {}]
  <2>1. p \in Packet /\ p.type = "RFO" /\ st.cache \in Caches
    BY InputAssumption, HierarchyAssumption DEF Packet, Types, Levels
  <2>2. st.cache \notin Tlbs
    BY WiringAssumption DEF Tlbs
  <2>3. wq' = AddWq(wq, st.cache, p, word) /\ UNCHANGED <<block, mshr, rq, pq, dramWq>>
    BY <1>4 DEF RetireStore, RetireSlot, dramVars
  <2> HIDE DEF p
  <2>4. WritesPlaced(wq') /\ \A a : InQueue(wq, a) => InQueue(wq', a)
    BY <1>1, <2>1, <2>2, <2>3, AddWqKeeps DEF Placed
  <2> QED
    BY <2>3, <2>4 DEF Placed, NotLost, Held
<1>5. ASSUME UNCHANGED <<block, mshr, rq, wq, pq, dramWq>>
      PROVE  Placed' /\ \A a \in Addr : NotLost(a)
  BY <1>5 DEF Placed, NotLost, Held
<1> QED
  BY <1>2, <1>3, <1>4, <1>5 DEF CoreStep, CompleteFetch, Retire, RetireSlot, dramVars

LEMMA StepKeeps ==
  ASSUME TypeOK, Placed, [Next]_vars
  PROVE  Placed' /\ \A a \in Addr : NotLost(a)
<1>1. ASSUME NEW c \in Caches, CacheStep(c) PROVE Placed' /\ \A a \in Addr : NotLost(a)
  BY <1>1, HandleFillKeeps, HandleWritebackKeeps, HandleReadKeeps, HandlePrefetchKeeps
     DEF CacheStep
<1>2. CASE UNCHANGED vars
  BY <1>2 DEF vars, Placed, NotLost, Held
<1> QED
  BY <1>1, <1>2, CoreStepKeeps, DramStepKeeps DEF Next

LEMMA PlacedInit == Init => Placed
BY DEF Init, Placed, EntriesRead, PacketsRead, WritesPlaced, TlbsClean, EmptyBlock, Tlbs, Ways

\* What one step may do to a modified block, for every step of the system.
WrittenOrKept ==
  \A a \in Addr : Modified(a) /\ ~Modified(a)' => a \in dramWq \/ ~warm \/ RfoJoinsLoad(a)

\* A store stays on record, as a queued RFO, the type of an MSHR entry, a dirty
\* bit or a write-back, until DRAM writes its block: through hits, merges,
\* forwarding and evictions at every level, for every hierarchy and every size.
\* The warm-up and an RFO that joins a load in flight are the only exceptions.
THEOREM StoresAreKept == Spec => ModifiedUntilWritten
<1>1. Init => TypeOK /\ Placed
  BY TypeInit, PlacedInit
<1>2. TypeOK /\ Placed /\ [Next]_vars => (TypeOK /\ Placed)'
  BY TypeNext, StepKeeps
<1>3. TypeOK /\ Placed /\ [Next]_vars => [WrittenOrKept]_vars
  BY StepKeeps, ModifiedIsHeld DEF WrittenOrKept, NotLost
<1>4. Spec => [][WrittenOrKept]_vars
  BY <1>1, <1>2, <1>3, PTL DEF Spec
<1> QED
  BY <1>4, PTL DEF ModifiedUntilWritten, WrittenOrKept
=============================================================================
