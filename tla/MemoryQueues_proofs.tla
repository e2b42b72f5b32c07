------------------------- MODULE MemoryQueues_proofs -------------------------
(***************************************************************************)
(* Theorems about the load and store queues of OutOfOrderCore, for every    *)
(* size of the queues and of the reorder buffer and for every trace: the    *)
(* types, the ready lists, the counters, which loads wait for which stores, *)
(* and that the core implements InOrderMachine.  The invariant CInv of      *)
(* OutOfOrderCore_proofs is about the reorder buffer; MInv adds the queues,  *)
(* Tracked what the assertion of execute_store relies on, and Right the     *)
(* values that the loads have read.                                        *)
(***************************************************************************)
EXTENDS OutOfOrderCore_proofs

-----------------------------------------------------------------------------
(* Operations that are done.                                               *)

Part(D, k) == {d \in D : d[1] = k}
GotOf(g, k, D, v) == [j \in DOMAIN g |-> IF <<k, j>> \in D THEN v ELSE g[j]]

LEMMA DoneOps ==
  ASSUME NEW r, Shaped(r), NEW C, NEW D, NEW v
  PROVE  \A k \in RobIndex : LET s == Read(Finished(r, C), D, v)[k] IN
           /\ s.num_mem_ops = r[k].num_mem_ops - Cardinality(Part(C, k))
           /\ s.mem_depend_on_me = r[k].mem_depend_on_me
           /\ s.got = GotOf(r[k].got, k, D, v)
<1> DEFINE f == Finished(r, C)
           s == Read(f, D, v)
           left(k) == r[k].num_mem_ops - Cardinality(Part(C, k))
           got(k) == [j \in DOMAIN f[k].got |-> IF <<k, j>> \in D THEN v ELSE f[k].got[j]]
<1>1. \A k \in RobIndex : r[k] = Fields(r[k])
  BY DEF Shaped
<1>2. \A k \in RobIndex : f[k] = [r[k] EXCEPT !.num_mem_ops = left(k)]
  BY DEF Finished, Part
<1>3. \A k \in RobIndex : s[k] = [f[k] EXCEPT !.got = got(k)]
  BY DEF Read
<1>4. ASSUME NEW k \in RobIndex
      PROVE  /\ s[k].num_mem_ops = left(k)
             /\ s[k].mem_depend_on_me = r[k].mem_depend_on_me
             /\ s[k].got = GotOf(r[k].got, k, D, v)
  <2> DEFINE a == left(k)
             b == got(k)
             g == r[k].got
             d == [j \in DOMAIN g |-> IF <<k, j>> \in D THEN v ELSE g[j]]
  <2>3. got(k) = [j \in DOMAIN f[k].got |-> IF <<k, j>> \in D THEN v ELSE f[k].got[j]]
    OBVIOUS
  <2>1. f[k] = [Fields(r[k]) EXCEPT !.num_mem_ops = a] /\ s[k] = [f[k] EXCEPT !.got = b]
    BY <1>1, <1>2, <1>3
  <2> HIDE DEF a, b, f, s, left, got
  <2>2. a = left(k)
    BY DEF a
  <2>4. f[k].got = g
    BY <2>1 DEF Fields
  <2>5. b = d
    BY <2>3, <2>4 DEF b
  <2> HIDE DEF g, d
  <2>6. /\ s[k].num_mem_ops = a /\ s[k].got = b
        /\ s[k].mem_depend_on_me = r[k].mem_depend_on_me
    BY <2>1 DEF Fields
  <2> QED
    BY <2>2, <2>5, <2>6 DEF g, d, GotOf
<1> QED
  BY <1>4

\* The instructions that the operations in D were the last of become finished.
LEMMA FinishesCount ==
  ASSUME NEW r, NEW s, NEW D, \A k \in RobIndex : IsFiniteSet(Part(D, k)),
         \A d \in D : /\ d[1] \in RobIndex /\ IsMemory(d[1])
                      /\ r[d[1]].executed # "COMPLETED" /\ r[d[1]].num_mem_ops # 0,
         \A k \in RobIndex : /\ r[k].num_mem_ops \in Int
                             /\ s[k].num_mem_ops = r[k].num_mem_ops - Cardinality(Part(D, k))
                             /\ s[k].executed = r[k].executed
  PROVE  /\ NowDone(r, D) \in Nat
         /\ Cardinality(Finishes(s)) = Cardinality(Finishes(r)) + NowDone(r, D)
<1> DEFINE N == {i \in {d[1] : d \in D} : r[i].num_mem_ops = Cardinality(Part(D, i))}
<1>1. NowDone(r, D) = Cardinality(N)
  BY DEF NowDone, Part
<1>2. N \subseteq RobIndex
  OBVIOUS
<1>3. \A k \in RobIndex : /\ IsFiniteSet(Part(D, k)) /\ Cardinality(Part(D, k)) \in Nat
                          /\ Part(D, k) = {} <=> Cardinality(Part(D, k)) = 0
  BY FS_CardinalityType, FS_EmptySet
<1>4. \A k \in RobIndex : Part(D, k) # {} <=> k \in {d[1] : d \in D}
  BY DEF Part
<1>5. ASSUME NEW k \in RobIndex
      PROVE  k \in Finishes(s) <=> k \in Finishes(r) \/ k \in N
  <2>1. /\ r[k].num_mem_ops \in Int /\ Cardinality(Part(D, k)) \in Nat
        /\ s[k].num_mem_ops = r[k].num_mem_ops - Cardinality(Part(D, k))
        /\ s[k].executed = r[k].executed
    BY <1>3
  <2>2. CASE Part(D, k) = {}
    <3>1. s[k].num_mem_ops = r[k].num_mem_ops
      BY <1>3, <2>1, <2>2
    <3>2. k \notin N
      BY <1>4, <2>2
    <3> QED
      BY <2>1, <3>1, <3>2 DEF Finishes
  <2>3. CASE Part(D, k) # {}
    <3>1. k \in {d[1] : d \in D} /\ Cardinality(Part(D, k)) # 0
      BY <1>3, <1>4, <2>3
    <3>2. IsMemory(k) /\ r[k].executed # "COMPLETED"
      BY <3>1
    <3>3. k \in N <=> r[k].num_mem_ops = Cardinality(Part(D, k))
      BY <3>1
    <3>4. s[k].num_mem_ops = 0 <=> k \in N
      BY <2>1, <3>3
    <3>5. k \in Finishes(s) <=> s[k].num_mem_ops = 0
      BY <2>1, <3>2 DEF Finishes
    <3>6. k \notin Finishes(r)
      <4>1. r[k].num_mem_ops # 0
        BY <3>1
      <4> QED
        BY <4>1 DEF Finishes
    <3> QED
      BY <3>4, <3>5, <3>6
  <2> QED
    BY <2>2, <2>3
<1>6. Finishes(s) = Finishes(r) \cup N
  <2>1. Finishes(s) \subseteq RobIndex /\ Finishes(r) \subseteq RobIndex
    BY DEF Finishes
  <2> HIDE DEF N
  <2> QED
    BY <1>2, <1>5, <2>1
<1>7. Finishes(r) \cap N = {}
  <2>1. ASSUME NEW k \in N
        PROVE  k \notin Finishes(r)
    <3>1. PICK d \in D : d[1] = k
      OBVIOUS
    <3>2. r[k].num_mem_ops # 0
      BY <3>1
    <3> QED
      BY <3>2 DEF Finishes
  <2> QED
    BY <2>1
<1> HIDE DEF N
<1>8. /\ IsFiniteSet(Finishes(r)) /\ IsFiniteSet(N)
      /\ Cardinality(Finishes(r)) \in Nat /\ Cardinality(N) \in Nat
  <2>1. Finishes(r) \in SUBSET RobIndex
    BY DEF Finishes
  <2> QED
    BY <1>2, <2>1, FiniteIndices, FS_CardinalityType
<1>9. Cardinality(Finishes(r) \cup N) = Cardinality(Finishes(r)) + Cardinality(N)
  <2>1. Cardinality(Finishes(r) \cup N)
          = Cardinality(Finishes(r)) + Cardinality(N) - Cardinality(Finishes(r) \cap N)
    BY <1>8, FS_Union
  <2>2. Cardinality(Finishes(r) \cap N) = 0
    BY <1>7, FS_EmptySet
  <2> QED
    BY <1>8, <2>1, <2>2
<1> QED
  BY <1>1, <1>6, <1>8, <1>9

\* The operations of an instruction of the trace.
LEMMA OpTypes ==
  ASSUME CInv, NEW k \in RobIndex
  PROVE  /\ Loads(k) \in Nat /\ Stores(k) \in Nat
         /\ IsMemory(k) <=> Loads(k) + Stores(k) > 0
         /\ Busy(k) => /\ Op(k).loads \in Seq(Addr) /\ Op(k).stores \in Seq(Addr)
                       /\ Len(Op(k).loads) = Loads(k) /\ Len(Op(k).stores) = Stores(k)
                       /\ DOMAIN Op(k).loads = 1 .. Loads(k)
                       /\ DOMAIN Op(k).stores = 1 .. Stores(k)
         /\ ~Busy(k) => Loads(k) = 0 /\ Stores(k) = 0
<1>1. CASE Busy(k)
  <2>1. Op(k) \in Instr
    BY <1>1, RobFacts
  <2>2. Op(k).loads \in Seq(Addr) /\ Op(k).stores \in Seq(Addr)
    BY <2>1 DEF Instr
  <2>3. /\ Len(Op(k).loads) \in Nat /\ Len(Op(k).stores) \in Nat
        /\ DOMAIN Op(k).loads = 1 .. Len(Op(k).loads)
        /\ DOMAIN Op(k).stores = 1 .. Len(Op(k).stores)
    BY <2>2, LenProperties
  <2>4. Loads(k) = Len(Op(k).loads) /\ Stores(k) = Len(Op(k).stores)
    BY <1>1 DEF Loads, Stores
  <2> QED
    BY <1>1, <2>2, <2>3, <2>4 DEF IsMemory
<1>2. CASE ~Busy(k)
  <2>1. Loads(k) = 0 /\ Stores(k) = 0
    BY <1>2 DEF Loads, Stores
  <2>2. ~IsMemory(k)
    BY <1>2 DEF IsMemory
  <2>3. Loads(k) \in Nat /\ Stores(k) \in Nat /\ ~(Loads(k) + Stores(k) > 0)
    BY <2>1
  <2> QED
    BY <1>2, <2>1, <2>2, <2>3
<1> QED
  BY <1>1, <1>2

LEMMA UpTo ==
  ASSUME NEW n \in Nat, NEW S \in SUBSET (1 .. n)
  PROVE  IsFiniteSet(S)
<1>1. 1 \in Int /\ n \in Int
  OBVIOUS
<1>2. IsFiniteSet(1 .. n)
  BY <1>1, FS_Interval
<1> QED
  BY <1>2, FS_Subset

LEMMA PlusOne ==
  ASSUME NEW L, IsFiniteSet(L), 0 \notin L,
         NEW S, IsFiniteSet(S), \A x, y \in S : x = y,
         NEW M, M = L \cup (IF S = {} THEN {} ELSE {0})
  PROVE  IsFiniteSet(M) /\ Cardinality(M) = Cardinality(L) + Cardinality(S)
<1>1. Cardinality(L) \in Nat
  BY FS_CardinalityType
<1>2. CASE S = {}
  <2>1. M = L
    BY <1>2
  <2>2. Cardinality(S) = 0
    BY <1>2, FS_EmptySet
  <2>3. Cardinality(L) + Cardinality(S) = Cardinality(L)
    BY <1>1, <2>2
  <2> QED
    BY <2>1, <2>3
<1>3. CASE S # {}
  <2>1. PICK x : x \in S
    BY <1>3
  <2>2. S = {x}
    BY <2>1
  <2>3. Cardinality(S) = 1
    BY <2>2, FS_Singleton
  <2>4. M = L \cup {0}
    BY <1>3
  <2>5. IsFiniteSet(M) /\ Cardinality(M) = Cardinality(L) + 1
    BY <2>4, FS_AddElement
  <2> QED
    BY <2>3, <2>5
<1> QED
  BY <1>2, <1>3

\* The loads in the entries F and the store, if any, in the entry G are done.
Done(C, F, G) ==
  /\ F \in SUBSET LqIndex /\ G \in SUBSET SqIndex
  /\ \A p, q \in G : p = q
  /\ \A e : e \in C <=> \/ \E p \in F : e = <<lq[p].rob_index, lq[p].data_index>>
                        \/ \E p \in G : e = <<sq[p].rob_index, 0>>
  /\ \A p \in F : Used(lq, p) /\ lq[p].translated # "no" /\ p \notin Reading(lq, LqIndex)
  /\ \A p \in G : Used(sq, p) /\ sq[p].translated = "COMPLETED" /\ sq[p].fetched = "no"

LEMMA DoneParts ==
  ASSUME CInv, MInv, NEW C, NEW F, NEW G, Done(C, F, G), NEW k \in RobIndex,
         NEW L, L = {j \in 1 .. Loads(k) : /\ rob[k].lq_index[j] \in F
                                           /\ lq[rob[k].lq_index[j]].rob_index = k
                                           /\ lq[rob[k].lq_index[j]].data_index = j},
         NEW S, S = {m \in 1 .. Stores(k) : rob[k].sq_index[m] \in G}
  PROVE  /\ IsFiniteSet(Part(C, k))
         /\ Cardinality(Part(C, k)) = Cardinality(L) + Cardinality(S)
         /\ IsFiniteSet(L) /\ IsFiniteSet(S)
<1>1. LoadLinks(rob, lq) /\ StoreLinks(rob, sq) /\ Indices(rob)
  BY DEF MInv, MemTypes, LoadSide, StoreSide
<1> DEFINE Z == IF S = {} THEN {} ELSE {0}
           M == L \cup Z
<1>2. Loads(k) \in Nat /\ Stores(k) \in Nat
  BY OpTypes DEF Loads, Stores
<1>3. IsFiniteSet(L) /\ L \subseteq 1 .. Loads(k)
  <2>1. L \in SUBSET (1 .. Loads(k))
    OBVIOUS
  <2> HIDE DEF M
  <2> QED
    BY <1>2, <2>1, UpTo
<1>4. IsFiniteSet(S)
  <2>1. S \in SUBSET (1 .. Stores(k))
    OBVIOUS
  <2> QED
    BY <1>2, <2>1, UpTo
<1>5. \A x, y \in S : x = y
  <2>1. ASSUME NEW x \in S, NEW y \in S
        PROVE  x = y
    <3>1. /\ x \in 1 .. Stores(k) /\ rob[k].sq_index[x] \in G
          /\ y \in 1 .. Stores(k) /\ rob[k].sq_index[y] \in G
      OBVIOUS
    <3>2. rob[k].sq_index[x] = rob[k].sq_index[y] /\ rob[k].sq_index[x] \in SqIndex
      BY <3>1 DEF Done
    <3>3. rob[k].sq_index[x] # NoIndex
      BY <3>2 DEF SqIndex, NoIndex
    <3>4. /\ sq[rob[k].sq_index[x]].data_index = x
          /\ sq[rob[k].sq_index[y]].data_index = y
      BY <1>1, <3>1, <3>2, <3>3 DEF StoreLinks
    <3> QED
      BY <3>2, <3>4
  <2> QED
    BY <2>1
<1>6. S # {} <=> \E p \in G : sq[p].rob_index = k
  <2>1. ASSUME NEW x \in S
        PROVE  \E p \in G : sq[p].rob_index = k
    <3>1. x \in 1 .. Stores(k) /\ rob[k].sq_index[x] \in G
      OBVIOUS
    <3>2. rob[k].sq_index[x] # NoIndex
      BY <3>1 DEF Done, SqIndex, NoIndex
    <3>3. sq[rob[k].sq_index[x]].rob_index = k
      BY <1>1, <3>1, <3>2 DEF StoreLinks
    <3> QED
      BY <3>1, <3>3
  <2>2. ASSUME NEW p \in G, sq[p].rob_index = k
        PROVE  S # {}
    <3>1. p \in SqIndex /\ Used(sq, p)
      BY DEF Done
    <3>2. sq[p].data_index \in 1 .. Stores(k) /\ rob[k].sq_index[sq[p].data_index] = p
      BY <1>1, <2>2, <3>1 DEF StoreLinks
    <3> QED
      BY <3>2
  <2> QED
    BY <2>1, <2>2
<1>7. \A e : e \in Part(C, k) <=> \E j \in M : e = <<k, j>>
  <2>1. ASSUME NEW e, e \in Part(C, k)
        PROVE  \E j \in M : e = <<k, j>>
    <3>1. e \in C /\ e[1] = k
      BY <2>1 DEF Part
    <3>2. CASE \E p \in F : e = <<lq[p].rob_index, lq[p].data_index>>
      <4>1. PICK p \in F : e = <<lq[p].rob_index, lq[p].data_index>>
        BY <3>2
      <4>2. PICK j : j = lq[p].data_index
        OBVIOUS
      <4>3. lq[p].rob_index = k /\ e = <<k, j>>
        BY <3>1, <4>1, <4>2
      <4>4. p \in LqIndex /\ Used(lq, p)
        BY DEF Done
      <4>5. j \in 1 .. Loads(k) /\ rob[k].lq_index[j] = p
        BY <1>1, <4>2, <4>3, <4>4 DEF LoadLinks
      <4>6. j \in L
        BY <4>2, <4>3, <4>5
      <4> QED
        BY <4>3, <4>6
    <3>3. CASE \E p \in G : e = <<sq[p].rob_index, 0>>
      <4>1. PICK p \in G : e = <<sq[p].rob_index, 0>>
        BY <3>3
      <4>2. sq[p].rob_index = k /\ e = <<k, 0>>
        BY <3>1, <4>1
      <4>3. 0 \in M
        BY <1>6, <4>2
      <4> QED
        BY <4>2, <4>3
    <3> QED
      BY <3>1, <3>2, <3>3 DEF Done
  <2>2. ASSUME NEW j \in M
        PROVE  <<k, j>> \in Part(C, k)
    <3>1. CASE j \in L
      <4>1. PICK p : p = rob[k].lq_index[j]
        OBVIOUS
      <4>2. p \in F /\ lq[p].rob_index = k /\ lq[p].data_index = j
        BY <3>1, <4>1
      <4>3. <<k, j>> \in C
        BY <4>2 DEF Done
      <4> QED
        BY <4>3 DEF Part
    <3>2. CASE j \notin L
      <4>1. j = 0 /\ S # {}
        BY <3>2
      <4>2. PICK p \in G : sq[p].rob_index = k
        BY <1>6, <4>1
      <4>3. <<k, j>> \in C
        BY <4>1, <4>2 DEF Done
      <4> QED
        BY <4>3 DEF Part
    <3> QED
      BY <3>1, <3>2
  <2> QED
    BY <2>1, <2>2
<1>8. 0 \notin L
  BY <1>2, <1>3
<1>9. IsFiniteSet(M) /\ Cardinality(M) = Cardinality(L) + Cardinality(S)
  BY <1>3, <1>4, <1>5, <1>8, PlusOne
<1> HIDE DEF M
<1>10. IsFiniteSet(Part(C, k)) /\ Cardinality(Part(C, k)) = Cardinality(M)
  <2> DEFINE E == Part(C, k)
  <2>1. \A e : e \in E <=> \E j \in M : e = <<k, j>>
    BY <1>7
  <2> HIDE DEF E
  <2>2. IsFiniteSet(E) /\ Cardinality(E) = Cardinality(M)
    BY <1>9, <2>1, PairsCount
  <2> QED
    BY <2>2 DEF E
<1> QED
  BY <1>3, <1>4, <1>9, <1>10

Without(C, D, v) == rob' = Read(Finished(rob, C), D, v)
Emptied(F, G) ==
  /\ lq' = [p \in LqIndex |-> IF p \in F THEN EmptyLsq ELSE lq[p]]
  /\ \A p \in SqIndex : sq'[p] = IF p \in G THEN [sq[p] EXCEPT !.fetched = "COMPLETED"]
                                           ELSE sq[p]

LEMMA DoneRob ==
  ASSUME CInv, NEW C, NEW D, NEW v, Without(C, D, v), program' = program, head' = head
  PROVE  /\ SameOrder /\ Shaped(rob')
         /\ \A k \in RobIndex :
              /\ SameId(rob'[k], rob[k]) /\ SameFetch(rob'[k], rob[k])
              /\ SameSched(rob'[k], rob[k]) /\ SameQueues(rob'[k], rob[k])
              /\ rob'[k].executed = rob[k].executed
              /\ rob'[k].num_mem_ops = rob[k].num_mem_ops - Cardinality(Part(C, k))
              /\ rob'[k].mem_depend_on_me = rob[k].mem_depend_on_me
              /\ rob'[k].got = GotOf(rob[k].got, k, D, v)
              /\ Loads(k)' = Loads(k) /\ Stores(k)' = Stores(k)
<1> DEFINE s == Read(Finished(rob, C), D, v)
<1>1. Shaped(rob) /\ rob' = s
  BY DEF CInv, Types, Without
<1>2. /\ Shaped(s)
      /\ \A k \in RobIndex :
           /\ SameId(s[k], rob[k]) /\ SameFetch(s[k], rob[k])
           /\ SameSched(s[k], rob[k]) /\ SameQueues(s[k], rob[k])
           /\ s[k].executed = rob[k].executed
  BY <1>1, DoneFields
<1>3. \A k \in RobIndex :
        /\ s[k].num_mem_ops = rob[k].num_mem_ops - Cardinality(Part(C, k))
        /\ s[k].mem_depend_on_me = rob[k].mem_depend_on_me
        /\ s[k].got = GotOf(rob[k].got, k, D, v)
  BY <1>1, DoneOps
<1> HIDE DEF s
<1>4. SameOrder
  BY <1>1, <1>2 DEF SameOrder
<1>5. \A k \in RobIndex : Loads(k)' = Loads(k) /\ Stores(k)' = Stores(k)
  BY <1>4, SameProgram
<1> QED
  BY <1>1, <1>2, <1>3, <1>4, <1>5

LEMMA DoneWaiting ==
  ASSUME CInv, MInv, NEW C, NEW D, NEW v, NEW F, NEW G, Done(C, F, G), Without(C, D, v),
         Emptied(F, G), program' = program, head' = head, NEW k \in RobIndex
  PROVE  /\ rob'[k].num_mem_ops \in Int
         /\ rob'[k].num_mem_ops = Cardinality(WaitingLoads(rob, lq, k)')
                                    + Cardinality(WaitingStores(rob, sq, k)')
         /\ IsFiniteSet(Part(C, k))
         /\ Part(C, k) # {} => /\ IsMemory(k) /\ rob[k].num_mem_ops # 0
                               /\ rob[k].executed # "COMPLETED"
<1> DEFINE L == {j \in 1 .. Loads(k) : /\ rob[k].lq_index[j] \in F
                                       /\ lq[rob[k].lq_index[j]].rob_index = k
                                       /\ lq[rob[k].lq_index[j]].data_index = j}
           S == {m \in 1 .. Stores(k) : rob[k].sq_index[m] \in G}
           WL == WaitingLoads(rob, lq, k)
           WS == WaitingStores(rob, sq, k)
<1>1. /\ IsFiniteSet(Part(C, k))
      /\ Cardinality(Part(C, k)) = Cardinality(L) + Cardinality(S)
      /\ IsFiniteSet(L) /\ IsFiniteSet(S)
  BY DoneParts
<1>2. /\ rob'[k].lq_index = rob[k].lq_index /\ rob'[k].sq_index = rob[k].sq_index
      /\ rob'[k].num_mem_ops = rob[k].num_mem_ops - Cardinality(Part(C, k))
      /\ Loads(k)' = Loads(k) /\ Stores(k)' = Stores(k)
  BY DoneRob DEF SameQueues
<1>3. /\ rob[k].num_mem_ops = Cardinality(WL) + Cardinality(WS)
      /\ Indices(rob) /\ StoreLinks(rob, sq)
  BY DEF MInv, MemTypes, Counting, OpsLeft, StoreSide
<1>4. /\ Loads(k) \in Nat /\ Stores(k) \in Nat
      /\ IsMemory(k) <=> Loads(k) + Stores(k) > 0
  BY OpTypes
<1>5. WL' = WL \ L /\ L \subseteq WL
  <2>1. ASSUME NEW j \in 1 .. Loads(k)
        PROVE  /\ j \in L => j \in WL
               /\ j \in WL' <=> j \in WL /\ j \notin L
    <3>1. PICK p : p = rob[k].lq_index[j]
      OBVIOUS
    <3>2. p # NoIndex => p \in LqIndex
      BY <1>3, <3>1 DEF Indices
    <3>3. p \in LqIndex => p # NoIndex
      BY DEF LqIndex, NoIndex
    <3>4. F \subseteq LqIndex
      BY DEF Done
    <3>5. j \in L <=> p \in F /\ lq[p].rob_index = k /\ lq[p].data_index = j
      BY <3>1
    <3>6. j \in WL <=> p = NoIndex \/ (lq[p].rob_index = k /\ lq[p].data_index = j)
      BY <3>1 DEF WaitingLoads
    <3>7. j \in WL' <=> p = NoIndex \/ (lq'[p].rob_index = k /\ lq'[p].data_index = j)
      BY <1>2, <3>1 DEF WaitingLoads
    <3>8. CASE p = NoIndex
      BY <3>3, <3>4, <3>5, <3>6, <3>7, <3>8
    <3>9. CASE p # NoIndex
      <4>1. lq'[p] = IF p \in F THEN EmptyLsq ELSE lq[p]
        BY <3>2, <3>9 DEF Emptied
      <4>2. EmptyLsq.rob_index # k
        BY DEF EmptyLsq, NoIndex, RobIndex
      <4> QED
        BY <3>5, <3>6, <3>7, <3>9, <4>1, <4>2
    <3> QED
      BY <3>8, <3>9
  <2>2. WL \subseteq 1 .. Loads(k) /\ WL' \subseteq 1 .. Loads(k)
    BY <1>2 DEF WaitingLoads
  <2>3. L \subseteq 1 .. Loads(k)
    OBVIOUS
  <2> HIDE DEF L, WL
  <2> QED
    BY <2>1, <2>2, <2>3
<1>6. WS' = WS \ S /\ S \subseteq WS
  <2>1. ASSUME NEW m \in 1 .. Stores(k)
        PROVE  /\ m \in S => m \in WS
               /\ m \in WS' <=> m \in WS /\ m \notin S
    <3>1. PICK p : p = rob[k].sq_index[m]
      OBVIOUS
    <3>2. p # NoIndex => p \in SqIndex
      BY <1>3, <3>1 DEF Indices
    <3>3. p \in SqIndex => p # NoIndex
      BY DEF SqIndex, NoIndex
    <3>4. G \subseteq SqIndex /\ (p \in G => sq[p].fetched = "no")
      BY DEF Done
    <3>5. m \in S <=> p \in G
      BY <3>1
    <3>6. m \in WS <=> p = NoIndex \/ sq[p].fetched # "COMPLETED"
      BY <3>1 DEF WaitingStores
    <3>7. m \in WS' <=> p = NoIndex \/ sq'[p].fetched # "COMPLETED"
      BY <1>2, <3>1 DEF WaitingStores
    <3>8. CASE p = NoIndex
      BY <3>3, <3>4, <3>5, <3>6, <3>7, <3>8
    <3>9. CASE p # NoIndex
      <4>1. sq'[p] = IF p \in G THEN [sq[p] EXCEPT !.fetched = "COMPLETED"] ELSE sq[p]
        BY <3>2, <3>9 DEF Emptied
      <4>2. p \in G => sq'[p].fetched = "COMPLETED"
        <5>1. sq[p] \in LsqType(SqIndex)
          BY <3>2, <3>9 DEF MInv, MemTypes
        <5> QED
          BY <4>1, <5>1 DEF LsqType
      <4> QED
        BY <3>4, <3>5, <3>6, <3>7, <3>9, <4>1, <4>2
    <3> QED
      BY <3>8, <3>9
  <2>2. WS \subseteq 1 .. Stores(k) /\ WS' \subseteq 1 .. Stores(k)
    BY <1>2 DEF WaitingStores
  <2>3. S \subseteq 1 .. Stores(k)
    OBVIOUS
  <2> HIDE DEF S, WS
  <2> QED
    BY <2>1, <2>2, <2>3
<1>7. WL \in SUBSET (1 .. Loads(k)) /\ WS \in SUBSET (1 .. Stores(k))
  BY DEF WaitingLoads, WaitingStores
<1> HIDE DEF L, S, WL, WS
<1>8. /\ IsFiniteSet(WL) /\ IsFiniteSet(WS)
      /\ Cardinality(WL) \in Nat /\ Cardinality(WS) \in Nat
      /\ Cardinality(L) \in Nat /\ Cardinality(S) \in Nat
  BY <1>1, <1>4, <1>7, UpTo, FS_CardinalityType
<1>9. /\ Cardinality(WL') = Cardinality(WL) - Cardinality(L)
      /\ Cardinality(WS') = Cardinality(WS) - Cardinality(S)
  <2>1. WL \cap L = L /\ WS \cap S = S
    BY <1>5, <1>6
  <2>2. Cardinality(WL \ L) = Cardinality(WL) - Cardinality(WL \cap L)
    BY <1>8, FS_Difference
  <2>3. Cardinality(WS \ S) = Cardinality(WS) - Cardinality(WS \cap S)
    BY <1>8, FS_Difference
  <2> QED
    BY <1>5, <1>6, <2>1, <2>2, <2>3
<1>10. Cardinality(L) <= Cardinality(WL) /\ Cardinality(S) <= Cardinality(WS)
  BY <1>5, <1>6, <1>8, FS_Subset
<1>11. /\ rob'[k].num_mem_ops \in Int
       /\ rob'[k].num_mem_ops = Cardinality(WL') + Cardinality(WS')
  BY <1>1, <1>2, <1>3, <1>8, <1>9
<1>12. ASSUME Part(C, k) # {}
       PROVE  /\ IsMemory(k) /\ rob[k].num_mem_ops # 0
              /\ rob[k].executed # "COMPLETED"
  <2>1. Cardinality(Part(C, k)) # 0
    BY <1>1, <1>12, FS_EmptySet
  <2>2. Cardinality(L) # 0 \/ Cardinality(S) # 0
    BY <1>1, <1>8, <2>1
  <2>3. rob[k].num_mem_ops # 0
    BY <1>3, <1>8, <1>10, <2>2
  <2>4. L # {} \/ S # {}
    BY <2>2, FS_EmptySet
  <2>5. Loads(k) + Stores(k) > 0
    <3>1. 1 .. Loads(k) # {} \/ 1 .. Stores(k) # {}
      BY <1>5, <1>6, <1>7, <2>4
    <3> QED
      BY <1>4, <3>1
  <2>6. IsMemory(k)
    BY <1>4, <2>5
  <2> QED
    BY <2>3, <2>6 DEF MInv, Counting, Executes
<1> QED
  BY <1>1, <1>11, <1>12 DEF WL, WS

\* No load that stays in the queue waits for the store that is done.
Released(F, G) ==
  \A g \in G : \A p \in LqIndex : \A k, i \in RobIndex : \A a :
    /\ Used(lq, p) /\ p \notin F
    /\ k = sq[g].rob_index /\ i = lq[p].rob_index
    /\ a = StoreAddr(sq[g]) /\ a = LoadAddr(lq[p])
    => ~LastStore(k, i, a)

LEMMA MemAdds ==
  ASSUME NEW f \in [reg : Int, mem : Int], NEW n \in Nat, NEW g,
         g = [f EXCEPT !.mem = @ + n]
  PROVE  /\ g \in [reg : Int, mem : Int]
         /\ g.reg = f.reg /\ g.mem = f.mem + n
OBVIOUS

LEMMA OpsDone ==
  ASSUME CInv, MInv, NEW C, NEW D, NEW v, NEW F, NEW G, Done(C, F, G), Without(C, D, v),
         Emptied(F, G), sq' \in [SqIndex -> LsqType(SqIndex)], Released(F, G),
         inflight' = [inflight EXCEPT !.mem = @ + NowDone(rob, C)],
         UNCHANGED <<program, instr_unique_id, head, next_schedule, rte, rtl, sq_head,
                     sq_tail, sta, memory, seen>>,
         rts' = <<rts'[1], rts'[2]>>,
         rts'[1] \in Seq(SqIndex), rts'[2] \in Seq(SqIndex),
         Enumerates(rts'[1], Sending(sq', SqIndex)),
         Enumerates(rts'[2], Reading(sq', SqIndex))
  PROVE  MInv'
<1>1. /\ SameOrder
      /\ \A k \in RobIndex :
           /\ SameId(rob'[k], rob[k]) /\ SameFetch(rob'[k], rob[k])
           /\ SameSched(rob'[k], rob[k]) /\ SameQueues(rob'[k], rob[k])
           /\ rob'[k].executed = rob[k].executed
           /\ rob'[k].num_mem_ops = rob[k].num_mem_ops - Cardinality(Part(C, k))
           /\ rob'[k].mem_depend_on_me = rob[k].mem_depend_on_me
           /\ Loads(k)' = Loads(k) /\ Stores(k)' = Stores(k)
  BY DoneRob
<1>2. \A k \in RobIndex :
        /\ rob'[k].num_mem_ops \in Int
        /\ rob'[k].num_mem_ops = Cardinality(WaitingLoads(rob, lq, k)')
                                   + Cardinality(WaitingStores(rob, sq, k)')
        /\ IsFiniteSet(Part(C, k))
        /\ Part(C, k) # {} => /\ IsMemory(k) /\ rob[k].num_mem_ops # 0
                              /\ rob[k].executed # "COMPLETED"
  BY DoneWaiting
<1>3. /\ Indices(rob) /\ LoadLinks(rob, lq) /\ LoadWaits(rob, lq, sq)
      /\ StoreLinks(rob, sq) /\ StoreSide
      /\ lq \in [LqIndex -> LsqType(LqIndex)] /\ sq \in [SqIndex -> LsqType(SqIndex)]
      /\ Enumerates(rtl[1], Sending(lq, LqIndex))
      /\ Enumerates(rtl[2], Reading(lq, LqIndex))
  BY DEF MInv, MemTypes, LoadSide, StoreSide
<1>4. Indices(rob)'
  BY <1>1, <1>2, <1>3 DEF Indices, SameQueues
<1>5. /\ \A p \in LqIndex : lq'[p] = IF p \in F THEN EmptyLsq ELSE lq[p]
      /\ lq' \in [LqIndex -> LsqType(LqIndex)]
  <2>1. EmptyLsq \in LsqType(LqIndex)
    BY DEF EmptyLsq, LsqType, NoProducer, Stage
  <2> QED
    BY <1>3, <2>1 DEF Emptied
<1>6. \A p \in LqIndex : Used(lq', p) <=> Used(lq, p) /\ p \notin F
  BY <1>5 DEF Used
<1>7. /\ \A p \in SqIndex : /\ sq'[p].rob_index = sq[p].rob_index
                            /\ sq'[p].data_index = sq[p].data_index
                            /\ sq'[p].translated = sq[p].translated
      /\ \A p \in SqIndex : p \notin G => sq'[p] = sq[p]
  <2>1. \A p \in SqIndex : sq[p] \in LsqType(SqIndex)
    BY <1>3
  <2>2. "COMPLETED" \in Stage
    BY DEF Stage
  <2> QED
    BY <2>1, <2>2, EntryUpdate DEF Emptied
<1>8. \A p \in SqIndex : Used(sq', p) <=> Used(sq, p)
  <2>1. ASSUME NEW p \in G
        PROVE  p \in SqIndex /\ Used(sq, p) /\ Used(sq', p)
    <3>1. p \in SqIndex /\ Used(sq, p)
      BY DEF Done
    <3>2. sq[p].rob_index \in RobIndex
      BY <1>3, <3>1 DEF StoreLinks
    <3>3. sq'[p] # EmptyLsq
      BY <1>7, <3>1, <3>2, UsedIndex
    <3> QED
      BY <3>1, <3>3 DEF Used
  <2> QED
    BY <1>7, <2>1 DEF Used
<1>10. /\ NowDone(rob, C) \in Nat
       /\ Cardinality(Finishes(rob')) = Cardinality(Finishes(rob)) + NowDone(rob, C)
  <2>1. \A d \in C : d[1] \in RobIndex
    <3>1. \A p \in F : lq[p].rob_index \in RobIndex
      BY <1>3 DEF Done, LoadLinks
    <3>2. \A p \in G : sq[p].rob_index \in RobIndex
      BY <1>3 DEF Done, StoreLinks
    <3> QED
      BY <3>1, <3>2 DEF Done
  <2>2. \A d \in C : d \in Part(C, d[1])
    BY DEF Part
  <2>3. \A d \in C : /\ d[1] \in RobIndex /\ IsMemory(d[1])
                     /\ rob[d[1]].executed # "COMPLETED" /\ rob[d[1]].num_mem_ops # 0
    BY <1>2, <2>1, <2>2
  <2>4. \A k \in RobIndex : /\ rob[k].num_mem_ops \in Int
                            /\ rob'[k].num_mem_ops
                                 = rob[k].num_mem_ops - Cardinality(Part(C, k))
                            /\ rob'[k].executed = rob[k].executed
    BY <1>1, <1>3 DEF Indices
  <2>5. \A k \in RobIndex : IsFiniteSet(Part(C, k))
    BY <1>2
  <2> QED
    BY <2>3, <2>4, <2>5, FinishesCount
<1>9. /\ inflight' \in [reg : Int, mem : Int]
      /\ inflight'.reg = inflight.reg
      /\ inflight'.mem = inflight.mem + NowDone(rob, C)
  <2>1. inflight \in [reg : Int, mem : Int]
    BY DEF MInv, MemTypes
  <2> QED
    BY <1>10, <2>1, MemAdds
<1>11. MemTypes'
  <2>1. inflight' \in [reg : Int, mem : Int]
    BY <1>9
  <2>2. UNCHANGED <<next_schedule, sq_head, sq_tail, rtl, sta, memory>>
    OBVIOUS
  <2>3. MemTypes
    BY DEF MInv
  <2> QED
    BY <1>4, <1>5, <2>1, <2>2, <2>3 DEF MemTypes
<1>12. StageTypes'
  BY <1>1 DEF MInv, StageTypes, SameFetch, SameSched
<1>13. ReadyListed'
  BY <1>1, ReadyFrame DEF MInv
<1>14. StoreSide'
  <2>1. \A p \in SqIndex : Used(sq', p) /\ sq'[p].translated # "COMPLETED" =>
                             sq'[p].fetched = "no"
    <3>1. ASSUME NEW p \in SqIndex, Used(sq', p), sq'[p].translated # "COMPLETED"
          PROVE  sq'[p].fetched = "no"
      <4>1. p \notin G
        BY <1>7, <3>1 DEF Done
      <4> QED
        BY <1>3, <1>7, <1>8, <3>1, <4>1 DEF StoreLinks
    <3> QED
      BY <3>1
  <2> QED
    BY <1>1, <1>3, <1>7, <1>8, <2>1, StoreSideStep
<1>15. LoadSide'
  <2>1. LoadLinks(rob, lq)'
    <3>1. \A k \in RobIndex : Busy(k)' <=> Busy(k)
      BY <1>1, SameProgram
    <3>2. ASSUME NEW p \in LqIndex, Used(lq', p)
          PROVE  /\ lq'[p].rob_index \in RobIndex /\ Busy(lq[p].rob_index)'
                 /\ lq'[p].data_index \in 1 .. Loads(lq[p].rob_index)'
                 /\ rob'[lq'[p].rob_index].lq_index[lq'[p].data_index] = p
                 /\ lq'[p].producer_id # NoProducer => lq'[p].translated = "INFLIGHT"
                 /\ lq'[p].translated # "COMPLETED" => lq'[p].fetched = "no"
                 /\ lq'[p].fetched # "COMPLETED"
      <4>1. lq'[p] = lq[p] /\ Used(lq, p)
        BY <1>5, <1>6, <3>2
      <4>2. PICK i : i = lq[p].rob_index
        OBVIOUS
      <4>3. /\ i \in RobIndex /\ Busy(i) /\ lq[p].data_index \in 1 .. Loads(i)
            /\ rob[i].lq_index[lq[p].data_index] = p
            /\ lq[p].producer_id # NoProducer => lq[p].translated = "INFLIGHT"
            /\ lq[p].translated # "COMPLETED" => lq[p].fetched = "no"
            /\ lq[p].fetched # "COMPLETED"
        BY <1>3, <4>1, <4>2 DEF LoadLinks
      <4>4. Busy(i)' /\ lq[p].data_index \in 1 .. Loads(i)'
        BY <1>1, <3>1, <4>3
      <4>5. rob'[i].lq_index = rob[i].lq_index
        BY <1>1, <4>3 DEF SameQueues
      <4>6. lq'[p].rob_index = i
        BY <4>1, <4>2
      <4> QED
        BY <4>1, <4>3, <4>4, <4>5, <4>6 DEF Busy, Loads, Op
    <3> QED
      BY <3>2 DEF LoadLinks, Used
  <2>2. LoadWaits(rob, lq, sq)'
    <3>1. \A i, k \in RobIndex : \A a :
            /\ StoresTo(i, a)' = StoresTo(i, a)
            /\ LastStore(k, i, a)' <=> LastStore(k, i, a)
      BY <1>1, SameProgram
    <3>2. \A k \in RobIndex : Op(k)' = Op(k)
      BY <1>1, SameProgram
    <3>3. \A p \in LqIndex : Used(lq, p) => lq[p].rob_index \in RobIndex
      BY <1>3 DEF LoadLinks
    <3>4. \A p \in SqIndex : Used(sq, p) => sq[p].rob_index \in RobIndex
      BY <1>3 DEF StoreLinks
    <3>5. \A p \in SqIndex : Used(sq, p) => StoreAddr(sq[p])' = StoreAddr(sq[p])
      BY <1>7, <3>2, <3>4 DEF StoreAddr
    <3>6. \A p \in LqIndex : Used(lq', p) => LoadAddr(lq[p])' = LoadAddr(lq[p])
      BY <1>5, <1>6, <3>2, <3>3 DEF LoadAddr
    <3>7. ASSUME NEW p \in LqIndex, NEW i \in RobIndex, NEW a, NEW id,
                 Used(lq', p), lq'[p].rob_index = i, LoadAddr(lq[p])' = a,
                 lq'[p].producer_id = id
          PROVE  Follows(rob, sq, i, a, id)'
      <4>1. /\ Used(lq, p) /\ p \notin F /\ lq[p].rob_index = i /\ LoadAddr(lq[p]) = a
            /\ lq[p].producer_id = id
        BY <1>5, <1>6, <3>6, <3>7
      <4>2. Follows(rob, sq, i, a, id)
        BY <1>3, <4>1 DEF LoadWaits
      <4> QED
        <5>1. StoresTo(i, a)' = {} => id = NoProducer
          BY <3>1, <4>2 DEF Follows
        <5>2. ASSUME NEW k \in RobIndex, LastStore(k, i, a)'
              PROVE  id = rob'[k].id /\ i \in rob'[k].mem_depend_on_me /\ Unstored(sq, k, a)'
          <6>1. LastStore(k, i, a)
            BY <3>1, <5>2
          <6>2. id = rob[k].id /\ i \in rob[k].mem_depend_on_me /\ Unstored(sq, k, a)
            BY <4>2, <6>1 DEF Follows
          <6>3. ASSUME NEW g \in SqIndex, Used(sq', g), sq'[g].rob_index = k,
                       StoreAddr(sq[g])' = a
                PROVE  sq'[g].fetched # "COMPLETED"
            <7>1. Used(sq, g) /\ sq[g].rob_index = k /\ StoreAddr(sq[g]) = a
              BY <1>7, <1>8, <3>5, <6>3
            <7>2. g \notin G
              BY <4>1, <6>1, <7>1 DEF Released
            <7> QED
              BY <1>7, <6>2, <7>1, <7>2 DEF Unstored
          <6>4. Unstored(sq, k, a)'
            BY <6>3 DEF Unstored, Used
          <6> QED
            BY <1>1, <6>2, <6>4 DEF SameId
        <5> QED
          BY <5>1, <5>2 DEF Follows
    <3> QED
      BY <3>7 DEF LoadWaits, Used
  <2>3. Sending(lq', LqIndex) = Sending(lq, LqIndex)
    BY <1>5, <1>6 DEF Sending, Done
  <2>4. Reading(lq', LqIndex) = Reading(lq, LqIndex)
    <3>1. \A p \in F : p \notin Reading(lq, LqIndex)
      BY DEF Done
    <3> QED
      BY <1>5, <1>6, <3>1 DEF Reading
  <2>5. /\ Enumerates(rtl[1], Sending(lq, LqIndex))'
        /\ Enumerates(rtl[2], Reading(lq, LqIndex))'
    <3>1. Sending(lq, LqIndex)' = Sending(lq, LqIndex)
      BY <2>3 DEF Sending, Used
    <3>2. Reading(lq, LqIndex)' = Reading(lq, LqIndex)
      BY <2>4 DEF Reading, Used
    <3> QED
      BY <1>3, <3>1, <3>2 DEF Enumerates
  <2> QED
    BY <2>1, <2>2, <2>5 DEF LoadSide
<1>16. Counting'
  <2>1. OpsLeft(rob, lq, sq)'
    BY <1>2 DEF OpsLeft
  <2>2. \A k \in RobIndex : IsMemory(k)' <=> IsMemory(k)
    BY <1>1, SameProgram
  <2>3. \A k \in RobIndex : Busy(k)' <=> Busy(k)
    BY <1>1, SameProgram
  <2>4. Executes(rob)'
    <3>1. ASSUME NEW k \in RobIndex, IsMemory(k)', rob'[k].executed = "COMPLETED"
          PROVE  rob'[k].num_mem_ops = 0
      <4>1. IsMemory(k) /\ rob[k].executed = "COMPLETED"
        BY <1>1, <2>2, <3>1
      <4>2. rob[k].num_mem_ops = 0
        BY <4>1 DEF MInv, Counting, Executes
      <4>3. Part(C, k) = {}
        BY <1>2, <4>1
      <4>4. Cardinality(Part(C, k)) = 0
        BY <4>3, FS_EmptySet
      <4> QED
        BY <1>1, <4>2, <4>4
    <3>2. ASSUME NEW k \in RobIndex, IsMemory(k)', rob'[k].executed # "no"
          PROVE  /\ \A j \in 1 .. Loads(k)' : rob'[k].lq_index[j] # NoIndex
                 /\ \A m \in 1 .. Stores(k)' : rob'[k].sq_index[m] # NoIndex
      <4>1. IsMemory(k) /\ rob[k].executed # "no"
        BY <1>1, <2>2, <3>2
      <4> QED
        BY <1>1, <4>1 DEF MInv, Counting, Executes, SameQueues
    <3> QED
      BY <3>1, <3>2 DEF Executes
  <2>5. Running' = Running
    BY <1>1, <2>2, <2>3 DEF Running
  <2>6. Finishes(rob)' = Finishes(rob')
    BY <2>2 DEF Finishes
  <2>7. inflight.reg = Cardinality(Running) /\ inflight.mem = Cardinality(Finishes(rob))
    BY DEF MInv, Counting
  <2>8. inflight'.reg = Cardinality(Running')
    BY <1>9, <2>5, <2>7
  <2>9. inflight'.mem = Cardinality(Finishes(rob)')
    BY <1>9, <1>10, <2>6, <2>7
  <2> QED
    BY <2>1, <2>4, <2>8, <2>9 DEF Counting
<1>17. History'
  BY <1>1, HistoryFrame DEF MInv
<1> QED
  BY <1>11, <1>12, <1>13, <1>14, <1>15, <1>16, <1>17 DEF MInv

LEMMA LoadDoneMem ==
  ASSUME CInv, MInv, NEW q \in LqIndex, LoadDone(q)
  PROVE  MInv'
<1> DEFINE d == <<lq[q].rob_index, lq[q].data_index>>
           v == memory[LoadAddr(lq[q])]
<1>1. /\ lq[q].fetched = "INFLIGHT"
      /\ Without({d}, {d}, v)
      /\ inflight' = [inflight EXCEPT !.mem = @ + NowDone(rob, {d})]
      /\ lq' = [lq EXCEPT ![q] = EmptyLsq]
      /\ UNCHANGED <<program, instr_unique_id, head, next_schedule, rte, rtl, rts, sq,
                     sq_head, sq_tail, sta, memory, seen>>
  BY DEF LoadDone, Without, front, lists, history
<1> HIDE DEF v
<1>2. /\ LoadLinks(rob, lq) /\ lq \in [LqIndex -> LsqType(LqIndex)]
      /\ sq \in [SqIndex -> LsqType(SqIndex)]
      /\ rts = <<rts[1], rts[2]>> /\ rts[1] \in Seq(SqIndex) /\ rts[2] \in Seq(SqIndex)
      /\ Enumerates(rts[1], Sending(sq, SqIndex))
      /\ Enumerates(rts[2], Reading(sq, SqIndex))
  BY DEF MInv, MemTypes, LoadSide, StoreSide
<1>3. Used(lq, q)
  BY <1>1 DEF Used, EmptyLsq
<1>4. lq[q].translated = "COMPLETED"
  BY <1>1, <1>2, <1>3 DEF LoadLinks
<1>5. Done({d}, {q}, {})
  <2>1. q \notin Reading(lq, LqIndex)
    BY <1>1 DEF Reading
  <2> QED
    BY <1>3, <1>4, <2>1 DEF Done
<1>6. Emptied({q}, {})
  BY <1>1, <1>2 DEF Emptied
<1>7. Released({q}, {})
  BY DEF Released
<1>8. /\ Enumerates(rts'[1], Sending(sq', SqIndex))
      /\ Enumerates(rts'[2], Reading(sq', SqIndex))
      /\ sq' \in [SqIndex -> LsqType(SqIndex)]
      /\ rts' = <<rts'[1], rts'[2]>> /\ rts'[1] \in Seq(SqIndex) /\ rts'[2] \in Seq(SqIndex)
  BY <1>1, <1>2
<1> HIDE DEF d
<1> QED
  BY <1>1, <1>5, <1>6, <1>7, <1>8, OpsDone

LEMMA ExecuteStoreMem ==
  ASSUME CInv, MInv, ExecuteStore
  PROVE  MInv'
<1> DEFINE q == Head(rts[2])
           k == sq[q].rob_index
           D == Dependents(q)
           E == Forwarded(q)
           C == E \cup {<<k, 0>>}
           v == StoreId(sq[q])
           F == {l \in LqIndex : \E d \in D : LqOf(d) = l}
<1>1. /\ rts[2] # <<>> /\ Matched(q)
      /\ sq' = [sq EXCEPT ![q].fetched = "COMPLETED"]
      /\ Without(C, E, v)
      /\ inflight' = [inflight EXCEPT !.mem = @ + NowDone(rob, C)]
      /\ lq' = [l \in LqIndex |->
                 IF \E d \in D : LqOf(d) = l THEN EmptyLsq ELSE lq[l]]
      /\ rts' = [rts EXCEPT ![2] = Tail(rts[2])]
      /\ UNCHANGED <<program, instr_unique_id, head, next_schedule, rte, rtl,
                     sq_head, sq_tail, sta, memory, seen>>
  BY DEF ExecuteStore, Without, front, history
<1>2. /\ LoadLinks(rob, lq) /\ LoadWaits(rob, lq, sq) /\ StoreLinks(rob, sq)
      /\ lq \in [LqIndex -> LsqType(LqIndex)] /\ sq \in [SqIndex -> LsqType(SqIndex)]
      /\ rts = <<rts[1], rts[2]>> /\ rts[1] \in Seq(SqIndex) /\ rts[2] \in Seq(SqIndex)
      /\ Enumerates(rts[1], Sending(sq, SqIndex))
      /\ Enumerates(rts[2], Reading(sq, SqIndex))
      /\ Indices(rob)
  BY DEF MInv, MemTypes, LoadSide, StoreSide
<1>3. /\ q \in Reading(sq, SqIndex) /\ q \in SqIndex /\ Tail(rts[2]) \in Seq(SqIndex)
      /\ Enumerates(Tail(rts[2]), Reading(sq, SqIndex) \ {q})
  BY <1>1, <1>2, EnumTail
<1> HIDE DEF q
<1>4. /\ Used(sq, q) /\ sq[q].translated = "COMPLETED" /\ sq[q].fetched = "no"
      /\ k \in RobIndex /\ Busy(k)
  BY <1>2, <1>3 DEF Reading, StoreLinks
<1>5. \A d \in D : LqOf(d) \in LqIndex
  <2>1. ASSUME NEW i \in rob[k].mem_depend_on_me, NEW j \in DOMAIN rob[i].lq_index,
               rob[i].lq_index[j] # NoIndex
        PROVE  i \in RobIndex /\ rob[i].lq_index[j] \in LqIndex
    <3>1. i \in RobIndex
      BY <1>2, <1>4 DEF Indices
    <3>2. rob[i].lq_index \in [1 .. Loads(i) -> LqIndex \cup {NoIndex}]
      BY <1>2, <3>1 DEF Indices
    <3> QED
      BY <2>1, <3>1, <3>2
  <2>2. \A d \in D : \E i \in rob[k].mem_depend_on_me : \E j \in DOMAIN rob[i].lq_index :
          rob[i].lq_index[j] # NoIndex /\ d = <<i, j>>
    BY DEF Dependents
  <2> QED
    BY <2>1, <2>2 DEF LqOf
<1>6. \A d \in D : lq[LqOf(d)].producer_id = v
  BY <1>1 DEF Matched
<1>e. /\ \A e \in E : \E d \in D : e = <<lq[LqOf(d)].rob_index, lq[LqOf(d)].data_index>>
      /\ \A d \in D : <<lq[LqOf(d)].rob_index, lq[LqOf(d)].data_index>> \in E
  BY DEF Forwarded
<1>7. \A i \in RobIndex : \A j \in 1 .. Loads(i) :
        /\ i \in rob[k].mem_depend_on_me /\ rob[i].lq_index[j] # NoIndex
        /\ Op(i).loads[j] = StoreAddr(sq[q])
        => <<i, j>> \in D
  <2>1. \A i \in RobIndex : DOMAIN rob[i].lq_index = 1 .. Loads(i)
    BY <1>2 DEF Indices
  <2> DEFINE M(d) == {n \in DOMAIN rob[d].lq_index :
                       /\ rob[d].lq_index[n] # NoIndex
                       /\ Op(d).loads[n] = StoreAddr(sq[q])}
             X(d) == {<<d, n>> : n \in M(d)}
  <2>2. D = UNION {X(d) : d \in rob[k].mem_depend_on_me}
    BY DEF Dependents
  <2>3. ASSUME NEW i \in RobIndex, NEW j \in 1 .. Loads(i),
               i \in rob[k].mem_depend_on_me, rob[i].lq_index[j] # NoIndex,
               Op(i).loads[j] = StoreAddr(sq[q])
        PROVE  <<i, j>> \in X(i)
    <3>1. j \in M(i)
      BY <2>1, <2>3
    <3> HIDE DEF M
    <3> QED
      BY <3>1
  <2> HIDE DEF X, D
  <2> QED
    BY <2>2, <2>3
<1>8. v # NoProducer
  BY <1>4 DEF StoreId, Busy, NoProducer
<1> HIDE DEF D, E, k, v
<1>9. \A p \in F : /\ p \in LqIndex /\ lq[p].producer_id = v
                   /\ <<lq[p].rob_index, lq[p].data_index>> \in E
  BY <1>6, <1>e
<1>10. \A e \in E : \E p \in F : e = <<lq[p].rob_index, lq[p].data_index>>
  BY <1>5, <1>e
<1>11. \A p \in F : /\ p \in LqIndex /\ Used(lq, p) /\ lq[p].translated = "INFLIGHT"
                    /\ p \notin Reading(lq, LqIndex)
  <2>1. ASSUME NEW p \in F
        PROVE  /\ p \in LqIndex /\ Used(lq, p) /\ lq[p].translated = "INFLIGHT"
               /\ p \notin Reading(lq, LqIndex)
    <3>1. p \in LqIndex /\ lq[p].producer_id = v
      BY <1>9
    <3>2. Used(lq, p)
      BY <1>8, <3>1 DEF Used, EmptyLsq
    <3>3. lq[p].translated = "INFLIGHT"
      BY <1>2, <1>8, <3>1, <3>2 DEF LoadLinks
    <3> QED
      BY <3>1, <3>2, <3>3 DEF Reading
  <2> QED
    BY <2>1
<1>12. /\ \A p \in F : <<lq[p].rob_index, lq[p].data_index>> \in C
       /\ <<k, 0>> \in C
       /\ \A e \in C : \/ \E p \in F : e = <<lq[p].rob_index, lq[p].data_index>>
                       \/ e = <<k, 0>>
  BY <1>9, <1>10
<1>13. F \subseteq LqIndex
  OBVIOUS
<1>14. \A p \in LqIndex : p \in F <=> \E d \in D : LqOf(d) = p
  OBVIOUS
<1> HIDE DEF F, C
<1>15. Done(C, F, {q})
  <2>1. \A p \in F : Used(lq, p) /\ lq[p].translated # "no" /\ p \notin Reading(lq, LqIndex)
    BY <1>11
  <2>2. \A e : e \in C <=> \/ \E p \in F : e = <<lq[p].rob_index, lq[p].data_index>>
                           \/ \E p \in {q} : e = <<sq[p].rob_index, 0>>
    BY <1>12 DEF k
  <2> QED
    BY <1>3, <1>4, <1>13, <2>1, <2>2 DEF Done
<1>16. /\ \A p \in SqIndex : sq'[p] = IF p \in {q} THEN [sq[p] EXCEPT !.fetched = "COMPLETED"]
                                                    ELSE sq[p]
       /\ sq' \in [SqIndex -> LsqType(SqIndex)]
       /\ sq'[q].rob_index = k
  <2> DEFINE e == [sq[q] EXCEPT !.fetched = "COMPLETED"]
  <2>1. e \in LsqType(SqIndex) /\ e.rob_index = k
    <3>1. sq[q] \in LsqType(SqIndex) /\ "COMPLETED" \in Stage
      BY <1>2, <1>3 DEF Stage
    <3> QED
      BY <3>1, EntryUpdate DEF k
  <2>2. sq' = [sq EXCEPT ![q] = e]
    BY <1>1
  <2>3. e = [sq[q] EXCEPT !.fetched = "COMPLETED"]
    OBVIOUS
  <2> HIDE DEF e
  <2> QED
    BY <1>2, <1>3, <2>1, <2>2, <2>3
<1>17. Emptied(F, {q})
  BY <1>1, <1>14, <1>16 DEF Emptied
<1>18. Released(F, {q})
  <2>1. ASSUME NEW p \in LqIndex, NEW i \in RobIndex, NEW a, Used(lq, p), p \notin F,
               i = lq[p].rob_index, a = StoreAddr(sq[q]), a = LoadAddr(lq[p]),
               LastStore(k, i, a)
        PROVE  FALSE
    <3>1. PICK id : id = lq[p].producer_id
      OBVIOUS
    <3>2. Follows(rob, sq, i, a, id)
      BY <1>2, <2>1, <3>1 DEF LoadWaits
    <3>3. i \in rob[k].mem_depend_on_me
      BY <1>4, <2>1, <3>2 DEF Follows
    <3>4. PICK j : j = lq[p].data_index
      OBVIOUS
    <3>5. j \in 1 .. Loads(i) /\ rob[i].lq_index[j] = p
      BY <1>2, <2>1, <3>4 DEF LoadLinks
    <3>6. Op(i).loads[j] = StoreAddr(sq[q])
      BY <2>1, <3>4 DEF LoadAddr
    <3>7. rob[i].lq_index[j] # NoIndex
      BY <3>5 DEF LqIndex, NoIndex
    <3>8. <<i, j>> \in D
      BY <1>7, <3>3, <3>5, <3>6, <3>7
    <3>9. p \in F
      BY <1>14, <3>5, <3>8 DEF LqOf
    <3> QED
      BY <2>1, <3>9
  <2> QED
    BY <2>1 DEF Released, k
<1>19. /\ rts' = <<rts'[1], rts'[2]>> /\ rts'[2] = Tail(rts[2]) /\ rts'[1] = rts[1]
  BY <1>1, <1>2, PairUpdate
<1>20. Used(sq', q)
  BY <1>4, <1>16, UsedIndex DEF Used
<1>21. /\ Sending(sq', SqIndex) = Sending(sq, SqIndex)
       /\ Reading(sq', SqIndex) = Reading(sq, SqIndex) \ {q}
  <2> DEFINE e == sq'[q]
  <2>1. e.translated = "COMPLETED" /\ e.fetched = "COMPLETED"
    <3>1. sq[q] \in LsqType(SqIndex)
      BY <1>2, <1>3
    <3>2. e = [sq[q] EXCEPT !.fetched = "COMPLETED"]
      BY <1>3, <1>16
    <3> QED
      BY <1>4, <3>1, <3>2 DEF LsqType
  <2>2. \A p \in SqIndex : sq'[p] = IF p = q THEN e ELSE sq[p]
    BY <1>16
  <2> HIDE DEF e
  <2>3. /\ Sending(sq', SqIndex) = Sending(sq, SqIndex) \ {q}
        /\ Reading(sq', SqIndex) = Reading(sq, SqIndex) \ {q}
    BY <1>3, <1>4, <1>20, <2>1, <2>2, Moves
  <2>4. q \notin Sending(sq, SqIndex)
    BY <1>4 DEF Sending
  <2> QED
    BY <2>3, <2>4
<1>22. /\ rts' = <<rts'[1], rts'[2]>>
       /\ rts'[1] \in Seq(SqIndex) /\ rts'[2] \in Seq(SqIndex)
       /\ Enumerates(rts'[1], Sending(sq', SqIndex))
       /\ Enumerates(rts'[2], Reading(sq', SqIndex))
  BY <1>2, <1>3, <1>19, <1>21
<1> QED
  BY <1>1, <1>15, <1>16, <1>17, <1>18, <1>22, OpsDone

-----------------------------------------------------------------------------
(* Places in the store queue, counted from its head.                       *)

LEMMA PosValue ==
  ASSUME NEW h \in SqIndex, NEW q \in SqIndex
  PROVE  /\ Pos(h, q) = IF q >= h THEN q - h ELSE q - h + SqSize
         /\ Pos(h, q) \in 0 .. SqSize - 1
<1>1. SqSize \in Nat /\ SqSize >= 1 /\ h \in 0 .. SqSize - 1 /\ q \in 0 .. SqSize - 1
  BY CoreSizes DEF SqIndex
<1>2. CASE q >= h
  <2>1. (q - h + SqSize) = 1 * SqSize + (q - h) /\ q - h \in 0 .. SqSize - 1
    BY <1>1, <1>2
  <2>2. (q - h + SqSize) % SqSize = q - h
    BY <1>1, <2>1
  <2> QED
    BY <1>1, <1>2, <2>1, <2>2 DEF Pos
<1>3. CASE q < h
  <2>1. q - h + SqSize \in 0 .. SqSize - 1
    BY <1>1, <1>3
  <2>2. (q - h + SqSize) % SqSize = q - h + SqSize
    BY <1>1, <2>1
  <2> QED
    BY <1>1, <1>3, <2>1, <2>2 DEF Pos
<1> QED
  BY <1>1, <1>2, <1>3

LEMMA PosInjective ==
  ASSUME NEW h \in SqIndex, NEW p \in SqIndex, NEW q \in SqIndex, Pos(h, p) = Pos(h, q)
  PROVE  p = q
<1>1. SqSize \in Nat /\ h \in 0 .. SqSize - 1 /\ p \in 0 .. SqSize - 1 /\ q \in 0 .. SqSize - 1
  BY CoreSizes DEF SqIndex
<1>2. /\ Pos(h, p) = IF p >= h THEN p - h ELSE p - h + SqSize
      /\ Pos(h, q) = IF q >= h THEN q - h ELSE q - h + SqSize
  BY PosValue
<1>3. (IF p >= h THEN p - h ELSE p - h + SqSize) = (IF q >= h THEN q - h ELSE q - h + SqSize)
  BY <1>2
<1> QED
  BY <1>1, <1>3

\* The entry m places after the head.
LEMMA SlotValue ==
  ASSUME NEW h \in SqIndex, NEW m \in 0 .. SqSize
  PROVE  /\ (h + m) % SqSize = IF h + m < SqSize THEN h + m ELSE h + m - SqSize
         /\ (h + m) % SqSize \in SqIndex
<1>1. SqSize \in Nat /\ SqSize >= 1 /\ h \in 0 .. SqSize - 1
  BY CoreSizes DEF SqIndex
<1>2. CASE h + m < SqSize
  <2>1. h + m \in 0 .. SqSize - 1
    BY <1>1, <1>2
  <2> QED
    BY <1>1, <1>2, <2>1 DEF SqIndex
<1>3. CASE h + m >= SqSize
  <2>1. (h + m) = 1 * SqSize + (h + m - SqSize) /\ h + m - SqSize \in 0 .. SqSize - 1
    BY <1>1, <1>3
  <2>2. (h + m) % SqSize = h + m - SqSize
    BY <1>1, <2>1
  <2> QED
    BY <1>1, <1>3, <2>1, <2>2 DEF SqIndex
<1> QED
  BY <1>1, <1>2, <1>3

LEMMA SlotPos ==
  ASSUME NEW h \in SqIndex, NEW m \in 0 .. SqSize - 1
  PROVE  Pos(h, (h + m) % SqSize) = m
<1>1. SqSize \in Nat /\ SqSize >= 1 /\ h \in 0 .. SqSize - 1
  BY CoreSizes DEF SqIndex
<1>2. m \in 0 .. SqSize
  BY <1>1
<1>3. PICK s \in SqIndex : s = (h + m) % SqSize
  BY <1>2, SlotValue
<1>4. s = IF h + m < SqSize THEN h + m ELSE h + m - SqSize
  BY <1>2, <1>3, SlotValue
<1>5. Pos(h, s) = IF s >= h THEN s - h ELSE s - h + SqSize
  BY PosValue
<1>6. Pos(h, s) = m
  BY <1>1, <1>4, <1>5
<1> QED
  BY <1>3, <1>6

\* A head that has moved by c.
LEMMA Shifted ==
  ASSUME NEW h \in SqIndex, NEW c \in 0 .. SqSize, NEW q \in SqIndex
  PROVE  Pos((h + c) % SqSize, q) = IF Pos(h, q) >= c THEN Pos(h, q) - c
                                    ELSE Pos(h, q) - c + SqSize
<1>1. SqSize \in Nat /\ SqSize >= 1 /\ h \in 0 .. SqSize - 1 /\ q \in 0 .. SqSize - 1
  BY CoreSizes DEF SqIndex
<1>2. PICK g \in SqIndex : g = (h + c) % SqSize
  BY SlotValue
<1>3. g = IF h + c < SqSize THEN h + c ELSE h + c - SqSize
  BY <1>2, SlotValue
<1>4. Pos(g, q) = IF q >= g THEN q - g ELSE q - g + SqSize
  BY PosValue
<1>5. Pos(h, q) = IF q >= h THEN q - h ELSE q - h + SqSize
  BY PosValue
<1>6. Pos(g, q) = IF Pos(h, q) >= c THEN Pos(h, q) - c ELSE Pos(h, q) - c + SqSize
  BY <1>1, <1>3, <1>4, <1>5
<1> QED
  BY <1>2, <1>6

\* There are m entries before the one at place m.
LEMMA PosBelow ==
  ASSUME NEW h \in SqIndex, NEW m \in 0 .. SqSize
  PROVE  Cardinality({p \in SqIndex : Pos(h, p) < m}) = m
<1> DEFINE D == {p \in SqIndex : Pos(h, p) < m}
           f == [p \in D |-> Pos(h, p)]
<1>1. SqSize \in Nat /\ SqSize >= 1
  BY CoreSizes
<1>2. \A p \in SqIndex : Pos(h, p) \in 0 .. SqSize - 1
  BY PosValue
<1>3. f \in [D -> 0 .. m - 1]
  BY <1>1, <1>2
<1>4. \A p, q \in D : f[p] = f[q] => p = q
  BY PosInjective
<1>5. ASSUME NEW x \in 0 .. m - 1
      PROVE  \E p \in D : f[p] = x
  <2>1. x \in 0 .. SqSize - 1 /\ x \in 0 .. SqSize
    BY <1>1
  <2>2. PICK s \in SqIndex : s = (h + x) % SqSize
    BY <2>1, SlotValue
  <2>3. Pos(h, s) = x
    BY <2>1, <2>2, SlotPos
  <2> QED
    BY <1>1, <2>3
<1>6. ExistsBijection(D, 0 .. m - 1)
  <2>1. f \in Bijection(D, 0 .. m - 1)
    BY <1>3, <1>4, <1>5 DEF Bijection, Injection, Surjection, IsInjective
  <2> QED
    BY <2>1 DEF ExistsBijection
<1>7. IsFiniteSet(D)
  BY FiniteIndices
<1>8. Cardinality(0 .. m - 1) = Cardinality(D)
  BY <1>6, <1>7, FS_Bijection
<1>9. Cardinality(0 .. m - 1) = m
  BY <1>1, FS_Interval
<1> QED
  BY <1>8, <1>9

\* A set of entries that contains all those before its own is the first ones.
LEMMA Prefix ==
  ASSUME NEW h \in SqIndex, NEW F \in SUBSET SqIndex,
         \A p \in SqIndex : \A q \in F : Pos(h, p) <= Pos(h, q) => p \in F
  PROVE  /\ Cardinality(F) \in 0 .. SqSize
         /\ \A q \in SqIndex : q \in F <=> Pos(h, q) < Cardinality(F)
<1>1. SqSize \in Nat /\ SqSize >= 1
  BY CoreSizes
<1>2. \A p \in SqIndex : Pos(h, p) \in 0 .. SqSize - 1
  BY PosValue
<1>3. IsFiniteSet(F)
  BY FiniteIndices
<1>4. IsFiniteSet(SqIndex)
  BY FiniteIndices
<1>5. Cardinality(F) \in Nat
  BY <1>3, FS_CardinalityType
<1>6. Cardinality(SqIndex) = SqSize
  <2>1. Cardinality(0 .. SqSize - 1) = SqSize
    BY <1>1, FS_Interval
  <2> QED
    BY <2>1 DEF SqIndex
<1>7. Cardinality(F) <= Cardinality(SqIndex)
  BY <1>4, FS_Subset
<1>8. ASSUME NEW q \in SqIndex
      PROVE  q \in F <=> Pos(h, q) < Cardinality(F)
  <2> DEFINE D == {p \in SqIndex : Pos(h, p) < Pos(h, q)}
  <2>1. Pos(h, q) \in 0 .. SqSize /\ Pos(h, q) \in Nat
    BY <1>1, <1>2
  <2>2. Cardinality(D) = Pos(h, q)
    BY <2>1, PosBelow
  <2>3. IsFiniteSet(D)
    BY FiniteIndices
  <2>4. CASE q \in F
    <3>1. D \in SUBSET F
      BY <1>2, <2>4
    <3>2. D # F
      BY <2>1, <2>4
    <3> HIDE DEF D
    <3>3. Cardinality(D) <= Cardinality(F) /\ Cardinality(F) # Cardinality(D)
      BY <1>3, <3>1, <3>2, FS_Subset
    <3> QED
      BY <1>5, <2>1, <2>2, <2>4, <3>3
  <2>5. CASE q \notin F
    <3>1. F \in SUBSET D
      BY <1>2, <2>5
    <3> HIDE DEF D
    <3>2. Cardinality(F) <= Cardinality(D)
      BY <2>3, <3>1, FS_Subset
    <3> QED
      BY <1>5, <2>1, <2>2, <2>5, <3>2
  <2> QED
    BY <2>4, <2>5
<1> QED
  BY <1>1, <1>5, <1>6, <1>7, <1>8

-----------------------------------------------------------------------------
(* Retirement.                                                             *)

LEMMA RetireRob ==
  ASSUME CInv, Retire, NEW h \in RobIndex, h = head
  PROVE  /\ head' \in RobIndex
         /\ \A k \in RobIndex : k = head' => k # h /\ Age(k) = 1
         /\ \A k \in RobIndex :
              /\ Age(k) \in 0 .. RobSize - 1
              /\ Age(k)' = IF k = h THEN RobSize - 1 ELSE Age(k) - 1
              /\ k # h <=> Age(k) # 0
         /\ \A k \in RobIndex : k # h =>
              /\ rob'[k] = rob[k]
              /\ Busy(k)' <=> Busy(k)
              /\ Op(k)' = Op(k)
              /\ IsMemory(k)' <=> IsMemory(k)
              /\ Loads(k)' = Loads(k) /\ Stores(k)' = Stores(k)
         /\ rob'[h] = EmptyInstr /\ ~Busy(h)' /\ ~IsMemory(h)'
         /\ Loads(h)' = 0 /\ Stores(h)' = 0
         /\ \A k \in RobIndex : Busy(k) =>
              rob[k].id \in Nat /\ rob[h].id \in Nat /\ (k # h => rob[h].id < rob[k].id)
<1>1. /\ Busy(h) /\ rob' = [rob EXCEPT ![h] = EmptyInstr] /\ head' = Next1(head, RobSize)
      /\ program' = program
  BY DEF Retire
<1>2. RobSize \in Nat /\ RobSize >= 2 /\ head \in RobIndex /\ head' \in RobIndex
  BY <1>1, NextValue, CoreSizes
<1>3. EmptyInstr.id = 0
  BY DEF EmptyInstr
<1>4. \A k \in RobIndex : rob'[k] = IF k = h THEN EmptyInstr ELSE rob[k]
  BY <1>1 DEF CInv, Types, Shaped
<1>5. /\ Age(h) = 0
      /\ \A k \in RobIndex : /\ Age(k) \in 0 .. RobSize - 1
                             /\ Age(k)' = IF Age(k) = 0 THEN RobSize - 1 ELSE Age(k) - 1
                             /\ k # h => Age(k) # 0
  <2>1. \A k \in RobIndex : Age(k)' = IF Age(k) = 0 THEN RobSize - 1 ELSE Age(k) - 1
    BY <1>1, <1>2, RetireAge
  <2>2. \A k \in RobIndex : Age(k) \in 0 .. RobSize - 1
    BY <1>2, AgeValue
  <2>3. Age(h) = 0
    BY <1>2, HeadAge
  <2>4. \A k \in RobIndex : k # h => Age(k) # 0
    BY <1>2, <2>3, AgeInjective
  <2> QED
    BY <1>2, <2>1, <2>2, <2>3, <2>4
<1>6. \A k \in RobIndex : k # h =>
        /\ rob'[k] = rob[k]
        /\ Busy(k)' <=> Busy(k)
        /\ Op(k)' = Op(k)
        /\ IsMemory(k)' <=> IsMemory(k)
        /\ Loads(k)' = Loads(k) /\ Stores(k)' = Stores(k)
  BY <1>1, <1>4 DEF Busy, Op, IsMemory, Loads, Stores
<1>7. /\ rob'[h] = EmptyInstr /\ ~Busy(h)' /\ ~IsMemory(h)'
      /\ Loads(h)' = 0 /\ Stores(h)' = 0
  BY <1>3, <1>4 DEF Busy, IsMemory, Loads, Stores
<1>8. ASSUME NEW k \in RobIndex, k = head'
      PROVE  k # h /\ Age(k) = 1
  <2>1. Age(k) = Wrap(Age(h) + 1)
    BY <1>1, <1>2, <1>8, NextAge
  <2>2. Age(k) = 1
    BY <1>2, <1>5, <2>1 DEF Wrap
  <2> QED
    BY <1>5, <2>2
<1>9. ASSUME NEW k \in RobIndex, Busy(k)
      PROVE  rob[k].id \in Nat /\ rob[h].id \in Nat /\ (k # h => rob[h].id < rob[k].id)
  <2>1. PICK n \in 0 .. RobSize, t \in 0 .. RobSize, f \in 0 .. RobSize : Window(n, t, f)
    BY DEF CInv, FrontEnd
  <2>2. instr_unique_id \in Nat /\ n < instr_unique_id
    <3>1. Len(program) \in Nat
      BY ProgramsAreTraces, LenProperties DEF CInv, Types
    <3> QED
      BY <2>1, <3>1 DEF CInv, Types, Window
  <2>3. /\ rob[k].id = IF Age(k) < n THEN instr_unique_id - n + Age(k) ELSE 0
        /\ rob[h].id = IF Age(h) < n THEN instr_unique_id - n + Age(h) ELSE 0
    BY <2>1 DEF Window
  <2>4. rob[k].id # 0 /\ rob[h].id # 0
    BY <1>1, <1>9 DEF Busy
  <2> QED
    BY <1>2, <1>5, <2>1, <2>2, <2>3, <2>4
<1> QED
  BY <1>2, <1>5, <1>6, <1>7, <1>8, <1>9

\* What a finished head leaves in the queues: its stores, done, and no load.
LEMMA HeadWaits ==
  ASSUME CInv, MInv, NEW h \in RobIndex, Busy(h), rob[h].executed = "COMPLETED"
  PROVE  /\ WaitingLoads(rob, lq, h) = {} /\ WaitingStores(rob, sq, h) = {}
         /\ \A j \in 1 .. Loads(h) : rob[h].lq_index[j] # NoIndex
         /\ \A k \in 1 .. Stores(h) : rob[h].sq_index[k] # NoIndex
<1>1. /\ Indices(rob) /\ OpsLeft(rob, lq, sq) /\ Executes(rob)
  BY DEF MInv, MemTypes, Counting
<1>2. /\ Loads(h) \in Nat /\ Stores(h) \in Nat
      /\ IsMemory(h) <=> Loads(h) + Stores(h) > 0
  BY OpTypes
<1>3. /\ WaitingLoads(rob, lq, h) = {} /\ WaitingStores(rob, sq, h) = {}
      /\ \A j \in 1 .. Loads(h) : rob[h].lq_index[j] # NoIndex
      /\ \A k \in 1 .. Stores(h) : rob[h].sq_index[k] # NoIndex
  <2>1. CASE IsMemory(h)
    <3>1. /\ \A j \in 1 .. Loads(h) : rob[h].lq_index[j] # NoIndex
          /\ \A k \in 1 .. Stores(h) : rob[h].sq_index[k] # NoIndex
          /\ rob[h].num_mem_ops = 0
      BY <1>1, <2>1 DEF Executes
    <3>2. WaitingLoads(rob, lq, h) \in SUBSET (1 .. Loads(h))
      BY DEF WaitingLoads
    <3>3. WaitingStores(rob, sq, h) \in SUBSET (1 .. Stores(h))
      BY DEF WaitingStores
    <3>4. IsFiniteSet(WaitingLoads(rob, lq, h)) /\ IsFiniteSet(WaitingStores(rob, sq, h))
      BY <1>2, <3>2, <3>3, UpTo
    <3>5. /\ Cardinality(WaitingLoads(rob, lq, h)) \in Nat
          /\ Cardinality(WaitingStores(rob, sq, h)) \in Nat
      BY <3>4, FS_CardinalityType
    <3>6. 0 = Cardinality(WaitingLoads(rob, lq, h)) + Cardinality(WaitingStores(rob, sq, h))
      BY <1>1, <3>1 DEF OpsLeft
    <3>7. /\ Cardinality(WaitingLoads(rob, lq, h)) = 0
          /\ Cardinality(WaitingStores(rob, sq, h)) = 0
      BY <3>5, <3>6
    <3> QED
      BY <3>1, <3>4, <3>7, FS_EmptySet
  <2>2. CASE ~IsMemory(h)
    <3>1. 1 .. Loads(h) = {} /\ 1 .. Stores(h) = {}
      BY <1>2, <2>2
    <3> QED
      BY <3>1 DEF WaitingLoads, WaitingStores
  <2> QED
    BY <2>1, <2>2
<1> QED
  BY <1>3

LEMMA HeadDone ==
  ASSUME CInv, MInv, NEW h \in RobIndex, Busy(h), rob[h].executed = "COMPLETED",
         NEW F, F = Range(rob[h].sq_index) \ {NoIndex}
  PROVE  /\ \A q \in LqIndex : Used(lq, q) => lq[q].rob_index # h
         /\ F \in SUBSET SqIndex
         /\ \A q \in SqIndex : q \in F <=> Used(sq, q) /\ sq[q].rob_index = h
         /\ \A q \in F : sq[q].fetched = "COMPLETED" /\ sq[q].translated = "COMPLETED"
         /\ \A a : Writes(h, a) => ~Unstored(sq, h, a)
<1>1. /\ Indices(rob) /\ LoadLinks(rob, lq) /\ StoreLinks(rob, sq)
      /\ OpsLeft(rob, lq, sq) /\ Executes(rob)
  BY DEF MInv, MemTypes, LoadSide, StoreSide, Counting
<1>2. /\ Loads(h) \in Nat /\ Stores(h) \in Nat
      /\ IsMemory(h) <=> Loads(h) + Stores(h) > 0
      /\ DOMAIN Op(h).stores = 1 .. Stores(h)
  BY OpTypes
<1>3. /\ WaitingLoads(rob, lq, h) = {} /\ WaitingStores(rob, sq, h) = {}
      /\ \A j \in 1 .. Loads(h) : rob[h].lq_index[j] # NoIndex
      /\ \A k \in 1 .. Stores(h) : rob[h].sq_index[k] # NoIndex
  BY HeadWaits
<1>4. ASSUME NEW q \in LqIndex, Used(lq, q), lq[q].rob_index = h
      PROVE  FALSE
  <2>1. PICK j \in 1 .. Loads(h) : j = lq[q].data_index /\ rob[h].lq_index[j] = q
    BY <1>1, <1>4 DEF LoadLinks
  <2>2. j \in WaitingLoads(rob, lq, h)
    BY <1>4, <2>1 DEF WaitingLoads
  <2> QED
    BY <1>3, <2>2
<1>5. /\ rob[h].sq_index \in [1 .. Stores(h) -> SqIndex \cup {NoIndex}]
      /\ \A q : q \in F <=> \E k \in 1 .. Stores(h) : q = rob[h].sq_index[k] /\ q # NoIndex
  <2>1. rob[h].sq_index \in [1 .. Stores(h) -> SqIndex \cup {NoIndex}]
    BY <1>1 DEF Indices
  <2>2. DOMAIN rob[h].sq_index = 1 .. Stores(h)
    BY <2>1
  <2>3. \A q : q \in Range(rob[h].sq_index) <=> \E k \in 1 .. Stores(h) : q = rob[h].sq_index[k]
    BY <2>2, Zenon DEF Range
  <2>4. \A q : q \in F <=> q \in Range(rob[h].sq_index) /\ q # NoIndex
    BY Zenon
  <2>5. \A q : q \in F <=> \E k \in 1 .. Stores(h) : q = rob[h].sq_index[k] /\ q # NoIndex
    BY <2>3, <2>4, Zenon
  <2> QED
    BY <2>1, <2>5
<1>6. F \in SUBSET SqIndex
  <2>1. \A k \in 1 .. Stores(h) : rob[h].sq_index[k] \in SqIndex \cup {NoIndex}
    BY <1>1 DEF Indices
  <2>2. ASSUME NEW q, q \in F
        PROVE  q \in SqIndex
    <3>1. PICK k \in 1 .. Stores(h) : q = rob[h].sq_index[k] /\ q # NoIndex
      BY <1>5, <2>2, Zenon
    <3>2. rob[h].sq_index[k] \in SqIndex \cup {NoIndex}
      BY <2>1
    <3> QED
      BY <3>1, <3>2, Zenon
  <2> QED
    BY <2>2, Zenon
<1>7. ASSUME NEW k \in 1 .. Stores(h), NEW q, q = rob[h].sq_index[k]
      PROVE  /\ q \in SqIndex /\ Used(sq, q)
             /\ sq[q].rob_index = h /\ sq[q].data_index = k
             /\ sq[q].fetched = "COMPLETED" /\ sq[q].translated = "COMPLETED"
  <2>1. q \in SqIndex
    BY <1>3, <1>5, <1>7
  <2>2. sq[q].rob_index = h /\ sq[q].data_index = k
    BY <1>1, <1>3, <1>7 DEF StoreLinks
  <2>3. Used(sq, q)
    BY <2>2, UsedIndex DEF Used
  <2>4. sq[q].fetched = "COMPLETED"
    BY <1>3, <1>7 DEF WaitingStores
  <2>5. sq[q].translated # "COMPLETED" => sq[q].fetched = "no"
    BY <1>1, <2>1, <2>3 DEF StoreLinks
  <2> QED
    BY <2>1, <2>2, <2>3, <2>4, <2>5
<1>8. ASSUME NEW q \in SqIndex
      PROVE  q \in F <=> Used(sq, q) /\ sq[q].rob_index = h
  <2>1. ASSUME Used(sq, q), sq[q].rob_index = h
        PROVE  q \in F
    <3>1. PICK k \in 1 .. Stores(h) : k = sq[q].data_index /\ rob[h].sq_index[k] = q
      BY <1>1, <2>1 DEF StoreLinks
    <3>2. q # NoIndex
      BY <1>3, <3>1
    <3> QED
      BY <1>5, <3>1, <3>2
  <2> QED
    BY <1>5, <1>7, <2>1
<1>9. \A q \in F : sq[q].fetched = "COMPLETED" /\ sq[q].translated = "COMPLETED"
  BY <1>5, <1>7
<1>10. ASSUME NEW a, Writes(h, a), Unstored(sq, h, a)
       PROVE  FALSE
  <2>1. PICK k \in 1 .. Stores(h) : Op(h).stores[k] = a
    BY <1>2, <1>10 DEF Writes
  <2>2. PICK q : q = rob[h].sq_index[k]
    OBVIOUS
  <2>3. /\ q \in SqIndex /\ Used(sq, q) /\ sq[q].rob_index = h /\ sq[q].data_index = k
        /\ sq[q].fetched = "COMPLETED"
    BY <1>7, <2>2
  <2>4. StoreAddr(sq[q]) = a
    BY <2>1, <2>3 DEF StoreAddr
  <2> QED
    BY <1>10, <2>3, <2>4 DEF Unstored
<1> QED
  BY <1>4, <1>6, <1>8, <1>9, <1>10

\* The head's stores are the first of the queue.
LEMMA QueueRetires ==
  ASSUME CInv, MInv, Retire, NEW h \in RobIndex, h = head,
         NEW F \in SUBSET SqIndex, sq_head' = (sq_head + Cardinality(F)) % SqSize,
         \A q \in SqIndex : q \in F <=> Used(sq, q) /\ sq[q].rob_index = h,
         \A q \in SqIndex : sq'[q] = IF q \in F THEN EmptyLsq ELSE sq[q]
  PROVE  sq_head' \in SqIndex /\ \E n \in 0 .. SqSize : Queued(sq, sq_head, sq_tail, n)'
<1>1. PICK g \in SqIndex : g = sq_head
  BY DEF MInv, MemTypes
<1>2. PICK t \in SqIndex : t = sq_tail /\ t = sq_tail'
  BY DEF MInv, MemTypes, Retire
<1>3. PICK n \in 0 .. SqSize : Queued(sq, g, t, n)
  BY <1>1, <1>2 DEF MInv, StoreSide
<1>4. SqSize \in Nat /\ SqSize >= 1
  BY CoreSizes
<1>5. \A q \in SqIndex : Pos(g, q) \in 0 .. SqSize - 1
  BY PosValue
<1>6. /\ \A q \in SqIndex : Used(sq, q) => sq[q].rob_index \in RobIndex /\ Busy(sq[q].rob_index)
      /\ \A k \in RobIndex : Busy(k) =>
           rob[k].id \in Nat /\ rob[h].id \in Nat /\ (k # h => rob[h].id < rob[k].id)
      /\ \A k \in RobIndex : k # h => rob'[k] = rob[k]
  <2>1. StoreLinks(rob, sq)
    BY DEF MInv, StoreSide
  <2> QED
    BY <2>1, RetireRob DEF StoreLinks
<1>7. /\ Pos(g, t) = IF n = SqSize THEN 0 ELSE n
      /\ \A q \in SqIndex : Used(sq, q) <=> Pos(g, q) < n
      /\ \A p, q \in SqIndex :
           Used(sq, p) /\ Used(sq, q) /\ Pos(g, p) <= Pos(g, q) => StoreId(sq[p]) <= StoreId(sq[q])
  BY <1>3 DEF Queued
<1>8. ASSUME NEW p \in SqIndex, NEW q \in F, Pos(g, p) <= Pos(g, q)
      PROVE  p \in F
  <2>1. Used(sq, q) /\ sq[q].rob_index = h
    OBVIOUS
  <2>2. Pos(g, p) < n
    <3>1. Pos(g, q) < n
      BY <1>7, <2>1
    <3>2. Pos(g, p) \in Int /\ Pos(g, q) \in Int /\ n \in Int
      BY <1>4, <1>5
    <3> QED
      BY <1>8, <3>1, <3>2
  <2>3. Used(sq, p)
    BY <1>7, <2>2
  <2>4. PICK k \in RobIndex : k = sq[p].rob_index /\ Busy(k)
    BY <1>6, <2>3
  <2>5. rob[k].id <= rob[h].id
    BY <1>7, <1>8, <2>1, <2>3, <2>4 DEF StoreId
  <2>6. k = h
    BY <1>6, <2>4, <2>5
  <2> QED
    BY <2>3, <2>4, <2>6
<1> DEFINE c == Cardinality(F)
<1>9. c \in 0 .. SqSize /\ \A q \in SqIndex : q \in F <=> Pos(g, q) < c
  BY <1>8, Prefix
<1>10. c \in Nat /\ c <= n
  <2>1. SUFFICES ASSUME n < c
                 PROVE  FALSE
    BY <1>4, <1>9
  <2>2. n \in 0 .. SqSize - 1 /\ n \in 0 .. SqSize
    BY <1>4, <1>9, <2>1
  <2>3. PICK q \in SqIndex : q = (g + n) % SqSize
    BY <2>2, SlotValue
  <2>4. Pos(g, q) = n
    BY <2>2, <2>3, SlotPos
  <2>5. Used(sq, q)
    BY <1>9, <2>1, <2>4
  <2> QED
    BY <1>4, <1>7, <2>4, <2>5
<1>11. PICK f \in SqIndex : f = sq_head'
  BY <1>1, <1>9, SlotValue
<1>12. \A q \in SqIndex : Pos(f, q) = IF Pos(g, q) >= c THEN Pos(g, q) - c
                                      ELSE Pos(g, q) - c + SqSize
  BY <1>1, <1>9, <1>11, Shifted
<1> HIDE DEF c
<1>13. n - c \in 0 .. SqSize
  BY <1>4, <1>10
<1>14. Pos(f, t) = IF n - c = SqSize THEN 0 ELSE n - c
  BY <1>4, <1>5, <1>7, <1>10, <1>12
<1>15. \A q \in SqIndex : Used(sq', q) <=> Used(sq, q) /\ q \notin F
  BY DEF Used
<1>16. \A q \in SqIndex : Used(sq', q) <=> Pos(f, q) < n - c
  <2>1. ASSUME NEW q \in SqIndex
        PROVE  Pos(g, q) < n /\ ~(Pos(g, q) < c) <=> Pos(f, q) < n - c
    <3>1. Pos(g, q) \in 0 .. SqSize - 1
      BY <1>5
    <3>2. Pos(f, q) = IF Pos(g, q) >= c THEN Pos(g, q) - c ELSE Pos(g, q) - c + SqSize
      BY <1>12
    <3> QED
      BY <1>4, <1>10, <3>1, <3>2
  <2> QED
    BY <1>7, <1>9, <1>15, <2>1
<1>17. ASSUME NEW p \in SqIndex, NEW q \in SqIndex, Used(sq', p), Used(sq', q),
              Pos(f, p) <= Pos(f, q)
       PROVE  StoreId(sq[p])' <= StoreId(sq[q])'
  <2>1. /\ Used(sq, p) /\ p \notin F /\ Used(sq, q) /\ q \notin F
        /\ sq'[p] = sq[p] /\ sq'[q] = sq[q]
    BY <1>15, <1>17
  <2>2. Pos(g, p) >= c /\ Pos(g, q) >= c
    BY <1>5, <1>9, <1>10, <2>1
  <2>3. Pos(g, p) <= Pos(g, q)
    BY <1>4, <1>5, <1>10, <1>12, <1>17, <2>2
  <2>4. StoreId(sq[p]) <= StoreId(sq[q])
    BY <1>7, <2>1, <2>3
  <2>5. PICK i \in RobIndex : i = sq[p].rob_index /\ i # h
    BY <1>6, <2>1
  <2>6. PICK k \in RobIndex : k = sq[q].rob_index /\ k # h
    BY <1>6, <2>1
  <2>7. rob'[i] = rob[i] /\ rob'[k] = rob[k]
    BY <1>6, <2>5, <2>6
  <2> QED
    BY <2>1, <2>4, <2>5, <2>6, <2>7 DEF StoreId
<1>18. Queued(sq, sq_head, sq_tail, n - c)'
  BY <1>2, <1>11, <1>14, <1>16, <1>17 DEF Queued, Used, StoreId
<1> QED
  BY <1>11, <1>13, <1>18

\* A load that waits for a store still waits for it; a load of a younger
\* instruction does not wait for a store of the head.
LEMMA RetireWaits ==
  ASSUME CInv, MInv, Retire, NEW h \in RobIndex, h = head,
         \A a : Writes(h, a) => ~Unstored(sq, h, a),
         NEW i \in RobIndex, i # h, NEW a, NEW id, Follows(rob, sq, i, a, id),
         NEW F \in SUBSET SqIndex,
         \A q \in SqIndex : q \in F <=> Used(sq, q) /\ sq[q].rob_index = h,
         \A q \in SqIndex : sq'[q] = IF q \in F THEN EmptyLsq ELSE sq[q]
  PROVE  Follows(rob, sq, i, a, id)'
<1>1. /\ \A k \in RobIndex :
           /\ Age(k) \in 0 .. RobSize - 1
           /\ Age(k)' = IF k = h THEN RobSize - 1 ELSE Age(k) - 1
           /\ k # h <=> Age(k) # 0
      /\ \A k \in RobIndex : k # h => rob'[k] = rob[k] /\ Op(k)' = Op(k)
  BY RetireRob
<1>2. RobSize \in Nat /\ RobSize >= 2
  BY CoreSizes
<1>3. \A q \in SqIndex : Used(sq, q) => sq[q].rob_index \in RobIndex
  BY DEF MInv, StoreSide, StoreLinks
<1>4. \A k \in RobIndex : k \in StoresTo(i, a)' <=> k \in StoresTo(i, a) /\ k # h
  <2>1. \A k \in RobIndex : k # h => (Writes(k, a)' <=> Writes(k, a))
    BY <1>1 DEF Writes
  <2>2. \A k \in RobIndex : Age(k)' < Age(i)' <=> Age(k) < Age(i) /\ k # h
    <3>1. ASSUME NEW k \in RobIndex
          PROVE  Age(k)' < Age(i)' <=> Age(k) < Age(i) /\ k # h
      <4>1. Age(k) \in 0 .. RobSize - 1 /\ Age(i) \in 0 .. RobSize - 1 /\ Age(i) # 0
        BY <1>1
      <4>2. Age(i)' = Age(i) - 1
        BY <1>1
      <4>3. CASE k = h
        <5>1. Age(k)' = RobSize - 1
          BY <1>1, <4>3
        <5> QED
          BY <1>2, <4>1, <4>2, <4>3, <5>1
      <4>4. CASE k # h
        <5>1. Age(k)' = Age(k) - 1
          BY <1>1, <4>4
        <5> QED
          BY <1>2, <4>1, <4>2, <4>4, <5>1
      <4> QED
        BY <4>3, <4>4
    <3> QED
      BY <3>1
  <2> QED
    BY <2>1, <2>2 DEF StoresTo, Older
<1>5. StoresTo(i, a) \in SUBSET RobIndex /\ StoresTo(i, a)' \in SUBSET RobIndex
  BY DEF StoresTo, Older
<1>6. h \in StoresTo(i, a) => \E k \in StoresTo(i, a) : k # h
  <2>1. SUFFICES ASSUME h \in StoresTo(i, a), \A k \in StoresTo(i, a) : k = h
                 PROVE  FALSE
    OBVIOUS
  <2>2. Age(h) \in Int
    BY <1>1, <1>2
  <2>3. LastStore(h, i, a)
    BY <2>1, <2>2 DEF LastStore
  <2>4. Unstored(sq, h, a)
    BY <2>3 DEF Follows
  <2>5. Writes(h, a)
    BY <2>1 DEF StoresTo
  <2> QED
    BY <2>4, <2>5
<1>7. StoresTo(i, a)' = {} => id = NoProducer
  <2>1. StoresTo(i, a)' = {} => StoresTo(i, a) = {}
    BY <1>4, <1>5, <1>6
  <2> QED
    BY <2>1 DEF Follows
<1>8. ASSUME NEW k \in RobIndex, LastStore(k, i, a)'
      PROVE  id = rob'[k].id /\ i \in rob'[k].mem_depend_on_me /\ Unstored(sq, k, a)'
  <2>1. k \in StoresTo(i, a)' /\ \A m \in StoresTo(i, a)' : Age(m)' <= Age(k)'
    BY <1>8 DEF LastStore
  <2>2. k \in StoresTo(i, a) /\ k # h
    BY <1>4, <2>1
  <2>3. ASSUME NEW m \in StoresTo(i, a)
        PROVE  Age(m) <= Age(k)
    <3>1. m \in RobIndex
      BY <1>5
    <3>2. CASE m = h
      <4>1. Age(m) = 0 /\ Age(k) \in Nat
        BY <1>1, <1>2, <3>1, <3>2
      <4> QED
        BY <4>1
    <3>3. CASE m # h
      <4>1. Age(m)' <= Age(k)'
        BY <1>4, <2>1, <3>1, <3>3
      <4>2. /\ Age(m)' = Age(m) - 1 /\ Age(k)' = Age(k) - 1
            /\ Age(m) \in Int /\ Age(k) \in Int
        BY <1>1, <1>2, <2>2, <3>1, <3>3
      <4> QED
        BY <4>1, <4>2
    <3> QED
      BY <3>2, <3>3
  <2>4. LastStore(k, i, a)
    BY <2>2, <2>3 DEF LastStore
  <2>5. id = rob[k].id /\ i \in rob[k].mem_depend_on_me /\ Unstored(sq, k, a)
    BY <2>4 DEF Follows
  <2>6. ASSUME NEW p \in SqIndex, Used(sq', p), sq'[p].rob_index = k, StoreAddr(sq[p])' = a
        PROVE  sq'[p].fetched # "COMPLETED"
    <3>1. sq'[p] = sq[p] /\ Used(sq, p) /\ sq[p].rob_index = k
      BY <2>6 DEF Used
    <3>2. StoreAddr(sq[p]) = a
      BY <1>1, <2>2, <2>6, <3>1 DEF StoreAddr
    <3> QED
      BY <2>5, <3>1, <3>2 DEF Unstored
  <2>7. Unstored(sq, k, a)'
    BY <2>6 DEF Unstored, Used
  <2>8. rob'[k] = rob[k]
    BY <1>1, <2>2
  <2> QED
    BY <2>5, <2>7, <2>8
<1> QED
  BY <1>7, <1>8 DEF Follows

LEMMA RetireMem ==
  ASSUME CInv, MInv, Retire
  PROVE  MInv'
<1>1. PICK h \in RobIndex : h = head
  BY DEF CInv, Types
<1> DEFINE F == Range(rob[h].sq_index) \ {NoIndex}
<1>2. /\ Busy(h) /\ rob[h].executed = "COMPLETED" /\ head' = Next1(head, RobSize)
      /\ rob' = [rob EXCEPT ![h] = EmptyInstr]
      /\ memory' = [a \in Addr |-> IF Writes(h, a) THEN rob[h].id ELSE memory[a]]
      /\ seen' = Append(seen, rob[h].got)
      /\ sq' = [q \in SqIndex |-> IF q \in F THEN EmptyLsq ELSE sq[q]]
      /\ sq_head' = (sq_head + Cardinality(F)) % SqSize
      /\ UNCHANGED <<program, instr_unique_id, next_schedule, rte, rtl, rts, lq, sq_tail,
                     sta, inflight>>
  BY <1>1 DEF Retire, lists, front
<1>3. /\ \A q \in LqIndex : Used(lq, q) => lq[q].rob_index # h
      /\ F \in SUBSET SqIndex
      /\ \A q \in SqIndex : q \in F <=> Used(sq, q) /\ sq[q].rob_index = h
      /\ \A q \in F : sq[q].fetched = "COMPLETED" /\ sq[q].translated = "COMPLETED"
      /\ \A a : Writes(h, a) => ~Unstored(sq, h, a)
  BY <1>2, HeadDone
<1>4. \A q \in SqIndex : sq'[q] = IF q \in F THEN EmptyLsq ELSE sq[q]
  BY <1>2
<1> HIDE DEF F
<1>5. \A q \in SqIndex : Used(sq', q) => Used(sq, q) /\ sq'[q] = sq[q] /\ sq[q].rob_index # h
  BY <1>3, <1>4 DEF Used
<1>6. /\ \A k \in RobIndex : k = head' => k # h /\ Age(k) = 1
      /\ head' \in RobIndex
      /\ \A k \in RobIndex : k # h =>
           /\ rob'[k] = rob[k]
           /\ Busy(k)' <=> Busy(k)
           /\ Op(k)' = Op(k)
           /\ IsMemory(k)' <=> IsMemory(k)
           /\ Loads(k)' = Loads(k) /\ Stores(k)' = Stores(k)
      /\ rob'[h] = EmptyInstr /\ ~Busy(h)' /\ ~IsMemory(h)'
      /\ Loads(h)' = 0 /\ Stores(h)' = 0
  BY <1>1, RetireRob
<1>7. /\ EmptyInstr.num_mem_ops = 0 /\ EmptyInstr.mem_depend_on_me = {}
      /\ EmptyInstr.lq_index = <<>> /\ EmptyInstr.sq_index = <<>>
      /\ EmptyInstr.translated = "no" /\ EmptyInstr.fetched = "no"
      /\ EmptyInstr.scheduled = "no" /\ EmptyInstr.executed = "no"
  BY DEF EmptyInstr
<1>8. sq_head' \in SqIndex /\ \E n \in 0 .. SqSize : Queued(sq, sq_head, sq_tail, n)'
  BY <1>1, <1>2, <1>3, <1>4, QueueRetires
<1>9. /\ MemTypes /\ Indices(rob) /\ LoadLinks(rob, lq) /\ LoadWaits(rob, lq, sq)
      /\ StoreLinks(rob, sq) /\ StaOrder(sq, sta) /\ Counting
      /\ OpsLeft(rob, lq, sq) /\ Executes(rob)
  BY DEF MInv, MemTypes, LoadSide, StoreSide, Counting
<1>10. MemTypes'
  <2>1. ASSUME NEW k \in RobIndex
        PROVE  /\ rob'[k].num_mem_ops \in Int
               /\ rob'[k].mem_depend_on_me \subseteq RobIndex
               /\ rob'[k].lq_index \in [1 .. Loads(k)' -> LqIndex \cup {NoIndex}]
               /\ rob'[k].sq_index \in [1 .. Stores(k)' -> SqIndex \cup {NoIndex}]
    <3>1. CASE k = h
      <4>1. <<>> \in [1 .. 0 -> LqIndex \cup {NoIndex}]
        OBVIOUS
      <4>2. <<>> \in [1 .. 0 -> SqIndex \cup {NoIndex}]
        OBVIOUS
      <4>3. rob'[k] = EmptyInstr /\ Loads(k)' = 0 /\ Stores(k)' = 0
        BY <1>6, <3>1
      <4>4. EmptyInstr.num_mem_ops \in Int /\ EmptyInstr.mem_depend_on_me \subseteq RobIndex
        BY <1>7
      <4> QED
        BY <1>7, <4>1, <4>2, <4>3, <4>4
    <3>2. CASE k # h
      BY <1>6, <1>9, <3>2 DEF Indices
    <3> QED
      BY <3>1, <3>2
  <2>2. Indices(rob)'
    BY <2>1 DEF Indices
  <2>3. memory' \in [Addr -> Nat]
    <3>1. rob[h].id \in Nat
      BY <1>1, <1>2, RetireRob
    <3>2. memory \in [Addr -> Nat]
      BY <1>9 DEF MemTypes
    <3> QED
      BY <1>2, <3>1, <3>2
  <2>4. sq' \in [SqIndex -> LsqType(SqIndex)]
    <3>1. EmptyLsq \in LsqType(SqIndex)
      BY DEF EmptyLsq, LsqType, Stage, NoProducer
    <3>2. sq \in [SqIndex -> LsqType(SqIndex)]
      BY <1>9 DEF MemTypes
    <3> QED
      BY <1>2, <3>1, <3>2
  <2> QED
    BY <1>2, <1>8, <1>9, <2>2, <2>3, <2>4 DEF MemTypes
<1>11. StageTypes'
  BY <1>6, <1>7 DEF MInv, StageTypes, Stage
<1>12. ReadyListed'
  BY <1>2, <1>6 DEF MInv, ReadyListed
<1>13. LoadSide'
  <2>1. LoadLinks(rob, lq)'
    <3>1. ASSUME NEW p \in LqIndex, Used(lq', p)
          PROVE  /\ lq'[p].rob_index \in RobIndex /\ Busy(lq[p].rob_index)'
                 /\ lq'[p].data_index \in 1 .. Loads(lq[p].rob_index)'
                 /\ rob'[lq'[p].rob_index].lq_index[lq'[p].data_index] = p
                 /\ lq'[p].producer_id # NoProducer => lq'[p].translated = "INFLIGHT"
                 /\ lq'[p].translated # "COMPLETED" => lq'[p].fetched = "no"
                 /\ lq'[p].fetched # "COMPLETED"
      <4>1. lq'[p] = lq[p] /\ Used(lq, p)
        BY <1>2, <3>1
      <4>2. PICK i : i = lq[p].rob_index
        OBVIOUS
      <4>3. /\ i \in RobIndex /\ Busy(i) /\ lq[p].data_index \in 1 .. Loads(i) /\ i # h
            /\ rob[i].lq_index[lq[p].data_index] = p
            /\ lq[p].producer_id # NoProducer => lq[p].translated = "INFLIGHT"
            /\ lq[p].translated # "COMPLETED" => lq[p].fetched = "no"
            /\ lq[p].fetched # "COMPLETED"
        BY <1>3, <1>9, <4>1, <4>2 DEF LoadLinks
      <4>4. Busy(i)' /\ lq[p].data_index \in 1 .. Loads(i)' /\ rob'[i] = rob[i]
        BY <1>6, <4>3
      <4>5. lq'[p].rob_index = i
        BY <4>1, <4>2
      <4> QED
        BY <4>1, <4>3, <4>4, <4>5 DEF Busy, Loads, Op
    <3> QED
      BY <3>1 DEF LoadLinks, Used
  <2>2. LoadWaits(rob, lq, sq)'
    <3>1. ASSUME NEW p \in LqIndex, NEW i \in RobIndex, NEW a, NEW id,
                 Used(lq', p), lq'[p].rob_index = i, LoadAddr(lq[p])' = a,
                 lq'[p].producer_id = id
          PROVE  Follows(rob, sq, i, a, id)'
      <4>1. lq'[p] = lq[p] /\ Used(lq, p) /\ lq[p].rob_index = i /\ i # h
            /\ lq[p].producer_id = id
        BY <1>2, <1>3, <3>1
      <4>2. LoadAddr(lq[p]) = a
        BY <1>6, <3>1, <4>1 DEF LoadAddr
      <4>3. Follows(rob, sq, i, a, id)
        BY <1>9, <4>1, <4>2 DEF LoadWaits
      <4> QED
        BY <1>1, <1>3, <1>4, <4>1, <4>3, RetireWaits
    <3> QED
      BY <1>2, <3>1 DEF LoadWaits, Used
  <2> QED
    BY <1>2, <2>1, <2>2 DEF MInv, LoadSide, Enumerates, Sending, Reading, Used
<1>14. StoreSide'
  <2>1. StoreLinks(rob, sq)'
    <3>1. ASSUME NEW q \in SqIndex, Used(sq', q)
          PROVE  /\ sq'[q].rob_index \in RobIndex /\ Busy(sq[q].rob_index)'
                 /\ sq'[q].data_index \in 1 .. Stores(sq[q].rob_index)'
                 /\ rob'[sq'[q].rob_index].sq_index[sq'[q].data_index] = q
                 /\ sq'[q].translated # "COMPLETED" => sq'[q].fetched = "no"
      <4>1. sq'[q] = sq[q] /\ Used(sq, q)
        BY <1>5, <3>1
      <4>2. PICK i : i = sq[q].rob_index
        OBVIOUS
      <4>3. /\ i \in RobIndex /\ Busy(i) /\ sq[q].data_index \in 1 .. Stores(i) /\ i # h
            /\ rob[i].sq_index[sq[q].data_index] = q
            /\ sq[q].translated # "COMPLETED" => sq[q].fetched = "no"
        BY <1>5, <1>9, <3>1, <4>1, <4>2 DEF StoreLinks
      <4>4. Busy(i)' /\ sq[q].data_index \in 1 .. Stores(i)' /\ rob'[i] = rob[i]
        BY <1>6, <4>3
      <4>5. sq'[q].rob_index = i
        BY <4>1, <4>2
      <4> QED
        BY <4>1, <4>3, <4>4, <4>5 DEF Busy, Stores, Op
    <3>2. ASSUME NEW i \in RobIndex, NEW k \in 1 .. Stores(i)', rob'[i].sq_index[k] # NoIndex
          PROVE  /\ sq'[rob'[i].sq_index[k]].rob_index = i
                 /\ sq'[rob'[i].sq_index[k]].data_index = k
      <4>1. i # h
        BY <1>6, <3>2
      <4>2. k \in 1 .. Stores(i) /\ rob'[i] = rob[i]
        BY <1>6, <4>1
      <4>3. PICK p : p = rob[i].sq_index[k]
        OBVIOUS
      <4>4. sq[p].rob_index = i /\ sq[p].data_index = k /\ p \in SqIndex
        <5>1. rob[i].sq_index \in [1 .. Stores(i) -> SqIndex \cup {NoIndex}]
          BY <1>9 DEF Indices
        <5>2. p \in SqIndex
          BY <3>2, <4>2, <4>3, <5>1
        <5> QED
          BY <1>9, <3>2, <4>2, <4>3, <5>2 DEF StoreLinks
      <4>5. sq'[p] = sq[p]
        BY <1>3, <1>4, <4>1, <4>4
      <4> QED
        BY <4>2, <4>3, <4>4, <4>5
    <3> QED
      BY <3>1, <3>2 DEF StoreLinks, Used
  <2>2. StaOrder(sq, sta)'
    <3>1. ASSUME NEW q \in SqIndex, NEW x \in 1 .. Len(sta'), Used(sq', q)
          PROVE  StoreId(sq[q])' <= sta'[x]
      <4>1. sq'[q] = sq[q] /\ Used(sq, q) /\ sq[q].rob_index # h
        BY <1>5, <3>1
      <4>2. sq[q].rob_index \in RobIndex
        BY <1>9, <4>1 DEF StoreLinks
      <4>3. StoreId(sq[q]) <= sta[x]
        BY <1>2, <1>9, <4>1 DEF StaOrder
      <4>4. PICK i \in RobIndex : i = sq[q].rob_index
        BY <4>2
      <4>5. rob'[i] = rob[i]
        BY <1>6, <4>1, <4>4
      <4> QED
        BY <1>2, <4>1, <4>3, <4>4, <4>5 DEF StoreId
    <3> QED
      BY <1>2, <1>9, <3>1 DEF StaOrder, Used, StoreId
  <2>3. Sending(sq', SqIndex) = Sending(sq, SqIndex) /\ Reading(sq', SqIndex) = Reading(sq, SqIndex)
    BY <1>3, <1>4, <1>5 DEF Sending, Reading, Used
  <2>4. /\ Enumerates(rts[1], Sending(sq, SqIndex))'
        /\ Enumerates(rts[2], Reading(sq, SqIndex))'
    <3>1. Sending(sq, SqIndex)' = Sending(sq, SqIndex)
      BY <2>3 DEF Sending, Used
    <3>2. Reading(sq, SqIndex)' = Reading(sq, SqIndex)
      BY <2>3 DEF Reading, Used
    <3> QED
      BY <1>2, <3>1, <3>2 DEF MInv, StoreSide, Enumerates
  <2> QED
    BY <1>8, <2>1, <2>2, <2>4 DEF StoreSide
<1>15. Counting'
  <2>1. ASSUME NEW i \in RobIndex
        PROVE  rob'[i].num_mem_ops = Cardinality(WaitingLoads(rob, lq, i)')
                                       + Cardinality(WaitingStores(rob, sq, i)')
    <3>1. CASE i = h
      <4>1. WaitingLoads(rob, lq, i)' = {} /\ WaitingStores(rob, sq, i)' = {}
        BY <1>6, <3>1 DEF WaitingLoads, WaitingStores
      <4>2. rob'[i].num_mem_ops = 0
        BY <1>6, <1>7, <3>1
      <4> QED
        BY <4>1, <4>2, FS_EmptySet
    <3>2. CASE i # h
      <4>1. WaitingLoads(rob, lq, i)' = WaitingLoads(rob, lq, i)
        BY <1>2, <1>6, <3>2 DEF WaitingLoads
      <4>2. ASSUME NEW k \in 1 .. Stores(i), rob[i].sq_index[k] # NoIndex
            PROVE  sq'[rob[i].sq_index[k]].fetched = sq[rob[i].sq_index[k]].fetched
        <5>1. PICK p : p = rob[i].sq_index[k]
          OBVIOUS
        <5>2. sq[p].rob_index = i /\ p \in SqIndex
          <6>1. rob[i].sq_index \in [1 .. Stores(i) -> SqIndex \cup {NoIndex}]
            BY <1>9 DEF Indices
          <6>2. p \in SqIndex
            BY <4>2, <5>1, <6>1
          <6> QED
            BY <1>9, <4>2, <5>1, <6>2 DEF StoreLinks
        <5>3. sq'[p] = sq[p]
          BY <1>3, <1>4, <3>2, <5>2
        <5> QED
          BY <5>1, <5>3
      <4>3. WaitingStores(rob, sq, i)' = WaitingStores(rob, sq, i)
        BY <1>6, <3>2, <4>2 DEF WaitingStores
      <4>4. rob'[i] = rob[i]
        BY <1>6, <3>2
      <4> QED
        BY <1>9, <4>1, <4>3, <4>4 DEF OpsLeft
    <3> QED
      BY <3>1, <3>2
  <2>2. OpsLeft(rob, lq, sq)'
    BY <2>1 DEF OpsLeft
  <2>3. Executes(rob)'
    BY <1>6, <1>9 DEF Executes
  <2>4. Running' = Running
    BY <1>2, <1>6 DEF Running
  <2>5. Finishes(rob)' = Finishes(rob)
    BY <1>2, <1>6 DEF Finishes
  <2> QED
    BY <1>2, <1>9, <2>2, <2>3, <2>4, <2>5 DEF Counting
<1>16. History'
  <2>1. PICK S : seen \in Seq(S)
    BY DEF MInv, History
  <2>2. PICK x : x = rob[h].got
    OBVIOUS
  <2>3. seen \in Seq(S \cup {x})
    BY <2>1
  <2>4. seen' \in Seq(S \cup {x}) /\ Len(seen') = Len(seen) + 1 /\ Len(seen) \in Nat
    BY <1>2, <2>2, <2>3, AppendProperties, LenProperties
  <2>5. Len(seen) + 1 = rob[h].id
    BY <1>1, <1>2 DEF MInv, History
  <2>6. PICK k \in RobIndex : k = head'
    BY <1>6
  <2>7. rob[h].id + 1 = IF Busy(k) THEN rob[k].id ELSE instr_unique_id
    <3>1. PICK n \in 0 .. RobSize, t \in 0 .. RobSize, f \in 0 .. RobSize : Window(n, t, f)
      BY DEF CInv, FrontEnd
    <3>2. instr_unique_id \in Nat /\ n < instr_unique_id
      <4>1. Len(program) \in Nat
        BY ProgramsAreTraces, LenProperties DEF CInv, Types
      <4> QED
        BY <3>1, <4>1 DEF CInv, Types, Window
    <3>3. /\ rob[k].id = IF Age(k) < n THEN instr_unique_id - n + Age(k) ELSE 0
          /\ rob[h].id = IF Age(h) < n THEN instr_unique_id - n + Age(h) ELSE 0
      BY <3>1 DEF Window
    <3>4. rob[h].id # 0 /\ Age(h) = 0 /\ Age(k) = 1
      BY <1>1, <1>2, <1>6, <2>6, HeadAge DEF Busy
    <3>5. Busy(k) <=> rob[k].id # 0
      BY DEF Busy
    <3> QED
      BY <3>1, <3>2, <3>3, <3>4, <3>5, CoreSizes
  <2>8. rob'[k] = rob[k] /\ (Busy(k)' <=> Busy(k))
    BY <1>6, <2>6
  <2>9. Len(seen') + 1 = IF Busy(k)' THEN rob'[k].id ELSE instr_unique_id'
    BY <1>2, <2>4, <2>5, <2>7, <2>8
  <2> QED
    BY <2>4, <2>6, <2>9 DEF History, Busy
<1> QED
  BY <1>10, <1>11, <1>12, <1>13, <1>14, <1>15, <1>16 DEF MInv

-----------------------------------------------------------------------------
(* Loads enter the load queue.                                             *)

\* Load j of i is given the free entry q of the queue l, as e: the ROB r
\* becomes u and the queue m.  A load that is forwarded leaves it empty.
Enters(i, j, q, e, r, l, u, m) ==
  /\ q \in LqIndex /\ ~Used(l, q) /\ r[i].lq_index[j] = NoIndex
  /\ \A p \in LqIndex : m[p] = IF p = q THEN e ELSE l[p]
  /\ \A k \in RobIndex :
       /\ u[k].id = r[k].id
       /\ k # i => u[k].lq_index = r[k].lq_index
       /\ r[k].mem_depend_on_me \subseteq u[k].mem_depend_on_me
  /\ \A n \in 1 .. Loads(i) : u[i].lq_index[n] = IF n = j THEN q ELSE r[i].lq_index[n]
Entry(e, i, j) == e.rob_index = i /\ e.data_index = j

LEMMA EnterLinks ==
  ASSUME NEW i \in RobIndex, Busy(i), NEW j \in 1 .. Loads(i), NEW q, NEW e,
         NEW r, NEW l, NEW u, NEW m, Enters(i, j, q, e, r, l, u, m), LoadLinks(r, l),
         \/ e = EmptyLsq
         \/ /\ Entry(e, i, j)
            /\ e.producer_id # NoProducer => e.translated = "INFLIGHT"
            /\ e.translated # "COMPLETED" => e.fetched = "no"
            /\ e.fetched # "COMPLETED"
  PROVE  LoadLinks(u, m)
<1>1. ASSUME NEW p \in LqIndex, Used(m, p)
      PROVE  /\ m[p].rob_index \in RobIndex /\ Busy(m[p].rob_index)
             /\ m[p].data_index \in 1 .. Loads(m[p].rob_index)
             /\ u[m[p].rob_index].lq_index[m[p].data_index] = p
             /\ m[p].producer_id # NoProducer => m[p].translated = "INFLIGHT"
             /\ m[p].translated # "COMPLETED" => m[p].fetched = "no"
             /\ m[p].fetched # "COMPLETED"
  <2>1. CASE p = q
    <3>1. m[p] = e /\ e # EmptyLsq
      BY <1>1, <2>1 DEF Enters, Used
    <3>2. u[i].lq_index[j] = q
      BY DEF Enters
    <3> QED
      BY <2>1, <3>1, <3>2 DEF Entry
  <2>2. CASE p # q
    <3>1. m[p] = l[p] /\ Used(l, p)
      BY <1>1, <2>2 DEF Enters, Used
    <3>2. PICK k : k = l[p].rob_index
      OBVIOUS
    <3>3. PICK n : n = l[p].data_index
      OBVIOUS
    <3>4. /\ k \in RobIndex /\ Busy(k) /\ n \in 1 .. Loads(k) /\ r[k].lq_index[n] = p
          /\ l[p].producer_id # NoProducer => l[p].translated = "INFLIGHT"
          /\ l[p].translated # "COMPLETED" => l[p].fetched = "no"
          /\ l[p].fetched # "COMPLETED"
      BY <3>1, <3>2, <3>3 DEF LoadLinks
    <3>5. p # NoIndex
      BY CoreSizes DEF LqIndex, NoIndex
    <3>6. u[k].lq_index[n] = p
      <4>1. CASE k # i
        BY <3>4, <4>1 DEF Enters
      <4>2. CASE k = i
        <5>1. n # j
          BY <3>4, <3>5, <4>2 DEF Enters
        <5> QED
          BY <3>4, <4>2, <5>1 DEF Enters
      <4> QED
        BY <4>1, <4>2
    <3> QED
      BY <3>1, <3>2, <3>3, <3>4, <3>6
  <2> QED
    BY <2>1, <2>2
<1> QED
  BY <1>1 DEF LoadLinks

LEMMA EnterWaits ==
  ASSUME NEW i \in RobIndex, NEW j, NEW q, NEW e, NEW r, NEW l, NEW u, NEW m, NEW s,
         Enters(i, j, q, e, r, l, u, m), LoadWaits(r, l, s),
         \/ e = EmptyLsq
         \/ Entry(e, i, j) /\ Follows(u, s, i, Op(i).loads[j], e.producer_id)
  PROVE  LoadWaits(u, m, s)
<1>1. ASSUME NEW p \in LqIndex, NEW k \in RobIndex, NEW a, NEW id,
             Used(m, p), m[p].rob_index = k, LoadAddr(m[p]) = a, m[p].producer_id = id
      PROVE  Follows(u, s, k, a, id)
  <2>1. CASE p = q
    <3>1. m[p] = e /\ e # EmptyLsq
      BY <1>1, <2>1 DEF Enters, Used
    <3>2. k = i /\ a = Op(i).loads[j] /\ id = e.producer_id
      BY <1>1, <3>1 DEF Entry, LoadAddr
    <3> QED
      BY <3>1, <3>2
  <2>2. CASE p # q
    <3>1. m[p] = l[p] /\ Used(l, p)
      BY <1>1, <2>2 DEF Enters, Used
    <3>2. Follows(r, s, k, a, id)
      BY <1>1, <3>1 DEF LoadWaits
    <3> QED
      BY <3>2 DEF Follows, Enters
  <2> QED
    BY <2>1, <2>2
<1> QED
  BY <1>1 DEF LoadWaits

LEMMA EnterWaiting ==
  ASSUME NEW i \in RobIndex, NEW j \in 1 .. Loads(i), NEW q, NEW e, NEW r, NEW l,
         NEW u, NEW m, Enters(i, j, q, e, r, l, u, m), Indices(r), NEW k \in RobIndex
  PROVE  /\ j \in WaitingLoads(r, l, i)
         /\ Entry(e, i, j) => WaitingLoads(u, m, k) = WaitingLoads(r, l, k)
         /\ e = EmptyLsq => WaitingLoads(u, m, k) =
              IF k = i THEN WaitingLoads(r, l, k) \ {j} ELSE WaitingLoads(r, l, k)
<1>1. r[i].lq_index[j] = NoIndex
  BY DEF Enters
<1>2. j \in WaitingLoads(r, l, i)
  BY <1>1 DEF WaitingLoads
<1>3. EmptyLsq.rob_index = NoIndex /\ NoIndex \notin RobIndex /\ NoIndex \notin LqIndex
  BY CoreSizes DEF EmptyLsq, NoIndex, RobIndex, LqIndex
<1>4. q \in LqIndex /\ l[q] = EmptyLsq /\ m[q] = e
  BY DEF Enters, Used
<1>5. ASSUME NEW n \in 1 .. Loads(k), k # i \/ n # j, Entry(e, i, j) \/ e = EmptyLsq
      PROVE  n \in WaitingLoads(u, m, k) <=> n \in WaitingLoads(r, l, k)
  <2>1. u[k].lq_index[n] = r[k].lq_index[n]
    BY <1>5 DEF Enters
  <2>2. PICK p : p = r[k].lq_index[n]
    OBVIOUS
  <2>3. p # NoIndex => p \in LqIndex
    BY <2>2 DEF Indices
  <2>4. CASE p = NoIndex
    BY <2>1, <2>2, <2>4 DEF WaitingLoads
  <2>5. CASE p # NoIndex /\ p # q
    <3>1. m[p] = l[p]
      BY <2>3, <2>5 DEF Enters
    <3> QED
      BY <2>1, <2>2, <2>5, <3>1 DEF WaitingLoads
  <2>6. CASE p = q
    <3>1. ~(l[p].rob_index = k /\ l[p].data_index = n)
      BY <1>3, <1>4, <2>6
    <3>2. ~(m[p].rob_index = k /\ m[p].data_index = n)
      BY <1>3, <1>4, <1>5, <2>6 DEF Entry
    <3>3. p # NoIndex
      BY <1>3, <1>4, <2>6
    <3> QED
      BY <2>1, <2>2, <3>1, <3>2, <3>3 DEF WaitingLoads
  <2> QED
    BY <2>4, <2>5, <2>6
<1>6. u[i].lq_index[j] = q /\ q # NoIndex
  BY <1>3, <1>4 DEF Enters
<1>7. Entry(e, i, j) => j \in WaitingLoads(u, m, i)
  BY <1>4, <1>6 DEF WaitingLoads, Entry
<1>8. e = EmptyLsq => j \notin WaitingLoads(u, m, i)
  BY <1>3, <1>4, <1>6 DEF WaitingLoads
<1>9. /\ WaitingLoads(u, m, k) \in SUBSET (1 .. Loads(k))
      /\ WaitingLoads(r, l, k) \in SUBSET (1 .. Loads(k))
  BY DEF WaitingLoads
<1>10. Entry(e, i, j) => WaitingLoads(u, m, k) = WaitingLoads(r, l, k)
  <2>1. ASSUME Entry(e, i, j), NEW n \in 1 .. Loads(k)
        PROVE  n \in WaitingLoads(u, m, k) <=> n \in WaitingLoads(r, l, k)
    BY <1>2, <1>5, <1>7, <2>1
  <2> QED
    BY <1>9, <2>1
<1>11. e = EmptyLsq => WaitingLoads(u, m, k) =
         IF k = i THEN WaitingLoads(r, l, k) \ {j} ELSE WaitingLoads(r, l, k)
  <2>1. ASSUME e = EmptyLsq, NEW n \in 1 .. Loads(k), k # i \/ n # j
        PROVE  n \in WaitingLoads(u, m, k) <=> n \in WaitingLoads(r, l, k)
    BY <1>5, <2>1
  <2>2. ASSUME e = EmptyLsq, k # i
        PROVE  WaitingLoads(u, m, k) = WaitingLoads(r, l, k)
    BY <1>9, <2>1, <2>2
  <2>3. ASSUME e = EmptyLsq, k = i
        PROVE  WaitingLoads(u, m, k) = WaitingLoads(r, l, k) \ {j}
    BY <1>8, <1>9, <2>1, <2>3
  <2> QED
    BY <2>2, <2>3
<1> QED
  BY <1>2, <1>10, <1>11

LEMMA EnterLists ==
  ASSUME NEW i, NEW j, NEW q, NEW e, NEW r, NEW l, NEW u, NEW m,
         Enters(i, j, q, e, r, l, u, m)
  PROVE  /\ q \notin Sending(l, LqIndex)
         /\ e = EmptyLsq \/ e.translated = "INFLIGHT" =>
              Sending(m, LqIndex) = Sending(l, LqIndex) /\ Reading(m, LqIndex) = Reading(l, LqIndex)
         /\ e # EmptyLsq /\ e.translated = "no" =>
              /\ Sending(m, LqIndex) = Sending(l, LqIndex) \cup {q}
              /\ Reading(m, LqIndex) = Reading(l, LqIndex)
<1>1. q \in LqIndex /\ ~Used(l, q) /\ \A p \in LqIndex : m[p] = IF p = q THEN e ELSE l[p]
  BY DEF Enters
<1>2. q \notin Sending(l, LqIndex) /\ q \notin Reading(l, LqIndex)
  BY <1>1 DEF Sending, Reading
<1>3. \A p \in LqIndex : p # q =>
        /\ p \in Sending(m, LqIndex) <=> p \in Sending(l, LqIndex)
        /\ p \in Reading(m, LqIndex) <=> p \in Reading(l, LqIndex)
  BY <1>1 DEF Sending, Reading, Used
<1>4. /\ q \in Sending(m, LqIndex) <=> e # EmptyLsq /\ e.translated = "no"
      /\ q \in Reading(m, LqIndex) => e # EmptyLsq /\ e.translated = "COMPLETED"
  BY <1>1 DEF Sending, Reading, Used
<1>5. /\ Sending(m, LqIndex) \in SUBSET LqIndex /\ Sending(l, LqIndex) \in SUBSET LqIndex
      /\ Reading(m, LqIndex) \in SUBSET LqIndex /\ Reading(l, LqIndex) \in SUBSET LqIndex
  BY DEF Sending, Reading
<1>6. "no" # "INFLIGHT" /\ "no" # "COMPLETED" /\ "INFLIGHT" # "COMPLETED"
  OBVIOUS
<1> HIDE DEF Sending, Reading
<1>7. (e = EmptyLsq \/ e.translated = "INFLIGHT") =>
        Sending(m, LqIndex) = Sending(l, LqIndex) /\ Reading(m, LqIndex) = Reading(l, LqIndex)
  BY <1>2, <1>3, <1>4, <1>5, <1>6
<1>8. (e # EmptyLsq /\ e.translated = "no") =>
        /\ Sending(m, LqIndex) = Sending(l, LqIndex) \cup {q}
        /\ Reading(m, LqIndex) = Reading(l, LqIndex)
  BY <1>1, <1>2, <1>3, <1>4, <1>5, <1>6
<1> QED
  BY <1>2, <1>7, <1>8

\* The queue fields of the ROB r after one update.
Kept(u, r) ==
  \A k \in RobIndex : /\ u[k].id = r[k].id /\ u[k].executed = r[k].executed
                      /\ u[k].sq_index = r[k].sq_index

SameCounts(u, r) == \A k \in RobIndex : u[k].num_mem_ops = r[k].num_mem_ops
OnlyLoad(u, r, i, v) ==
  /\ u[i].lq_index = v
  /\ \A k \in RobIndex : /\ u[k].mem_depend_on_me = r[k].mem_depend_on_me
                         /\ u[k].got = r[k].got
                         /\ k # i => u[k].lq_index = r[k].lq_index
OnlyReader(u, r, p, i) ==
  \A k \in RobIndex :
    /\ u[k].lq_index = r[k].lq_index /\ u[k].got = r[k].got
    /\ u[k].mem_depend_on_me =
         IF k = p THEN r[k].mem_depend_on_me \cup {i} ELSE r[k].mem_depend_on_me

LEMMA AddedQueues ==
  ASSUME NEW i \in RobIndex, NEW r, Adds(i, r), NEW j, NEW q, NEW u, u = WithLoad(r, i, j, q),
         NEW v, v = [r[i].lq_index EXCEPT ![j] = q]
  PROVE  Kept(u, r) /\ SameCounts(u, r) /\ OnlyLoad(u, r, i, v)
<1> DEFINE w == [r[i] EXCEPT !.lq_index = v]
<1>1. r = [k \in RobIndex |-> r[k]] /\ \A k \in RobIndex : r[k] = Fields(r[k])
  BY DEF Adds, Shaped
<1>2. u = [r EXCEPT ![i] = w]
  BY DEF WithLoad
<1>4. w = [Fields(r[i]) EXCEPT !.lq_index = v]
  BY <1>1
<1> HIDE DEF w
<1>5. \A k \in RobIndex : u[k] = IF k = i THEN w ELSE r[k]
  BY <1>1, <1>2
<1>6. /\ w.id = r[i].id /\ w.executed = r[i].executed /\ w.sq_index = r[i].sq_index
      /\ w.num_mem_ops = r[i].num_mem_ops
      /\ w.mem_depend_on_me = r[i].mem_depend_on_me /\ w.lq_index = v
      /\ w.got = r[i].got
  BY <1>4 DEF Fields
<1>7. u[i].lq_index = v
  BY <1>5, <1>6
<1>8. ASSUME NEW k \in RobIndex
      PROVE  /\ u[k].id = r[k].id /\ u[k].executed = r[k].executed
             /\ u[k].sq_index = r[k].sq_index
             /\ u[k].num_mem_ops = r[k].num_mem_ops
             /\ u[k].mem_depend_on_me = r[k].mem_depend_on_me
             /\ u[k].got = r[k].got
             /\ k # i => u[k].lq_index = r[k].lq_index
  BY <1>5, <1>6
<1> QED
  BY <1>7, <1>8 DEF Kept, SameCounts, OnlyLoad

LEMMA ReaderQueues ==
  ASSUME NEW i \in RobIndex, NEW r, Adds(i, r), NEW p \in RobIndex, NEW u,
         u = WithReader(r, p, i)
  PROVE  Kept(u, r) /\ SameCounts(u, r) /\ OnlyReader(u, r, p, i)
<1> DEFINE v == r[p].mem_depend_on_me \cup {i}
           w == [r[p] EXCEPT !.mem_depend_on_me = v]
<1>1. r = [k \in RobIndex |-> r[k]] /\ \A k \in RobIndex : r[k] = Fields(r[k])
  BY DEF Adds, Shaped
<1>2. u = [r EXCEPT ![p] = w]
  BY DEF WithReader
<1>3. v = r[p].mem_depend_on_me \cup {i}
  OBVIOUS
<1> HIDE DEF v
<1>4. w = [Fields(r[p]) EXCEPT !.mem_depend_on_me = v]
  BY <1>1
<1> HIDE DEF w
<1>5. \A k \in RobIndex : u[k] = IF k = p THEN w ELSE r[k]
  BY <1>1, <1>2
<1>6. /\ w.id = r[p].id /\ w.executed = r[p].executed /\ w.sq_index = r[p].sq_index
      /\ w.num_mem_ops = r[p].num_mem_ops
      /\ w.lq_index = r[p].lq_index /\ w.mem_depend_on_me = v /\ w.got = r[p].got
  BY <1>4 DEF Fields
<1>7. ASSUME NEW k \in RobIndex
      PROVE  /\ u[k].id = r[k].id /\ u[k].executed = r[k].executed
             /\ u[k].sq_index = r[k].sq_index
             /\ u[k].num_mem_ops = r[k].num_mem_ops
             /\ u[k].lq_index = r[k].lq_index /\ u[k].got = r[k].got
             /\ u[k].mem_depend_on_me = IF k = p THEN v ELSE r[k].mem_depend_on_me
  BY <1>5, <1>6
<1> QED
  BY <1>3, <1>7 DEF Kept, SameCounts, OnlyReader

LEMMA ReadQueues ==
  ASSUME NEW i \in RobIndex, NEW r, Adds(i, r), NEW D, NEW v, NEW u,
         u = Read(Finished(r, D), D, v)
  PROVE  /\ Kept(u, r)
         /\ \A k \in RobIndex :
              /\ u[k].num_mem_ops = r[k].num_mem_ops - Cardinality(Part(D, k))
              /\ u[k].lq_index = r[k].lq_index
              /\ u[k].mem_depend_on_me = r[k].mem_depend_on_me
              /\ u[k].got = GotOf(r[k].got, k, D, v)
<1>1. Shaped(r)
  BY DEF Adds
<1>2. \A k \in RobIndex :
        /\ SameId(u[k], r[k]) /\ SameQueues(u[k], r[k]) /\ u[k].executed = r[k].executed
  BY <1>1, DoneFields
<1>3. \A k \in RobIndex :
        /\ u[k].num_mem_ops = r[k].num_mem_ops - Cardinality(Part(D, k))
        /\ u[k].mem_depend_on_me = r[k].mem_depend_on_me
        /\ u[k].got = GotOf(r[k].got, k, D, v)
  BY <1>1, DoneOps
<1> QED
  BY <1>2, <1>3 DEF Kept, SameId, SameQueues

\* The store a load waits for.
LEMMA StoreProducerIs ==
  ASSUME head \in RobIndex, NEW i \in RobIndex, NEW a, NEW p, p = StoreProducer(i, a)
  PROVE  /\ p = NoIndex => StoresTo(i, a) = {}
         /\ p # NoIndex => p \in RobIndex /\ LastStore(p, i, a)
<1> DEFINE S == StoresTo(i, a)
<1>1. S \subseteq RobIndex /\ NoIndex \notin RobIndex
  BY CoreSizes DEF StoresTo, Older, RobIndex, NoIndex
<1>2. p = IF S = {} THEN NoIndex ELSE Youngest(S)
  BY DEF StoreProducer, StoresTo
<1> HIDE DEF S
<1>3. S # {} => Youngest(S) \in S /\ \A m \in S : Age(m) <= Age(Youngest(S))
  BY <1>1, YoungestIs
<1>4. p # NoIndex => p \in S /\ \A m \in S : Age(m) <= Age(p)
  BY <1>2, <1>3
<1>5. p = NoIndex => S = {}
  BY <1>1, <1>2, <1>3
<1> QED
  BY <1>1, <1>4, <1>5 DEF LastStore, S

LEMMA LastStoreIsOne ==
  ASSUME head \in RobIndex, NEW i, NEW a, NEW k \in RobIndex, NEW p \in RobIndex,
         LastStore(k, i, a), LastStore(p, i, a)
  PROVE  k = p
<1>1. Age(k) <= Age(p) /\ Age(p) <= Age(k)
  BY DEF LastStore
<1>2. Age(k) \in Int /\ Age(p) \in Int
  BY AgeValue, CoreSizes
<1>3. Age(k) = Age(p)
  BY <1>1, <1>2
<1> QED
  BY <1>3, AgeInjective

\* The entry that a load takes.
LEMMA FirstOf ==
  ASSUME NEW S \in SUBSET Nat, S # {}
  PROVE  \E m \in S : \A x \in S : m <= x
<1>1. S \subseteq Nat
  OBVIOUS
<1>2. PICK m \in S : \A y \in S : <<y, m>> \notin OpToRel(<, Nat)
  BY <1>1, NatLessThanWellFounded, WFMin
<1>3. \A y \in S : ~(y < m)
  BY <1>1, <1>2 DEF OpToRel
<1>4. \A y \in S : y \in Nat /\ m \in Nat
  BY <1>1
<1>5. \A y \in S : m <= y
  BY <1>3, <1>4
<1> QED
  BY <1>5

\* The state s after the first j loads of i were tried.
Loading(i, j, s) ==
  /\ Good(i, s) /\ Indices(s.rob) /\ Kept(s.rob, rob)
  /\ \A k \in RobIndex : k # i => s.rob[k].num_mem_ops = rob[k].num_mem_ops
  /\ \A n \in 1 .. Loads(i) : n > j => s.rob[i].lq_index[n] = rob[i].lq_index[n]
  /\ s.lq \in [LqIndex -> LsqType(LqIndex)] /\ s.rtl0 \in Seq(LqIndex)
  /\ LoadLinks(s.rob, s.lq) /\ LoadWaits(s.rob, s.lq, sq)
  /\ Enumerates(s.rtl0, Sending(s.lq, LqIndex))
  /\ Reading(s.lq, LqIndex) = Reading(lq, LqIndex)
  /\ OpsLeft(s.rob, s.lq, sq)
  /\ s.mem \in Int /\ s.mem = Cardinality(Finishes(s.rob))

LEMMA EnterKeeps ==
  ASSUME CInv, NEW i \in RobIndex, Busy(i), NEW j \in 1 .. Loads(i),
         NEW s, Loading(i, j - 1, s), NEW t, Good(i, t), NEW q, NEW e,
         Enters(i, j, q, e, s.rob, s.lq, t.rob, t.lq),
         \/ e = EmptyLsq
         \/ /\ Entry(e, i, j)
            /\ e.producer_id # NoProducer => e.translated = "INFLIGHT"
            /\ e.translated # "COMPLETED" => e.fetched = "no"
            /\ e.fetched # "COMPLETED"
            /\ Follows(t.rob, sq, i, Op(i).loads[j], e.producer_id),
         Kept(t.rob, s.rob),
         t.rob[i].lq_index \in [1 .. Loads(i) -> LqIndex \cup {NoIndex}],
         \A k \in RobIndex :
           /\ t.rob[k].mem_depend_on_me \subseteq RobIndex
           /\ t.rob[k].num_mem_ops =
                s.rob[k].num_mem_ops - (IF k = i /\ e = EmptyLsq THEN 1 ELSE 0),
         t.lq \in [LqIndex -> LsqType(LqIndex)], t.rtl0 \in Seq(LqIndex),
         Enumerates(t.rtl0, Sending(t.lq, LqIndex)),
         Reading(t.lq, LqIndex) = Reading(s.lq, LqIndex),
         t.mem \in Int, t.mem = Cardinality(Finishes(t.rob))
  PROVE  Loading(i, j, t)
<1>1. /\ Indices(s.rob) /\ Kept(s.rob, rob)
      /\ \A k \in RobIndex : k # i => s.rob[k].num_mem_ops = rob[k].num_mem_ops
      /\ \A n \in 1 .. Loads(i) : n > j - 1 => s.rob[i].lq_index[n] = rob[i].lq_index[n]
      /\ LoadLinks(s.rob, s.lq) /\ LoadWaits(s.rob, s.lq, sq)
      /\ Reading(s.lq, LqIndex) = Reading(lq, LqIndex)
      /\ OpsLeft(s.rob, s.lq, sq)
  BY DEF Loading
<1>2. Loads(i) \in Nat
  BY OpTypes
<1>3. LoadLinks(t.rob, t.lq)
  BY <1>1, EnterLinks
<1>4. LoadWaits(t.rob, t.lq, sq)
  BY <1>1, EnterWaits
<1>5. Indices(t.rob)
  <2>1. ASSUME NEW k \in RobIndex
        PROVE  /\ t.rob[k].num_mem_ops \in Int
               /\ t.rob[k].lq_index \in [1 .. Loads(k) -> LqIndex \cup {NoIndex}]
               /\ t.rob[k].sq_index \in [1 .. Stores(k) -> SqIndex \cup {NoIndex}]
    <3>1. s.rob[k].num_mem_ops \in Int
      BY <1>1 DEF Indices
    <3>2. t.rob[k].num_mem_ops \in Int
      BY <3>1
    <3>3. t.rob[k].lq_index \in [1 .. Loads(k) -> LqIndex \cup {NoIndex}]
      BY <1>1 DEF Indices, Enters
    <3>4. t.rob[k].sq_index \in [1 .. Stores(k) -> SqIndex \cup {NoIndex}]
      BY <1>1 DEF Indices, Kept
    <3> QED
      BY <3>2, <3>3, <3>4
  <2> QED
    BY <2>1 DEF Indices
<1>6. OpsLeft(t.rob, t.lq, sq)
  <2>1. ASSUME NEW k \in RobIndex
        PROVE  t.rob[k].num_mem_ops = Cardinality(WaitingLoads(t.rob, t.lq, k))
                                        + Cardinality(WaitingStores(t.rob, sq, k))
    <3>1. s.rob[k].num_mem_ops = Cardinality(WaitingLoads(s.rob, s.lq, k))
                                   + Cardinality(WaitingStores(s.rob, sq, k))
      BY <1>1 DEF OpsLeft
    <3>2. WaitingStores(t.rob, sq, k) = WaitingStores(s.rob, sq, k)
      BY DEF WaitingStores, Kept
    <3>3. /\ j \in WaitingLoads(s.rob, s.lq, i)
          /\ Entry(e, i, j) => WaitingLoads(t.rob, t.lq, k) = WaitingLoads(s.rob, s.lq, k)
          /\ e = EmptyLsq => WaitingLoads(t.rob, t.lq, k) =
               IF k = i THEN WaitingLoads(s.rob, s.lq, k) \ {j} ELSE WaitingLoads(s.rob, s.lq, k)
      <4>1. PICK r, l, u, m : r = s.rob /\ l = s.lq /\ u = t.rob /\ m = t.lq
        OBVIOUS
      <4>2. Indices(r) /\ Enters(i, j, q, e, r, l, u, m)
        BY <1>1, <4>1
      <4>3. /\ j \in WaitingLoads(r, l, i)
            /\ Entry(e, i, j) => WaitingLoads(u, m, k) = WaitingLoads(r, l, k)
            /\ e = EmptyLsq => WaitingLoads(u, m, k) =
                 IF k = i THEN WaitingLoads(r, l, k) \ {j} ELSE WaitingLoads(r, l, k)
        BY <4>2, EnterWaiting
      <4> QED
        BY <4>1, <4>3
    <3>4. CASE k = i /\ e = EmptyLsq
      <4> DEFINE W == WaitingLoads(s.rob, s.lq, k)
      <4>1. IsFiniteSet(W)
        <5>1. W \in SUBSET (1 .. Loads(k))
          BY DEF WaitingLoads
        <5> QED
          BY <1>2, <3>4, <5>1, UpTo
      <4>2. WaitingStores(s.rob, sq, k) \in SUBSET (1 .. Stores(k)) /\ Stores(k) \in Nat
        BY OpTypes DEF WaitingStores
      <4>3. IsFiniteSet(WaitingStores(s.rob, sq, k))
        BY <4>2, UpTo
      <4>4. Cardinality(W) \in Nat /\ Cardinality(WaitingStores(s.rob, sq, k)) \in Nat
        BY <4>1, <4>3, FS_CardinalityType
      <4> HIDE DEF W
      <4>5. j \in W
        BY <3>3, <3>4 DEF W
      <4>6. Cardinality(W \ {j}) = Cardinality(W) - 1
        BY <4>1, <4>5, FS_RemoveElement
      <4>7. WaitingLoads(t.rob, t.lq, k) = W \ {j}
        BY <3>3, <3>4 DEF W
      <4>8. t.rob[k].num_mem_ops = s.rob[k].num_mem_ops - 1
        BY <3>4
      <4>9. s.rob[k].num_mem_ops = Cardinality(W) + Cardinality(WaitingStores(s.rob, sq, k))
        BY <3>1 DEF W
      <4> QED
        BY <3>2, <4>4, <4>6, <4>7, <4>8, <4>9
    <3>5. CASE ~(k = i /\ e = EmptyLsq)
      <4>1. WaitingLoads(t.rob, t.lq, k) = WaitingLoads(s.rob, s.lq, k)
        BY <3>3, <3>5
      <4>2. s.rob[k].num_mem_ops \in Int
        BY <1>1 DEF Indices
      <4>3. t.rob[k].num_mem_ops = s.rob[k].num_mem_ops
        BY <3>5, <4>2
      <4> QED
        BY <3>1, <3>2, <4>1, <4>3
    <3> QED
      BY <3>4, <3>5
  <2> QED
    BY <2>1 DEF OpsLeft
<1>7. \A k \in RobIndex : k # i => t.rob[k].num_mem_ops = rob[k].num_mem_ops
  <2>1. ASSUME NEW k \in RobIndex, k # i
        PROVE  t.rob[k].num_mem_ops = rob[k].num_mem_ops
    <3>1. s.rob[k].num_mem_ops \in Int /\ s.rob[k].num_mem_ops = rob[k].num_mem_ops
      BY <1>1, <2>1 DEF Indices
    <3> QED
      BY <2>1, <3>1
  <2> QED
    BY <2>1
<1>8. \A n \in 1 .. Loads(i) : n > j => t.rob[i].lq_index[n] = rob[i].lq_index[n]
  <2>1. ASSUME NEW n \in 1 .. Loads(i), n > j
        PROVE  t.rob[i].lq_index[n] = rob[i].lq_index[n]
    <3>1. n # j /\ n > j - 1
      BY <1>2, <2>1
    <3> QED
      BY <1>1, <3>1 DEF Enters
  <2> QED
    BY <2>1
<1>9. Kept(t.rob, rob)
  BY <1>1 DEF Kept
<1> QED
  BY <1>1, <1>3, <1>4, <1>5, <1>6, <1>7, <1>8, <1>9 DEF Loading

\* What adding a load does, in its three cases.
FirstFree(l) ==
  LET free == {q \in LqIndex : l[q] = EmptyLsq}
  IN CHOOSE q \in free : \A p \in free : q <= p

Waiting(e, id) == [e EXCEPT !.producer_id = id, !.translated = "INFLIGHT"]
Put(l, q, e) == [l EXCEPT ![q] = e]
\* The parts of the state t.
Becomes(t, r, l, c, n) == t.rob = r /\ t.lq = l /\ t.rtl0 = c /\ t.mem = n

LEMMA AddLoadIs ==
  ASSUME NEW i \in RobIndex, NEW j, NEW s, LoadState(s), rob[i].lq_index[j] = NoIndex,
         \E p \in LqIndex : s.lq[p] = EmptyLsq,
         NEW q, q = FirstFree(s.lq), NEW a, a = Op(i).loads[j], NEW p, p = StoreProducer(i, a),
         NEW u, u = WithLoad(s.rob, i, j, q), NEW w, w = WithReader(u, p, i),
         NEW D, D = {<<i, j>>}, NEW id, id = rob[p].id,
         NEW e, e = LsqEntry(i, j),
         NEW f, f = Waiting(e, id), NEW l, l = Put(s.lq, q, e), NEW m, m = Put(s.lq, q, f),
         NEW t, t = AddIfRoom(s, i, j)
  PROVE  /\ p = NoIndex => Becomes(t, u, l, Append(s.rtl0, q), s.mem)
         /\ p # NoIndex /\ CanForward(p, a) =>
              Becomes(t, Read(Finished(w, D), D, id), s.lq, s.rtl0, s.mem + NowDone(w, D))
         /\ p # NoIndex /\ ~CanForward(p, a) => Becomes(t, w, m, s.rtl0, s.mem)
<1> DEFINE n == NowDone(w, D)
           done == Read(Finished(w, D), D, id)
<1>1. t = AddLoad(s, i, j)
  BY DEF AddIfRoom
<1>2. t = CASE p = NoIndex ->
               [s EXCEPT !.rob = u, !.lq[q] = e, !.rtl0 = Append(@, q)]
            [] p # NoIndex /\ CanForward(p, a) ->
               [s EXCEPT !.rob = done, !.mem = @ + n]
            [] OTHER -> [s EXCEPT !.rob = w, !.lq[q] = f]
  BY <1>1 DEF AddLoad, WithLoad, WithReader, FirstFree, Waiting
<1> HIDE DEF n, done
<1>3. /\ p = NoIndex => t = [s EXCEPT !.rob = u, !.lq[q] = e, !.rtl0 = Append(@, q)]
      /\ p # NoIndex /\ CanForward(p, a) => t = [s EXCEPT !.rob = done, !.mem = @ + n]
      /\ p # NoIndex /\ ~CanForward(p, a) => t = [s EXCEPT !.rob = w, !.lq[q] = f]
  BY <1>2
<1>4. /\ p = NoIndex =>
           t.rob = u /\ t.lq = l /\ t.rtl0 = Append(s.rtl0, q) /\ t.mem = s.mem
      /\ p # NoIndex /\ CanForward(p, a) =>
           t.rob = done /\ t.lq = s.lq /\ t.rtl0 = s.rtl0 /\ t.mem = s.mem + n
      /\ p # NoIndex /\ ~CanForward(p, a) =>
           t.rob = w /\ t.lq = m /\ t.rtl0 = s.rtl0 /\ t.mem = s.mem
  BY <1>3 DEF LoadState, Put
<1> QED
  BY <1>4 DEF n, done, Becomes

LEMMA EntryFields ==
  ASSUME NEW i \in RobIndex, NEW j \in Nat, NEW e, e = LsqEntry(i, j)
  PROVE  /\ e \in LsqType(LqIndex) /\ e \in LsqType(SqIndex)
         /\ Entry(e, i, j) /\ e.producer_id = NoProducer
         /\ e.translated = "no" /\ e.fetched = "no"
<1> DEFINE z == [rob_index |-> NoIndex, data_index |-> 0, producer_id |-> NoProducer,
                 translated |-> "no", fetched |-> "no"]
<1>1. e = [z EXCEPT !.rob_index = i, !.data_index = j]
  BY DEF LsqEntry, EmptyLsq
<1>2. e = [rob_index |-> i, data_index |-> j, producer_id |-> NoProducer,
           translated |-> "no", fetched |-> "no"]
  BY <1>1
<1> HIDE DEF z
<1>3. NoProducer \in Nat /\ "no" \in Stage
  BY DEF NoProducer, Stage
<1> QED
  BY <1>2, <1>3 DEF LsqType, Entry

LEMMA WaitingFields ==
  ASSUME NEW i, NEW j, NEW e \in LsqType(LqIndex), Entry(e, i, j), NEW id \in Nat, NEW f,
         f = Waiting(e, id)
  PROVE  /\ f \in LsqType(LqIndex) /\ Entry(f, i, j)
         /\ f.producer_id = id
         /\ f.translated = "INFLIGHT" /\ f.fetched = e.fetched
<1>1. "INFLIGHT" \in Stage
  BY DEF Stage
<1> QED
  BY <1>1 DEF LsqType, Entry, Waiting

LEMMA IdBounds ==
  ASSUME CInv, NEW k \in RobIndex
  PROVE  /\ Len(program) \in Nat /\ instr_unique_id \in Nat
         /\ rob[k].id \in 0 .. Len(program) /\ rob[k].id < instr_unique_id
<1>1. Len(program) \in Nat /\ instr_unique_id \in 1 .. Len(program) + 1 /\ head \in RobIndex
  BY ProgramsAreTraces, LenProperties DEF CInv, Types
<1>2. Age(k) \in 0 .. RobSize - 1
  BY <1>1, AgeValue
<1>3. PICK n, t, f \in 0 .. RobSize : Window(n, t, f)
  BY DEF CInv, FrontEnd
<1>4. /\ n \in 0 .. RobSize /\ n < instr_unique_id
      /\ rob[k].id = IF Age(k) < n THEN instr_unique_id - n + Age(k) ELSE 0
  BY <1>3 DEF Window
<1> QED
  BY <1>1, <1>2, <1>4, CoreSizes

\* Load j of i has taken the entry q, for which the ROB r becomes u.
Placed(i, j, q, r, l, u) ==
  /\ q \in LqIndex /\ l[q] = EmptyLsq /\ r[i].lq_index[j] = NoIndex
  /\ Kept(u, r)
  /\ u[i].lq_index \in [1 .. Loads(i) -> LqIndex \cup {NoIndex}]
  /\ \A n \in 1 .. Loads(i) : u[i].lq_index[n] = IF n = j THEN q ELSE r[i].lq_index[n]
  /\ \A k \in RobIndex : /\ k # i => u[k].lq_index = r[k].lq_index
                         /\ r[k].mem_depend_on_me \subseteq u[k].mem_depend_on_me
                         /\ u[k].mem_depend_on_me \subseteq RobIndex

LEMMA PlacedLoad ==
  ASSUME NEW i \in RobIndex, NEW r, Adds(i, r), Indices(r), NEW j \in 1 .. Loads(i),
         NEW q \in LqIndex, NEW l, l[q] = EmptyLsq, r[i].lq_index[j] = NoIndex,
         NEW u, u = WithLoad(r, i, j, q)
  PROVE  Placed(i, j, q, r, l, u) /\ SameCounts(u, r)
<1>1. PICK v : v = [r[i].lq_index EXCEPT ![j] = q]
  OBVIOUS
<1>2. Kept(u, r) /\ SameCounts(u, r) /\ OnlyLoad(u, r, i, v)
  BY <1>1, AddedQueues
<1>3. /\ r[i].lq_index \in [1 .. Loads(i) -> LqIndex \cup {NoIndex}]
      /\ \A k \in RobIndex : r[k].mem_depend_on_me \subseteq RobIndex
  BY DEF Indices
<1>4. /\ v \in [1 .. Loads(i) -> LqIndex \cup {NoIndex}]
      /\ \A n \in 1 .. Loads(i) : v[n] = IF n = j THEN q ELSE r[i].lq_index[n]
  BY <1>1, <1>3
<1> QED
  BY <1>2, <1>3, <1>4 DEF Placed, OnlyLoad

LEMMA PlacedReader ==
  ASSUME NEW i \in RobIndex, NEW j, NEW q, NEW r, NEW l, NEW u, Adds(i, u),
         Placed(i, j, q, r, l, u), SameCounts(u, r), NEW p \in RobIndex,
         NEW w, w = WithReader(u, p, i)
  PROVE  /\ Placed(i, j, q, r, l, w) /\ SameCounts(w, r)
         /\ i \in w[p].mem_depend_on_me
<1>1. Kept(w, u) /\ SameCounts(w, u) /\ OnlyReader(w, u, p, i)
  BY ReaderQueues
<1>2. SameCounts(w, r)
  BY <1>1 DEF SameCounts
<1>3. i \in w[p].mem_depend_on_me
  BY <1>1 DEF OnlyReader
<1>4. \A k \in RobIndex : /\ u[k].mem_depend_on_me \subseteq w[k].mem_depend_on_me
                         /\ u[k].mem_depend_on_me \subseteq RobIndex
                              => w[k].mem_depend_on_me \subseteq RobIndex
  BY <1>1 DEF OnlyReader
<1>5. Placed(i, j, q, r, l, w)
  BY <1>1, <1>4 DEF Placed, Kept, OnlyReader
<1> QED
  BY <1>2, <1>3, <1>5

\* The free entry q of the queue l becomes e; the list c is what goes to the DTLB.
Takes(m, l, q, e) ==
  /\ m \in [LqIndex -> LsqType(LqIndex)]
  /\ \A x \in LqIndex : m[x] = IF x = q THEN e ELSE l[x]
Joins(e, q, c, d) ==
  \/ e.producer_id = NoProducer /\ e.translated = "no" /\ d = Append(c, q)
  \/ e.translated = "INFLIGHT" /\ d = c

LEMMA TakesEntry ==
  ASSUME NEW l \in [LqIndex -> LsqType(LqIndex)], NEW q \in LqIndex,
         NEW e \in LsqType(LqIndex), NEW m, m = Put(l, q, e)
  PROVE  Takes(m, l, q, e)
<1>1. m \in [LqIndex -> LsqType(LqIndex)]
  BY DEF Put
<1>2. \A x \in LqIndex : m[x] = IF x = q THEN e ELSE l[x]
  BY DEF Put
<1> QED
  BY <1>1, <1>2 DEF Takes

LEMMA LoadQueued ==
  ASSUME CInv, NEW i \in RobIndex, Busy(i), NEW j \in 1 .. Loads(i),
         NEW s, Loading(i, j - 1, s), NEW t, Good(i, t), NEW q,
         Placed(i, j, q, s.rob, s.lq, t.rob),
         SameCounts(t.rob, s.rob),
         NEW e \in LsqType(LqIndex), Entry(e, i, j), e.fetched = "no",
         Takes(t.lq, s.lq, q, e), Joins(e, q, s.rtl0, t.rtl0), t.mem = s.mem,
         Follows(t.rob, sq, i, Op(i).loads[j], e.producer_id)
  PROVE  Loading(i, j, t)
<1>1. /\ Indices(s.rob) /\ s.lq \in [LqIndex -> LsqType(LqIndex)] /\ s.rtl0 \in Seq(LqIndex)
      /\ Enumerates(s.rtl0, Sending(s.lq, LqIndex))
      /\ s.mem \in Int /\ s.mem = Cardinality(Finishes(s.rob))
  BY DEF Loading
<1>2. e # EmptyLsq
  BY UsedIndex DEF Entry
<1>3. \A k \in RobIndex : s.rob[k].num_mem_ops \in Int
  BY <1>1 DEF Indices
<1>4. Enters(i, j, q, e, s.rob, s.lq, t.rob, t.lq)
  BY <1>1 DEF Placed, Enters, Kept, Used, Takes
<1>5. t.lq \in [LqIndex -> LsqType(LqIndex)]
  BY DEF Takes
<1>6. Finishes(t.rob) = Finishes(s.rob)
  BY DEF Finishes, Placed, Kept, SameCounts
<1>7. /\ q \notin Sending(s.lq, LqIndex)
      /\ e.translated = "INFLIGHT" => /\ Sending(t.lq, LqIndex) = Sending(s.lq, LqIndex)
                                      /\ Reading(t.lq, LqIndex) = Reading(s.lq, LqIndex)
      /\ e.translated = "no" => /\ Sending(t.lq, LqIndex) = Sending(s.lq, LqIndex) \cup {q}
                                /\ Reading(t.lq, LqIndex) = Reading(s.lq, LqIndex)
  <2>1. PICK r, l, u, m : r = s.rob /\ l = s.lq /\ u = t.rob /\ m = t.lq
    OBVIOUS
  <2>2. Enters(i, j, q, e, r, l, u, m)
    BY <1>4, <2>1
  <2>3. /\ q \notin Sending(l, LqIndex)
        /\ e = EmptyLsq \/ e.translated = "INFLIGHT" =>
             Sending(m, LqIndex) = Sending(l, LqIndex) /\ Reading(m, LqIndex) = Reading(l, LqIndex)
        /\ e # EmptyLsq /\ e.translated = "no" =>
             /\ Sending(m, LqIndex) = Sending(l, LqIndex) \cup {q}
             /\ Reading(m, LqIndex) = Reading(l, LqIndex)
    BY <2>2, EnterLists
  <2> QED
    BY <1>2, <2>1, <2>3
<1>8. q \in LqIndex
  BY DEF Placed
<1>9. /\ t.rtl0 \in Seq(LqIndex) /\ Enumerates(t.rtl0, Sending(t.lq, LqIndex))
      /\ Reading(t.lq, LqIndex) = Reading(s.lq, LqIndex)
  <2>1. /\ Append(s.rtl0, q) \in Seq(LqIndex)
        /\ Enumerates(Append(s.rtl0, q), Sending(s.lq, LqIndex) \cup {q})
    BY <1>1, <1>7, <1>8, EnumAppend
  <2>2. CASE e.translated = "INFLIGHT" /\ t.rtl0 = s.rtl0
    BY <1>1, <1>7, <2>2
  <2>3. CASE e.translated = "no" /\ t.rtl0 = Append(s.rtl0, q)
    BY <1>7, <2>1, <2>3
  <2> QED
    BY <2>2, <2>3 DEF Joins
<1>10. /\ e.producer_id # NoProducer => e.translated = "INFLIGHT"
       /\ e.translated # "COMPLETED" => e.fetched = "no"
       /\ e.fetched # "COMPLETED"
  BY DEF Joins
<1>11. \A k \in RobIndex :
         /\ t.rob[k].mem_depend_on_me \subseteq RobIndex
         /\ t.rob[k].num_mem_ops =
              s.rob[k].num_mem_ops - (IF k = i /\ e = EmptyLsq THEN 1 ELSE 0)
  BY <1>2, <1>3 DEF Placed, SameCounts
<1>12. /\ Kept(t.rob, s.rob)
       /\ t.rob[i].lq_index \in [1 .. Loads(i) -> LqIndex \cup {NoIndex}]
  BY DEF Placed
<1>13. t.mem \in Int /\ t.mem = Cardinality(Finishes(t.rob))
  BY <1>1, <1>6
<1>14. Follows(t.rob, sq, i, Op(i).loads[j], e.producer_id)
  OBVIOUS
<1>15. \/ e = EmptyLsq
       \/ /\ Entry(e, i, j)
          /\ e.producer_id # NoProducer => e.translated = "INFLIGHT"
          /\ e.translated # "COMPLETED" => e.fetched = "no"
          /\ e.fetched # "COMPLETED"
          /\ Follows(t.rob, sq, i, Op(i).loads[j], e.producer_id)
  BY <1>10, <1>14
<1> QED
  BY <1>4, <1>5, <1>9, <1>11, <1>12, <1>13, <1>15, EnterKeeps

LEMMA LoadForwarded ==
  ASSUME CInv, NEW i \in RobIndex, IsMemory(i), rob[i].executed # "COMPLETED",
         NEW j \in 1 .. Loads(i),
         NEW s, Loading(i, j - 1, s), NEW t, Good(i, t), NEW q, NEW w,
         Placed(i, j, q, s.rob, s.lq, w), Adds(i, w),
         SameCounts(w, s.rob),
         NEW C, C = {<<i, j>>}, NEW v, t.rob = Read(Finished(w, C), C, v),
         t.lq = s.lq, t.rtl0 = s.rtl0, t.mem = s.mem + NowDone(w, C)
  PROVE  Loading(i, j, t)
<1>1. /\ Indices(s.rob) /\ Kept(s.rob, rob)
      /\ s.lq \in [LqIndex -> LsqType(LqIndex)] /\ s.rtl0 \in Seq(LqIndex)
      /\ Enumerates(s.rtl0, Sending(s.lq, LqIndex)) /\ OpsLeft(s.rob, s.lq, sq)
      /\ s.mem \in Int /\ s.mem = Cardinality(Finishes(s.rob))
  BY DEF Loading
<1>2. \A k \in RobIndex : s.rob[k].num_mem_ops \in Int /\ w[k].num_mem_ops \in Int
  BY <1>1 DEF Indices, SameCounts
<1>3. PICK D : D = C
  OBVIOUS
<1>4. PICK x : x = t.rob
  OBVIOUS
<1>5. /\ Kept(x, w)
      /\ \A k \in RobIndex : /\ x[k].num_mem_ops = w[k].num_mem_ops - Cardinality(Part(D, k))
                             /\ x[k].lq_index = w[k].lq_index
                             /\ x[k].mem_depend_on_me = w[k].mem_depend_on_me
  <2>1. x = Read(Finished(w, D), D, v)
    BY <1>3, <1>4
  <2> QED
    BY <2>1, ReadQueues
<1>6. \A k \in RobIndex : /\ IsFiniteSet(Part(D, k))
                          /\ Cardinality(Part(D, k)) = IF k = i THEN 1 ELSE 0
  <2>1. Part(D, i) = {<<i, j>>}
    BY <1>3 DEF Part
  <2>2. \A k \in RobIndex : k # i => Part(D, k) = {}
    BY <1>3 DEF Part
  <2>3. IsFiniteSet({<<i, j>>}) /\ Cardinality({<<i, j>>}) = 1
    BY FS_Singleton
  <2>4. IsFiniteSet({}) /\ Cardinality({}) = 0
    BY FS_EmptySet
  <2> QED
    BY <2>1, <2>2, <2>3, <2>4
<1>7. Enters(i, j, q, EmptyLsq, s.rob, s.lq, t.rob, t.lq)
  <2>1. \A p \in LqIndex : t.lq[p] = IF p = q THEN EmptyLsq ELSE s.lq[p]
    BY DEF Placed
  <2>2. \A n \in 1 .. Loads(i) : t.rob[i].lq_index[n] = IF n = j THEN q ELSE s.rob[i].lq_index[n]
    BY <1>4, <1>5 DEF Placed
  <2>3. \A k \in RobIndex :
          /\ t.rob[k].id = s.rob[k].id
          /\ k # i => t.rob[k].lq_index = s.rob[k].lq_index
          /\ s.rob[k].mem_depend_on_me \subseteq t.rob[k].mem_depend_on_me
    BY <1>4, <1>5 DEF Placed, Kept
  <2> QED
    BY <2>1, <2>2, <2>3 DEF Enters, Placed, Used
<1>8. Kept(t.rob, s.rob)
  BY <1>4, <1>5 DEF Placed, Kept
<1>9. t.rob[i].lq_index \in [1 .. Loads(i) -> LqIndex \cup {NoIndex}]
  BY <1>4, <1>5 DEF Placed
<1>10. \A k \in RobIndex :
         /\ t.rob[k].mem_depend_on_me \subseteq RobIndex
         /\ t.rob[k].num_mem_ops =
              s.rob[k].num_mem_ops - (IF k = i /\ EmptyLsq = EmptyLsq THEN 1 ELSE 0)
  BY <1>2, <1>4, <1>5, <1>6 DEF Placed, SameCounts
<1>11. s.rob[i].num_mem_ops # 0
  <2>1. PICK L : L = WaitingLoads(s.rob, s.lq, i)
    OBVIOUS
  <2>2. PICK S : S = WaitingStores(s.rob, sq, i)
    OBVIOUS
  <2>3. Loads(i) \in Nat /\ Stores(i) \in Nat
    BY OpTypes
  <2>4. L \in SUBSET (1 .. Loads(i)) /\ S \in SUBSET (1 .. Stores(i))
    BY <2>1, <2>2 DEF WaitingLoads, WaitingStores
  <2>5. IsFiniteSet(L) /\ IsFiniteSet(S)
    BY <2>3, <2>4, UpTo
  <2>6. j \in L
    BY <2>1 DEF WaitingLoads, Placed
  <2>7. Cardinality(L) \in Nat /\ Cardinality(S) \in Nat /\ Cardinality(L) # 0
    BY <2>5, <2>6, FS_CardinalityType, FS_EmptySet
  <2>8. s.rob[i].num_mem_ops = Cardinality(L) + Cardinality(S)
    BY <1>1, <2>1, <2>2 DEF OpsLeft
  <2> QED
    BY <2>7, <2>8
<1>12. t.mem \in Int /\ t.mem = Cardinality(Finishes(t.rob))
  <2>1. \A d \in D : /\ d[1] \in RobIndex /\ IsMemory(d[1])
                     /\ w[d[1]].executed # "COMPLETED" /\ w[d[1]].num_mem_ops # 0
    <3>1. w[i].executed # "COMPLETED" /\ w[i].num_mem_ops # 0
      BY <1>1, <1>11 DEF Placed, Kept, SameCounts
    <3> QED
      BY <1>3, <3>1
  <2>2. \A k \in RobIndex : IsFiniteSet(Part(D, k))
    BY <1>6
  <2>3. \A k \in RobIndex : /\ w[k].num_mem_ops \in Int
                            /\ x[k].num_mem_ops = w[k].num_mem_ops - Cardinality(Part(D, k))
                            /\ x[k].executed = w[k].executed
    BY <1>2, <1>5 DEF Kept
  <2>4. /\ NowDone(w, D) \in Nat
        /\ Cardinality(Finishes(x)) = Cardinality(Finishes(w)) + NowDone(w, D)
    BY <2>1, <2>2, <2>3, FinishesCount
  <2>5. Finishes(w) = Finishes(s.rob)
    BY DEF Finishes, Placed, Kept, SameCounts
  <2>6. t.mem = s.mem + NowDone(w, D)
    BY <1>3
  <2> QED
    BY <1>1, <1>4, <2>4, <2>5, <2>6
<1>13. PICK e : e = EmptyLsq
  OBVIOUS
<1>14. Enters(i, j, q, e, s.rob, s.lq, t.rob, t.lq)
  BY <1>7, <1>13
<1>15. \A k \in RobIndex :
         /\ t.rob[k].mem_depend_on_me \subseteq RobIndex
         /\ t.rob[k].num_mem_ops =
              s.rob[k].num_mem_ops - (IF k = i /\ e = EmptyLsq THEN 1 ELSE 0)
  BY <1>10, <1>13
<1>16. /\ t.lq \in [LqIndex -> LsqType(LqIndex)] /\ t.rtl0 \in Seq(LqIndex)
       /\ Enumerates(t.rtl0, Sending(t.lq, LqIndex))
       /\ Reading(t.lq, LqIndex) = Reading(s.lq, LqIndex)
  BY <1>1
<1>17. Busy(i)
  BY DEF IsMemory
<1> QED
  BY <1>8, <1>9, <1>12, <1>13, <1>14, <1>15, <1>16, <1>17, EnterKeeps

LEMMA LoadEnters ==
  ASSUME CInv, MInv, NEW i \in RobIndex, IsMemory(i), rob[i].executed # "COMPLETED",
         NEW j \in 1 .. Loads(i), NEW s, Loading(i, j - 1, s), NEW t, t = AddIfRoom(s, i, j)
  PROVE  Loading(i, j, t)
<1>1. Good(i, s) /\ LoadState(s) /\ Adds(i, s.rob)
  BY DEF Loading, Good
<1>2. Good(i, t)
  BY <1>1, AddLoadGood
<1>3. Loads(i) \in Nat /\ j \in Nat /\ j > j - 1
  BY OpTypes
<1>4. Busy(i)
  BY DEF IsMemory
<1>5. /\ Indices(s.rob) /\ Kept(s.rob, rob)
      /\ \A n \in 1 .. Loads(i) : n > j - 1 => s.rob[i].lq_index[n] = rob[i].lq_index[n]
      /\ s.lq \in [LqIndex -> LsqType(LqIndex)] /\ s.rtl0 \in Seq(LqIndex)
      /\ Enumerates(s.rtl0, Sending(s.lq, LqIndex))
      /\ OpsLeft(s.rob, s.lq, sq)
      /\ s.mem \in Int /\ s.mem = Cardinality(Finishes(s.rob))
  BY DEF Loading
<1>6. head \in RobIndex
  BY DEF CInv, Types
<1>7. CASE ~(rob[i].lq_index[j] = NoIndex /\ \E q \in LqIndex : s.lq[q] = EmptyLsq)
  <2>1. t = s
    BY <1>7 DEF AddIfRoom
  <2>2. \A n \in 1 .. Loads(i) : n > j => n > j - 1
    BY <1>3
  <2> QED
    BY <2>1, <2>2 DEF Loading
<1>8. CASE rob[i].lq_index[j] = NoIndex /\ \E q \in LqIndex : s.lq[q] = EmptyLsq
  <2>2. PICK q : q = FirstFree(s.lq)
    OBVIOUS
  <2>3. q \in LqIndex /\ s.lq[q] = EmptyLsq
    <3> DEFINE S == {p \in LqIndex : s.lq[p] = EmptyLsq}
    <3>1. S # {} /\ S \in SUBSET Nat /\ S \in SUBSET LqIndex
      BY <1>8, CoreSizes DEF LqIndex
    <3>2. q = CHOOSE p \in S : \A x \in S : p <= x
      BY <2>2 DEF FirstFree
    <3> HIDE DEF S
    <3>3. PICK m \in S : \A x \in S : m <= x
      BY <3>1, FirstOf
    <3>4. q \in S
      BY <3>2, <3>3
    <3> QED
      BY <3>4 DEF S
  <2>4. PICK a : a = Op(i).loads[j]
    OBVIOUS
  <2>5. PICK p : p = StoreProducer(i, a)
    OBVIOUS
  <2>6. PICK u : u = WithLoad(s.rob, i, j, q)
    OBVIOUS
  <2>7. PICK w : w = WithReader(u, p, i)
    OBVIOUS
  <2>8. LoadState(s) /\ rob[i].lq_index[j] = NoIndex /\ \E x \in LqIndex : s.lq[x] = EmptyLsq
    BY <1>1, <1>8
  <2>9. PICK e : e = LsqEntry(i, j)
    OBVIOUS
  <2>10. PICK id : id = rob[p].id
    OBVIOUS
  <2>11. PICK f : f = Waiting(e, id)
    OBVIOUS
  <2>12. PICK D : D = {<<i, j>>}
    OBVIOUS
  <2>13. PICK l, m : l = Put(s.lq, q, e) /\ m = Put(s.lq, q, f)
    OBVIOUS
  <2>14. /\ p = NoIndex => Becomes(t, u, l, Append(s.rtl0, q), s.mem)
         /\ p # NoIndex /\ CanForward(p, a) =>
              Becomes(t, Read(Finished(w, D), D, id), s.lq, s.rtl0, s.mem + NowDone(w, D))
         /\ p # NoIndex /\ ~CanForward(p, a) => Becomes(t, w, m, s.rtl0, s.mem)
    BY <2>2, <2>4, <2>5, <2>6, <2>7, <2>8, <2>9, <2>10, <2>11, <2>12, <2>13, AddLoadIs
  <2>15. /\ p = NoIndex => StoresTo(i, a) = {}
         /\ p # NoIndex => p \in RobIndex /\ LastStore(p, i, a)
    BY <1>6, <2>5, StoreProducerIs
  <2>16. Adds(i, u)
    BY <1>1, <2>6, AddedFields
  <2>17. s.rob[i].lq_index[j] = NoIndex
    BY <1>3, <1>5, <1>8
  <2>18. Placed(i, j, q, s.rob, s.lq, u) /\ SameCounts(u, s.rob)
    BY <1>1, <1>5, <2>3, <2>6, <2>17, PlacedLoad
  <2>19. /\ e \in LsqType(LqIndex) /\ Entry(e, i, j) /\ e.producer_id = NoProducer
         /\ e.translated = "no" /\ e.fetched = "no"
    <3>1. /\ e \in LsqType(LqIndex) /\ e \in LsqType(SqIndex)
          /\ Entry(e, i, j) /\ e.producer_id = NoProducer
          /\ e.translated = "no" /\ e.fetched = "no"
      BY <1>3, <2>9, EntryFields
    <3> QED
      BY <3>1
  <2>20. CASE p = NoIndex
    <3>1. Becomes(t, u, l, Append(s.rtl0, q), s.mem)
      BY <2>14, <2>20
    <3>2. t.rob = u /\ t.lq = l /\ t.rtl0 = Append(s.rtl0, q) /\ t.mem = s.mem
      BY <3>1 DEF Becomes
    <3>3. Follows(t.rob, sq, i, Op(i).loads[j], e.producer_id)
      BY <2>4, <2>15, <2>19, <2>20 DEF Follows, LastStore
    <3>4. Placed(i, j, q, s.rob, s.lq, t.rob) /\ SameCounts(t.rob, s.rob)
      BY <2>18, <3>2
    <3>5. Takes(t.lq, s.lq, q, e)
      <4>1. Takes(l, s.lq, q, e)
        BY <1>5, <2>3, <2>13, <2>19, TakesEntry
      <4> QED
        BY <3>2, <4>1
    <3>6. Joins(e, q, s.rtl0, t.rtl0)
      BY <2>19, <3>2 DEF Joins
    <3> QED
      BY <1>2, <1>4, <2>19, <3>2, <3>3, <3>4, <3>5, <3>6, LoadQueued
  <2>21. CASE p # NoIndex
    <3>1. p \in RobIndex /\ LastStore(p, i, a)
      BY <2>15, <2>21
    <3>2. Adds(i, w)
      BY <2>7, <2>16, ReaderFields
    <3>3. /\ Placed(i, j, q, s.rob, s.lq, w) /\ SameCounts(w, s.rob)
          /\ i \in w[p].mem_depend_on_me
      BY <2>7, <2>16, <2>18, <3>1, PlacedReader
    <3>4. CASE CanForward(p, a)
      <4>1. Becomes(t, Read(Finished(w, D), D, id), s.lq, s.rtl0, s.mem + NowDone(w, D))
        BY <2>14, <2>21, <3>4
      <4>2. /\ t.rob = Read(Finished(w, D), D, id)
            /\ t.lq = s.lq /\ t.rtl0 = s.rtl0 /\ t.mem = s.mem + NowDone(w, D)
        BY <4>1 DEF Becomes
      <4> QED
        BY <1>2, <2>12, <3>2, <3>3, <4>2, LoadForwarded
    <3>5. CASE ~CanForward(p, a)
      <4>1. Becomes(t, w, m, s.rtl0, s.mem)
        BY <2>14, <2>21, <3>5
      <4>2. t.rob = w /\ t.lq = m /\ t.rtl0 = s.rtl0 /\ t.mem = s.mem
        BY <4>1 DEF Becomes
      <4>3. id \in Nat
        <5>1. rob[p].id \in 0 .. Len(program) /\ Len(program) \in Nat
          BY <3>1, IdBounds
        <5> QED
          BY <2>10, <5>1
      <4>4. /\ f \in LsqType(LqIndex) /\ Entry(f, i, j) /\ f.producer_id = id
            /\ f.translated = "INFLIGHT" /\ f.fetched = e.fetched
        BY <2>11, <2>19, <4>3, WaitingFields
      <4>5. f.fetched = "no"
        BY <2>19, <4>4
      <4>6. Unstored(sq, p, a)
        BY <3>5 DEF Unstored, CanForward, StoreId, Used
      <4>7. w[p].id = rob[p].id /\ \A k \in RobIndex : w[k].id = rob[k].id
        BY <1>5, <3>1, <3>3 DEF Kept, Placed
      <4>8. Follows(w, sq, i, a, id)
        <5>1. StoresTo(i, a) # {}
          BY <3>1 DEF LastStore
        <5>2. \A k \in RobIndex : LastStore(k, i, a) => k = p
          BY <1>6, <3>1, LastStoreIsOne
        <5> QED
          BY <2>10, <3>1, <3>3, <4>6, <4>7, <5>1, <5>2 DEF Follows
      <4>9. Follows(t.rob, sq, i, Op(i).loads[j], f.producer_id)
        BY <2>4, <4>2, <4>4, <4>8
      <4>10. Placed(i, j, q, s.rob, s.lq, t.rob) /\ SameCounts(t.rob, s.rob)
        BY <3>3, <4>2
      <4>11. Takes(t.lq, s.lq, q, f)
        <5>1. Takes(m, s.lq, q, f)
          BY <1>5, <2>3, <2>13, <4>4, TakesEntry
        <5> QED
          BY <4>2, <5>1
      <4>12. Joins(f, q, s.rtl0, t.rtl0)
        BY <4>2, <4>4 DEF Joins
      <4> QED
        BY <1>2, <1>4, <4>2, <4>4, <4>5, <4>9, <4>10, <4>11, <4>12, LoadQueued
    <3> QED
      BY <3>4, <3>5
  <2> QED
    BY <2>20, <2>21
<1> QED
  BY <1>7, <1>8

LEMMA LoadsStart ==
  ASSUME CInv, MInv, NEW i \in RobIndex
  PROVE  Loading(i, 0, Start)
<1>1. /\ Start.rob = rob /\ Start.lq = lq /\ Start.rtl0 = rtl[1] /\ Start.mem = inflight.mem
      /\ LoadState(Start)
  BY DEF Start, LoadState
<1>2. Good(i, Start)
  BY <1>1, SameFields DEF Good, Adds, CInv, Types
<1>3. /\ Indices(rob) /\ lq \in [LqIndex -> LsqType(LqIndex)] /\ rtl[1] \in Seq(LqIndex)
      /\ LoadLinks(rob, lq) /\ LoadWaits(rob, lq, sq)
      /\ Enumerates(rtl[1], Sending(lq, LqIndex))
      /\ OpsLeft(rob, lq, sq) /\ inflight.mem = Cardinality(Finishes(rob))
      /\ inflight \in [reg : Int, mem : Int]
  BY DEF MInv, MemTypes, LoadSide, Counting
<1>4. inflight.mem \in Int
  BY <1>3
<1>5. Kept(rob, rob)
  BY DEF Kept
<1> QED
  BY <1>1, <1>2, <1>3, <1>4, <1>5 DEF Loading

LEMMA AddLoadsMem ==
  ASSUME CInv, MInv, NEW i \in RobIndex, IsMemory(i), rob[i].executed # "COMPLETED"
  PROVE  Loading(i, Loads(i), AddLoads(i))
<1>1. PICK n : n = Loads(i)
  OBVIOUS
<1>2. n \in Nat /\ n = Len(Op(i).loads)
  BY <1>1, OpTypes DEF IsMemory
<1> DEFINE f == After(i, n)
<1>3. Added(i, n, f)
  BY <1>2, AddedExists DEF After
<1>4. AddLoads(i) = f[n]
  BY <1>2 DEF AddLoads, After, Added, Start
<1> HIDE DEF f
<1>5. \A j \in 0 .. n : f[j] = IF j = 0 THEN Start ELSE AddIfRoom(f[j - 1], i, j)
  BY <1>3 DEF Added
<1>6. Loading(i, 0, Start)
  BY LoadsStart
<1>7. \A j \in 0 .. n : Loading(i, j, f[j])
  <2> DEFINE T == {j \in 0 .. n : ~Loading(i, j, f[j])}
  <2>1. SUFFICES ASSUME T # {}
                 PROVE  FALSE
    BY <2>1
  <2>2. T \subseteq Nat
    OBVIOUS
  <2>3. PICK m \in T : \A y \in T : <<y, m>> \notin OpToRel(<, Nat)
    <3> HIDE DEF T
    <3> QED
      BY <2>1, <2>2, NatLessThanWellFounded, WFMin
  <2>4. m \in 0 .. n /\ ~Loading(i, m, f[m]) /\ \A y \in T : ~(y < m)
    BY <2>2, <2>3 DEF OpToRel
  <2>5. m # 0
    BY <1>5, <1>6, <2>4
  <2>6. m - 1 \in 0 .. n /\ m - 1 < m /\ m \in 1 .. n
    BY <1>2, <2>4, <2>5
  <2>7. Loading(i, m - 1, f[m - 1])
    BY <2>4, <2>6
  <2>8. f[m] = AddIfRoom(f[m - 1], i, m)
    BY <1>5, <2>4, <2>5
  <2>9. Loading(i, m, f[m])
    BY <1>1, <2>6, <2>7, <2>8, LoadEnters
  <2> QED
    BY <2>4, <2>9
<1>8. n \in 0 .. n
  BY <1>2
<1>9. Loading(i, n, f[n])
  BY <1>7, <1>8
<1> QED
  BY <1>1, <1>4, <1>9

-----------------------------------------------------------------------------
(* Stores enter the store queue.                                           *)

\* The place of k in the set S of numbers.
Rank(S, k) == Cardinality({m \in S : m < k})

LEMMA Ranks ==
  ASSUME NEW S \in SUBSET Nat, IsFiniteSet(S)
  PROVE  /\ \A k \in S : Rank(S, k) \in 0 .. Cardinality(S) - 1
         /\ \A k, m \in S : Rank(S, k) = Rank(S, m) => k = m
         /\ \A x \in 0 .. Cardinality(S) - 1 : \E k \in S : Rank(S, k) = x
<1> DEFINE Below(k) == {m \in S : m < k}
           c == Cardinality(S)
<1>1. c \in Nat /\ \A k \in S : k \in Nat
  BY FS_CardinalityType
<1>2. \A k \in S : Below(k) \in SUBSET S /\ k \notin Below(k) /\ Rank(S, k) = Cardinality(Below(k))
  BY <1>1 DEF Rank
<1>3. \A k \in S : IsFiniteSet(Below(k))
  BY <1>2, FS_Subset
<1>4. ASSUME NEW k \in S, NEW m \in S, k < m
      PROVE  Below(k) \cup {k} \in SUBSET Below(m)
  <2>1. \A x \in S : x \in Nat
    BY <1>1
  <2>2. \A x \in S : x < k => x < m
    BY <1>4, <2>1
  <2> QED
    BY <1>4, <2>2
<1> HIDE DEF Below, c
<1>5. ASSUME NEW k \in S
      PROVE  Rank(S, k) \in 0 .. c - 1
  <2>1. IsFiniteSet(S \ {k}) /\ Cardinality(S \ {k}) = c - 1
    BY <1>1, FS_RemoveElement DEF c
  <2>2. Below(k) \in SUBSET (S \ {k})
    BY <1>2
  <2>3. Cardinality(Below(k)) <= c - 1
    BY <2>1, <2>2, FS_Subset
  <2>4. Cardinality(Below(k)) \in Nat
    BY <1>3, FS_CardinalityType
  <2> QED
    BY <1>1, <1>2, <2>3, <2>4
<1>6. ASSUME NEW k \in S, NEW m \in S, k < m
      PROVE  Rank(S, k) < Rank(S, m)
  <2>1. IsFiniteSet(Below(k)) /\ k \notin Below(k) /\ IsFiniteSet(Below(m))
    BY <1>2, <1>3
  <2>2. Cardinality(Below(k) \cup {k}) = Cardinality(Below(k)) + 1
    BY <2>1, FS_AddElement
  <2>3. Cardinality(Below(k) \cup {k}) <= Cardinality(Below(m))
    BY <1>4, <1>6, <2>1, FS_Subset
  <2>4. Rank(S, k) = Cardinality(Below(k)) /\ Rank(S, m) = Cardinality(Below(m))
    BY <1>2
  <2>5. Rank(S, k) \in Int /\ Rank(S, m) \in Int
    BY <1>1, <1>5
  <2> QED
    BY <2>2, <2>3, <2>4, <2>5
<1>7. \A k, m \in S : Rank(S, k) = Rank(S, m) => k = m
  <2>1. ASSUME NEW k \in S, NEW m \in S, Rank(S, k) = Rank(S, m)
        PROVE  k = m
    <3>1. ~(k < m)
      BY <1>1, <1>5, <1>6, <2>1
    <3>2. ~(m < k)
      BY <1>1, <1>5, <1>6, <2>1
    <3> QED
      BY <1>1, <3>1, <3>2
  <2> QED
    BY <2>1
<1>8. \A x \in 0 .. c - 1 : \E k \in S : Rank(S, k) = x
  <2> DEFINE r == [k \in S |-> Rank(S, k)]
  <2>1. r \in Injection(S, 0 .. c - 1)
    <3>1. r \in [S -> 0 .. c - 1]
      BY <1>5
    <3>2. \A k, m \in S : r[k] = r[m] => k = m
      BY <1>7
    <3> QED
      BY <3>1, <3>2 DEF Injection, IsInjective
  <2>2. \A k \in S : r[k] = Rank(S, k)
    OBVIOUS
  <2>3. IsFiniteSet(0 .. c - 1) /\ Cardinality(0 .. c - 1) = c
    BY <1>1, FS_Interval
  <2> HIDE DEF r
  <2>4. r \in Surjection(S, 0 .. c - 1)
    BY <2>1, <2>3, FS_Injection DEF c
  <2> QED
    BY <2>2, <2>4 DEF Surjection
<1> QED
  BY <1>5, <1>7, <1>8 DEF c

LEMMA ListOf ==
  ASSUME NEW T, NEW c \in Nat, NEW t \in [1 .. c -> T]
  PROVE  t \in Seq(T) /\ Len(t) = c
OBVIOUS

\* The first numbers of L, as many as there is room for.
Few(L, room) == {k \in L : Cardinality({m \in L : m <= k}) <= room}

LEMMA FirstFew ==
  ASSUME NEW n \in Nat, NEW L \in SUBSET (1 .. n), NEW room \in Nat
  PROVE  /\ Few(L, room) \in SUBSET L /\ IsFiniteSet(Few(L, room))
         /\ Cardinality(Few(L, room)) \in Nat
         /\ Cardinality(Few(L, room)) <= room
<1> DEFINE S == Few(L, room)
<1>0. S = {k \in L : Cardinality({m \in L : m <= k}) <= room}
  BY DEF Few
<1> HIDE DEF S
<1>1. S \in SUBSET L /\ S \in SUBSET (1 .. n)
  BY <1>0
<1>2. IsFiniteSet(S)
  BY <1>1, UpTo
<1>3. Cardinality(S) \in Nat
  BY <1>2, FS_CardinalityType
<1>4. CASE S = {}
  <2>1. Cardinality(S) = 0
    BY <1>4, <1>2, FS_EmptySet
  <2> QED
    BY <1>1, <1>2, <2>1 DEF S
<1>5. CASE S # {}
  <2> DEFINE T == {n - x : x \in S}
  <2>0. \A x \in S : n - x \in Nat
    BY <1>1
  <2>1. T \in SUBSET Nat /\ T # {}
    BY <1>5, <2>0
  <2>2. PICK t \in T : \A y \in T : t <= y
    <3> HIDE DEF T
    <3> QED
      BY <2>1, FirstOf
  <2>3. PICK k \in S : t = n - k
    BY <2>2
  <2>4. \A x \in S : n - x \in T /\ x \in Nat /\ k \in Nat
    BY <1>1
  <2>5. \A x \in S : n - k <= n - x
    BY <2>2, <2>3, <2>4
  <2>6. \A x \in S : x <= k
    BY <2>4, <2>5
  <2>7. PICK U : U = {m \in L : m <= k}
    OBVIOUS
  <2>8. S \in SUBSET U
    BY <1>1, <2>6, <2>7
  <2>9. Cardinality(U) <= room
    BY <1>0, <2>3, <2>7
  <2>10. U \in SUBSET (1 .. n)
    BY <2>7
  <2>11. IsFiniteSet(U)
    BY <2>10, UpTo
  <2>12. Cardinality(S) <= Cardinality(U) /\ Cardinality(U) \in Nat
    BY <2>8, <2>11, FS_Subset, FS_CardinalityType
  <2> QED
    BY <1>1, <1>2, <1>3, <2>9, <2>12 DEF S
<1> QED
  BY <1>4, <1>5 DEF S

\* The places from the tail on.
LEMMA TailSlot ==
  ASSUME NEW h \in SqIndex, NEW t \in SqIndex, NEW n \in 0 .. SqSize,
         Pos(h, t) = IF n = SqSize THEN 0 ELSE n, NEW m \in 0 .. SqSize, n + m <= SqSize
  PROVE  /\ (t + m) % SqSize \in SqIndex
         /\ Pos(h, (t + m) % SqSize) = IF n + m = SqSize THEN 0 ELSE n + m
<1>1. SqSize \in Nat /\ SqSize >= 1
  BY CoreSizes
<1>2. h \in 0 .. SqSize - 1 /\ t \in 0 .. SqSize - 1
  BY DEF SqIndex
<1>3. Pos(h, t) = IF t >= h THEN t - h ELSE t - h + SqSize
  BY PosValue
<1>4. /\ (t + m) % SqSize = IF t + m < SqSize THEN t + m ELSE t + m - SqSize
      /\ (t + m) % SqSize \in SqIndex
  BY SlotValue
<1>5. PICK x : x = (t + m) % SqSize
  OBVIOUS
<1>6. Pos(h, x) = IF x >= h THEN x - h ELSE x - h + SqSize
  BY <1>4, <1>5, PosValue
<1>7. x = IF t + m < SqSize THEN t + m ELSE t + m - SqSize
  BY <1>4, <1>5
<1>8. PICK p : p = Pos(h, t)
  OBVIOUS
<1>9. /\ p = IF t >= h THEN t - h ELSE t - h + SqSize
      /\ p = IF n = SqSize THEN 0 ELSE n
  BY <1>3, <1>8
<1>10. Pos(h, x) = IF n + m = SqSize THEN 0 ELSE n + m
  BY <1>1, <1>2, <1>6, <1>7, <1>9
<1> QED
  BY <1>4, <1>5, <1>10

-----------------------------------------------------------------------------

\* The place of store k of i in the store queue, when it enters.
StoreSlot(i, k) == (sq_tail + Rank(StoresToAdd(i), k)) % SqSize
NewSlots(i) == {StoreSlot(i, k) : k \in StoresToAdd(i)}

\* The stores N can enter: they are not in the queue, it is their turn, and
\* there is room behind its n entries.
Fits(i, N, n) ==
  /\ N \in SUBSET (1 .. Stores(i)) /\ IsFiniteSet(N) /\ Cardinality(N) \in Nat
  /\ \A k \in N : rob[i].sq_index[k] = NoIndex
  /\ N # {} => sta # <<>> /\ Head(sta) = rob[i].id
  /\ n + Cardinality(N) <= SqSize

LEMMA StoresFit ==
  ASSUME CInv, MInv, NEW i \in RobIndex, Busy(i),
         NEW n \in 0 .. SqSize, Queued(sq, sq_head, sq_tail, n)
  PROVE  Fits(i, StoresToAdd(i), n)
<1>1. SqSize \in Nat /\ sq_head \in SqIndex
  BY CoreSizes DEF MInv, MemTypes
<1>2. Stores(i) \in Nat /\ DOMAIN Op(i).stores = 1 .. Stores(i)
  BY OpTypes
<1>3. SqOccupancy = n
  <2>1. {q \in SqIndex : sq[q] # EmptyLsq} = {q \in SqIndex : Pos(sq_head, q) < n}
    BY DEF Queued, Used
  <2>2. Cardinality({q \in SqIndex : Pos(sq_head, q) < n}) = n
    BY <1>1, PosBelow
  <2> QED
    BY <2>1, <2>2 DEF SqOccupancy
<1>4. PICK L : L = {k \in 1 .. Stores(i) : rob[i].sq_index[k] = NoIndex}
  OBVIOUS
<1>5. PICK room : room = SqSize - n
  OBVIOUS
<1>6. L \in SUBSET (1 .. Stores(i)) /\ room \in Nat
  BY <1>1, <1>4, <1>5
<1>7. PICK S : S = Few(L, room)
  OBVIOUS
<1>8. /\ S \in SUBSET L /\ IsFiniteSet(S) /\ Cardinality(S) \in Nat
      /\ Cardinality(S) <= room
  BY <1>2, <1>6, <1>7, FirstFew
<1>9. StoresToAdd(i) = IF sta # <<>> /\ Head(sta) = rob[i].id THEN S ELSE {}
  BY <1>2, <1>3, <1>4, <1>5, <1>7 DEF StoresToAdd, Few
<1>10. CASE sta # <<>> /\ Head(sta) = rob[i].id
  <2>1. StoresToAdd(i) = S
    BY <1>9, <1>10
  <2>2. S \in SUBSET (1 .. Stores(i)) /\ \A k \in S : rob[i].sq_index[k] = NoIndex
    BY <1>4, <1>8
  <2>3. n + Cardinality(S) <= SqSize
    BY <1>1, <1>5, <1>8
  <2> QED
    BY <1>8, <1>10, <2>1, <2>2, <2>3 DEF Fits
<1>11. CASE ~(sta # <<>> /\ Head(sta) = rob[i].id)
  <2>1. StoresToAdd(i) = {}
    BY <1>9, <1>11
  <2>2. IsFiniteSet({}) /\ Cardinality({}) = 0
    BY FS_EmptySet
  <2> QED
    BY <1>1, <2>1, <2>2 DEF Fits
<1> QED
  BY <1>10, <1>11

\* The new entries are the c places behind the n of the queue.
Behind(i, N, n) ==
  /\ \A k \in N : /\ StoreSlot(i, k) \in SqIndex
                  /\ Pos(sq_head, StoreSlot(i, k)) = n + Rank(N, k)
                  /\ ~Used(sq, StoreSlot(i, k))
  /\ \A k, m \in N : StoreSlot(i, k) = StoreSlot(i, m) => k = m
  /\ \A q \in SqIndex : q \in NewSlots(i) <=>
       n <= Pos(sq_head, q) /\ Pos(sq_head, q) < n + Cardinality(N)
  /\ \A m \in 1 .. Cardinality(N) : /\ (sq_tail + m - 1) % SqSize \in SqIndex
                                    /\ Pos(sq_head, (sq_tail + m - 1) % SqSize) = n + m - 1

LEMMA StoreSlots ==
  ASSUME CInv, MInv, NEW i \in RobIndex,
         NEW n \in 0 .. SqSize, Queued(sq, sq_head, sq_tail, n),
         Fits(i, StoresToAdd(i), n)
  PROVE  Behind(i, StoresToAdd(i), n)
<1>1. SqSize \in Nat /\ sq_head \in SqIndex /\ sq_tail \in SqIndex
  BY CoreSizes DEF MInv, MemTypes
<1>2. PICK N : N = StoresToAdd(i)
  OBVIOUS
<1>3. PICK c : c = Cardinality(N)
  OBVIOUS
<1>4. /\ N \in SUBSET (1 .. Stores(i)) /\ IsFiniteSet(N) /\ c \in Nat
      /\ n + c <= SqSize
  BY <1>2, <1>3 DEF Fits
<1>5. N \in SUBSET Nat
  BY <1>4
<1>6. /\ \A k \in N : Rank(N, k) \in 0 .. c - 1
      /\ \A k, m \in N : Rank(N, k) = Rank(N, m) => k = m
      /\ \A x \in 0 .. c - 1 : \E k \in N : Rank(N, k) = x
  BY <1>3, <1>4, <1>5, Ranks
<1>7. Pos(sq_head, sq_tail) = IF n = SqSize THEN 0 ELSE n
  BY DEF Queued
<1>8. ASSUME NEW x \in 0 .. c - 1
      PROVE  /\ (sq_tail + x) % SqSize \in SqIndex
             /\ Pos(sq_head, (sq_tail + x) % SqSize) = n + x
  <2>1. x \in 0 .. SqSize /\ n + x <= SqSize /\ n + x # SqSize
    BY <1>1, <1>4
  <2> QED
    BY <1>1, <1>7, <2>1, TailSlot
<1>9. \A k : StoreSlot(i, k) = (sq_tail + Rank(N, k)) % SqSize
  BY <1>2 DEF StoreSlot
<1>10. \A k \in N : StoreSlot(i, k) \in SqIndex /\ Pos(sq_head, StoreSlot(i, k)) = n + Rank(N, k)
  BY <1>6, <1>8, <1>9
<1>11. \A q \in SqIndex : Used(sq, q) <=> Pos(sq_head, q) < n
  BY DEF Queued
<1>12. \A k \in N : ~Used(sq, StoreSlot(i, k))
  <2>1. \A k \in N : ~(n + Rank(N, k) < n)
    BY <1>6
  <2> QED
    BY <1>10, <1>11, <2>1
<1>13. \A k, m \in N : StoreSlot(i, k) = StoreSlot(i, m) => k = m
  <2>1. ASSUME NEW k \in N, NEW m \in N, StoreSlot(i, k) = StoreSlot(i, m)
        PROVE  k = m
    <3>1. n + Rank(N, k) = n + Rank(N, m)
      BY <1>10, <2>1
    <3>2. Rank(N, k) = Rank(N, m)
      BY <1>6, <3>1
    <3> QED
      BY <1>6, <3>2
  <2> QED
    BY <2>1
<1>14. \A q \in SqIndex : q \in NewSlots(i) <=>
         n <= Pos(sq_head, q) /\ Pos(sq_head, q) < n + c
  <2>1. ASSUME NEW q \in SqIndex, NEW k \in N, q = StoreSlot(i, k)
        PROVE  n <= Pos(sq_head, q) /\ Pos(sq_head, q) < n + c
    <3>1. Pos(sq_head, q) = n + Rank(N, k) /\ Rank(N, k) \in 0 .. c - 1
      BY <1>6, <1>10, <2>1
    <3> QED
      BY <1>4, <3>1
  <2>2. ASSUME NEW q \in SqIndex, n <= Pos(sq_head, q), Pos(sq_head, q) < n + c
        PROVE  \E k \in N : q = StoreSlot(i, k)
    <3>1. Pos(sq_head, q) \in Nat
      BY <1>1, PosValue
    <3>2. PICK p : p = Pos(sq_head, q)
      OBVIOUS
    <3>3. p - n \in 0 .. c - 1
      BY <1>4, <2>2, <3>1, <3>2
    <3>4. PICK k \in N : Rank(N, k) = p - n
      BY <1>6, <3>3
    <3>5. n + (p - n) = p
      BY <3>1, <3>2
    <3>6. Pos(sq_head, StoreSlot(i, k)) = Pos(sq_head, q)
      BY <1>10, <3>2, <3>4, <3>5
    <3> QED
      BY <1>1, <1>10, <3>6, PosInjective
  <2>3. NewSlots(i) = {StoreSlot(i, k) : k \in N}
    BY <1>2 DEF NewSlots
  <2> QED
    BY <2>1, <2>2, <2>3
<1>15. \A m \in 1 .. c : /\ (sq_tail + m - 1) % SqSize \in SqIndex
                         /\ Pos(sq_head, (sq_tail + m - 1) % SqSize) = n + m - 1
  <2>1. ASSUME NEW m \in 1 .. c
        PROVE  /\ (sq_tail + m - 1) % SqSize \in SqIndex
               /\ Pos(sq_head, (sq_tail + m - 1) % SqSize) = n + m - 1
    <3>1. PICK x : x = m - 1
      OBVIOUS
    <3>2. x \in 0 .. c - 1 /\ sq_tail \in Int
      BY <1>1, <1>4, <3>1 DEF SqIndex
    <3>3. sq_tail + m - 1 = sq_tail + x /\ n + m - 1 = n + x
      BY <3>1, <3>2
    <3> QED
      BY <1>8, <3>2, <3>3
  <2> QED
    BY <2>1
<1> QED
  BY <1>2, <1>3, <1>10, <1>12, <1>13, <1>14, <1>15 DEF Behind

LEMMA TakenList ==
  ASSUME CInv, MInv, NEW i \in RobIndex, NEW N, N = StoresToAdd(i), NEW n \in 0 .. SqSize,
         Fits(i, N, n), Behind(i, N, n),
         NEW t, t = [m \in 1 .. Cardinality(N) |-> (sq_tail + m - 1) % SqSize]
  PROVE  t \in Seq(SqIndex) /\ Enumerates(t, NewSlots(i))
<1>1. sq_head \in SqIndex
  BY DEF MInv, MemTypes
<1>2. PICK c : c = Cardinality(N)
  OBVIOUS
<1>3. c \in Nat
  BY <1>2 DEF Fits
<1>4. DOMAIN t = 1 .. c /\ \A m \in 1 .. c : t[m] = (sq_tail + m - 1) % SqSize
  BY <1>2
<1>5. \A m \in 1 .. c : t[m] \in SqIndex /\ Pos(sq_head, t[m]) = n + m - 1
  BY <1>2, <1>4 DEF Behind
<1>6. t \in [1 .. c -> SqIndex]
  BY <1>2, <1>5
<1>7. t \in Seq(SqIndex) /\ Len(t) = c
  BY <1>3, <1>6, ListOf
<1>8. \A q \in SqIndex : q \in NewSlots(i) <=> n <= Pos(sq_head, q) /\ Pos(sq_head, q) < n + c
  BY <1>2 DEF Behind
<1>9. \A m \in 1 .. c : t[m] \in NewSlots(i)
  <2>1. \A m \in 1 .. c : n <= n + m - 1 /\ n + m - 1 < n + c
    BY <1>3
  <2> QED
    BY <1>5, <1>8, <2>1
<1>10. \A x, y \in 1 .. c : t[x] = t[y] => x = y
  <2>1. \A x, y \in 1 .. c : n + x - 1 = n + y - 1 => x = y
    BY <1>3
  <2> QED
    BY <1>5, <2>1
<1>11. \A q \in NewSlots(i) : \E m \in 1 .. c : t[m] = q
  <2>1. ASSUME NEW q \in NewSlots(i)
        PROVE  \E m \in 1 .. c : t[m] = q
    <3>1. q \in SqIndex
      BY DEF Behind, NewSlots
    <3>2. PICK p : p = Pos(sq_head, q)
      OBVIOUS
    <3>3. p \in Nat /\ n <= p /\ p < n + c
      BY <1>1, <1>8, <3>1, <3>2, PosValue
    <3>4. PICK m : m = p - n + 1
      OBVIOUS
    <3>5. m \in 1 .. c /\ n + m - 1 = p
      BY <1>3, <3>3, <3>4
    <3>6. Pos(sq_head, t[m]) = Pos(sq_head, q) /\ t[m] \in SqIndex
      BY <1>5, <3>2, <3>5
    <3> QED
      BY <1>1, <3>1, <3>5, <3>6, PosInjective
  <2> QED
    BY <2>1
<1> QED
  BY <1>7, <1>9, <1>10, <1>11 DEF Enumerates

\* u is the ROB r with the new stores of i in the queue.
StoresIn(i, r, u) ==
  /\ SameCounts(u, r)
  /\ \A k \in RobIndex :
       /\ u[k].id = r[k].id /\ u[k].executed = r[k].executed
       /\ u[k].lq_index = r[k].lq_index /\ u[k].mem_depend_on_me = r[k].mem_depend_on_me
       /\ u[k].got = r[k].got
       /\ k # i => u[k].sq_index = r[k].sq_index
  /\ u[i].sq_index \in [1 .. Stores(i) -> SqIndex \cup {NoIndex}]
  /\ \A k \in 1 .. Stores(i) :
       u[i].sq_index[k] = IF k \in StoresToAdd(i) THEN StoreSlot(i, k) ELSE r[i].sq_index[k]

\* s is the store queue with the new stores of i in it.
New(e, i, k) == Entry(e, i, k) /\ e.translated = "no" /\ e.fetched = "no"
EntriesIn(i, s) ==
  /\ s \in [SqIndex -> LsqType(SqIndex)]
  /\ \A k \in StoresToAdd(i) : New(s[StoreSlot(i, k)], i, k)
  /\ \A q \in SqIndex : q \notin NewSlots(i) => s[q] = sq[q]

LEMMA StoresInRob ==
  ASSUME NEW i \in RobIndex, NEW r, Adds(i, r), Indices(r),
         \A k \in StoresToAdd(i) : StoreSlot(i, k) \in SqIndex,
         NEW u, u = AddStores(r, i).rob
  PROVE  StoresIn(i, r, u)
<1> DEFINE v == [k \in DOMAIN r[i].sq_index |->
                   IF k \in StoresToAdd(i) THEN StoreSlot(i, k) ELSE r[i].sq_index[k]]
           w == [r[i] EXCEPT !.sq_index = v]
<1>1. r = [k \in RobIndex |-> r[k]] /\ \A k \in RobIndex : r[k] = Fields(r[k])
  BY DEF Adds, Shaped
<1>2. u = [r EXCEPT ![i] = w]
  BY DEF AddStores, StoreSlot, Rank
<1>3. r[i].sq_index \in [1 .. Stores(i) -> SqIndex \cup {NoIndex}]
  BY DEF Indices
<1>4. /\ v \in [1 .. Stores(i) -> SqIndex \cup {NoIndex}]
      /\ \A k \in 1 .. Stores(i) :
           v[k] = IF k \in StoresToAdd(i) THEN StoreSlot(i, k) ELSE r[i].sq_index[k]
  BY <1>3
<1> HIDE DEF v
<1>5. w = [Fields(r[i]) EXCEPT !.sq_index = v]
  BY <1>1
<1> HIDE DEF w
<1>6. \A k \in RobIndex : u[k] = IF k = i THEN w ELSE r[k]
  BY <1>1, <1>2
<1>7. /\ w.id = r[i].id /\ w.executed = r[i].executed /\ w.sq_index = v
      /\ w.num_mem_ops = r[i].num_mem_ops
      /\ w.mem_depend_on_me = r[i].mem_depend_on_me /\ w.lq_index = r[i].lq_index
      /\ w.got = r[i].got
  BY <1>5 DEF Fields
<1>8. u[i].sq_index = v
  BY <1>6, <1>7
<1>9. ASSUME NEW k \in RobIndex
      PROVE  /\ u[k].id = r[k].id /\ u[k].executed = r[k].executed
             /\ k # i => u[k].sq_index = r[k].sq_index
             /\ u[k].num_mem_ops = r[k].num_mem_ops
             /\ u[k].mem_depend_on_me = r[k].mem_depend_on_me
             /\ u[k].lq_index = r[k].lq_index /\ u[k].got = r[k].got
  BY <1>6, <1>7
<1> QED
  BY <1>4, <1>8, <1>9 DEF StoresIn, SameCounts

LEMMA StoresInQueue ==
  ASSUME CInv, MInv, NEW i \in RobIndex, NEW n \in 0 .. SqSize,
         Fits(i, StoresToAdd(i), n), Behind(i, StoresToAdd(i), n),
         NEW r, NEW s, s = AddStores(r, i).sq
  PROVE  EntriesIn(i, s)
<1> DEFINE At(q) == CHOOSE k \in StoresToAdd(i) : StoreSlot(i, k) = q
<1>1. s = [q \in SqIndex |-> IF \E k \in StoresToAdd(i) : StoreSlot(i, k) = q
                             THEN LsqEntry(i, At(q)) ELSE sq[q]]
  BY DEF AddStores, StoreSlot, Rank
<1>2. sq \in [SqIndex -> LsqType(SqIndex)]
  BY DEF MInv, MemTypes
<1>3. /\ \A k \in StoresToAdd(i) : k \in 1 .. Stores(i) /\ StoreSlot(i, k) \in SqIndex
      /\ \A k, m \in StoresToAdd(i) : StoreSlot(i, k) = StoreSlot(i, m) => k = m
  BY DEF Fits, Behind
<1>4. \A k \in StoresToAdd(i) : At(StoreSlot(i, k)) = k
  BY <1>3
<1> HIDE DEF At
<1>5. \A k \in StoresToAdd(i) : s[StoreSlot(i, k)] = LsqEntry(i, k)
  <2>1. ASSUME NEW k \in StoresToAdd(i)
        PROVE  s[StoreSlot(i, k)] = LsqEntry(i, k)
    <3>1. s[StoreSlot(i, k)] = LsqEntry(i, At(StoreSlot(i, k)))
      BY <1>1, <1>3
    <3> QED
      BY <1>4, <3>1
  <2> QED
    BY <2>1
<1>6. \A q \in SqIndex : q \notin NewSlots(i) => s[q] = sq[q]
  <2>1. \A q : q \in NewSlots(i) <=> \E k \in StoresToAdd(i) : StoreSlot(i, k) = q
    BY DEF NewSlots
  <2> QED
    BY <1>1, <2>1
<1>7. ASSUME NEW k \in StoresToAdd(i)
      PROVE  /\ LsqEntry(i, k) \in LsqType(SqIndex)
             /\ New(LsqEntry(i, k), i, k)
  <2>1. PICK e : e = LsqEntry(i, k)
    OBVIOUS
  <2>2. k \in Nat
    BY <1>3
  <2>3. e \in LsqType(SqIndex) /\ New(e, i, k)
    BY <2>1, <2>2, EntryFields DEF New
  <2> QED
    BY <2>1, <2>3
<1>8. \A k \in StoresToAdd(i) : /\ s[StoreSlot(i, k)] \in LsqType(SqIndex)
                                /\ New(s[StoreSlot(i, k)], i, k)
  BY <1>5, <1>7
<1>9. \A q \in SqIndex : s[q] \in LsqType(SqIndex)
  <2>1. ASSUME NEW q \in SqIndex
        PROVE  s[q] \in LsqType(SqIndex)
    <3>1. CASE q \in NewSlots(i)
      <4>1. PICK k \in StoresToAdd(i) : q = StoreSlot(i, k)
        BY <3>1 DEF NewSlots
      <4> QED
        BY <1>8, <4>1
    <3>2. CASE q \notin NewSlots(i)
      BY <1>2, <1>6, <3>2
    <3> QED
      BY <3>1, <3>2
  <2> QED
    BY <2>1
<1>10. s \in [SqIndex -> LsqType(SqIndex)]
  BY <1>1, <1>9
<1> QED
  BY <1>6, <1>8, <1>10 DEF EntriesIn

\* What the new entries leave alone.
LEMMA QueueKeeps ==
  ASSUME NEW i \in RobIndex, NEW n, Behind(i, StoresToAdd(i), n), NEW s, EntriesIn(i, s)
  PROVE  /\ \A q \in SqIndex : Used(sq, q) => q \notin NewSlots(i) /\ s[q] = sq[q]
         /\ \A q \in SqIndex : Used(s, q) <=> Used(sq, q) \/ q \in NewSlots(i)
         /\ \A q \in NewSlots(i) : q \in SqIndex /\ \E k \in StoresToAdd(i) :
              q = StoreSlot(i, k) /\ New(s[q], i, k)
<1>1. \A q \in NewSlots(i) : q \in SqIndex /\ ~Used(sq, q)
  BY DEF NewSlots, Behind
<1>2. \A q \in NewSlots(i) : \E k \in StoresToAdd(i) : q = StoreSlot(i, k) /\ New(s[q], i, k)
  BY DEF NewSlots, EntriesIn
<1>3. \A q \in SqIndex : q \notin NewSlots(i) => s[q] = sq[q]
  BY DEF EntriesIn
<1>4. \A q \in NewSlots(i) : Used(s, q)
  <2>1. ASSUME NEW q \in NewSlots(i)
        PROVE  Used(s, q)
    <3>1. s[q].rob_index = i
      BY <1>2 DEF New, Entry
    <3> QED
      BY <3>1, UsedIndex DEF Used
  <2> QED
    BY <2>1
<1>5. \A q \in SqIndex : q \notin NewSlots(i) => (Used(s, q) <=> Used(sq, q))
  BY <1>3 DEF Used
<1> QED
  BY <1>1, <1>2, <1>3, <1>4, <1>5

\* r is the ROB after the loads of i were added, u with its stores.
StoresJoin(i, n, r, u, s) ==
  /\ Fits(i, StoresToAdd(i), n) /\ Behind(i, StoresToAdd(i), n)
  /\ Kept(r, rob) /\ StoresIn(i, r, u) /\ EntriesIn(i, s)

LEMMA JoinIndex ==
  ASSUME NEW i \in RobIndex, NEW n, NEW r, NEW u, NEW s, StoresJoin(i, n, r, u, s)
  PROVE  /\ \A k \in RobIndex : k # i => u[k].sq_index = rob[k].sq_index
         /\ \A k \in StoresToAdd(i) :
              /\ k \in 1 .. Stores(i) /\ rob[i].sq_index[k] = NoIndex
              /\ u[i].sq_index[k] = StoreSlot(i, k)
              /\ StoreSlot(i, k) \in SqIndex /\ StoreSlot(i, k) # NoIndex
              /\ StoreSlot(i, k) \in NewSlots(i) /\ New(s[StoreSlot(i, k)], i, k)
         /\ \A k \in 1 .. Stores(i) :
              k \notin StoresToAdd(i) => u[i].sq_index[k] = rob[i].sq_index[k]
<1>1. \A k \in RobIndex : r[k].sq_index = rob[k].sq_index
  BY DEF StoresJoin, Kept
<1>2. \A k \in RobIndex : k # i => u[k].sq_index = r[k].sq_index
  BY DEF StoresJoin, StoresIn
<1>3. \A k \in 1 .. Stores(i) :
        u[i].sq_index[k] = IF k \in StoresToAdd(i) THEN StoreSlot(i, k) ELSE r[i].sq_index[k]
  BY DEF StoresJoin, StoresIn
<1>4. \A k \in StoresToAdd(i) : k \in 1 .. Stores(i) /\ rob[i].sq_index[k] = NoIndex
  BY DEF StoresJoin, Fits
<1>5. \A k \in StoresToAdd(i) : StoreSlot(i, k) \in SqIndex /\ StoreSlot(i, k) \in NewSlots(i)
  BY DEF StoresJoin, Behind, NewSlots
<1>6. \A q \in SqIndex : q # NoIndex
  BY DEF SqIndex, NoIndex
<1>7. \A k \in StoresToAdd(i) : New(s[StoreSlot(i, k)], i, k)
  BY DEF StoresJoin, EntriesIn
<1>8. \A k \in StoresToAdd(i) : u[i].sq_index[k] = StoreSlot(i, k)
  BY <1>3, <1>4
<1> QED
  BY <1>1, <1>2, <1>3, <1>4, <1>5, <1>6, <1>7, <1>8

LEMMA JoinLinks ==
  ASSUME NEW i \in RobIndex, Busy(i), NEW n, NEW r, NEW u, NEW s,
         StoresJoin(i, n, r, u, s), StoreLinks(rob, sq), Indices(rob)
  PROVE  StoreLinks(u, s)
<1>1. /\ \A q \in SqIndex : Used(sq, q) => q \notin NewSlots(i) /\ s[q] = sq[q]
      /\ \A q \in SqIndex : Used(s, q) <=> Used(sq, q) \/ q \in NewSlots(i)
      /\ \A q \in NewSlots(i) : q \in SqIndex /\ \E k \in StoresToAdd(i) :
           q = StoreSlot(i, k) /\ New(s[q], i, k)
  BY QueueKeeps DEF StoresJoin
<1>2. /\ \A k \in RobIndex : k # i => u[k].sq_index = rob[k].sq_index
      /\ \A k \in StoresToAdd(i) :
           /\ k \in 1 .. Stores(i) /\ rob[i].sq_index[k] = NoIndex
           /\ u[i].sq_index[k] = StoreSlot(i, k)
           /\ StoreSlot(i, k) \in SqIndex /\ StoreSlot(i, k) # NoIndex
           /\ StoreSlot(i, k) \in NewSlots(i) /\ New(s[StoreSlot(i, k)], i, k)
      /\ \A k \in 1 .. Stores(i) :
           k \notin StoresToAdd(i) => u[i].sq_index[k] = rob[i].sq_index[k]
  BY JoinIndex
<1>3. ASSUME NEW q \in SqIndex, Used(s, q)
      PROVE  LET e == s[q] IN
             /\ e.rob_index \in RobIndex /\ Busy(e.rob_index)
             /\ e.data_index \in 1 .. Stores(e.rob_index)
             /\ u[e.rob_index].sq_index[e.data_index] = q
             /\ e.translated # "COMPLETED" => e.fetched = "no"
  <2>1. CASE Used(sq, q)
    <3>1. s[q] = sq[q]
      BY <1>1, <2>1
    <3>2. PICK k : k = sq[q].rob_index
      OBVIOUS
    <3>3. PICK d : d = sq[q].data_index
      OBVIOUS
    <3>4. /\ k \in RobIndex /\ Busy(k) /\ d \in 1 .. Stores(k)
          /\ rob[k].sq_index[d] = q
          /\ sq[q].translated # "COMPLETED" => sq[q].fetched = "no"
      BY <2>1, <3>2, <3>3 DEF StoreLinks
    <3>5. u[k].sq_index[d] = q
      <4>1. CASE k # i
        BY <1>2, <3>4, <4>1
      <4>2. CASE k = i
        <5>1. q # NoIndex
          BY DEF SqIndex, NoIndex
        <5>2. d \notin StoresToAdd(i)
          BY <1>2, <3>4, <4>2, <5>1
        <5> QED
          BY <1>2, <3>4, <4>2, <5>2
      <4> QED
        BY <4>1, <4>2
    <3> QED
      BY <3>1, <3>2, <3>3, <3>4, <3>5
  <2>2. CASE q \in NewSlots(i)
    <3>1. PICK k \in StoresToAdd(i) : q = StoreSlot(i, k) /\ New(s[q], i, k)
      BY <1>1, <2>2
    <3>2. /\ s[q].rob_index = i /\ s[q].data_index = k
          /\ s[q].fetched = "no"
      BY <3>1 DEF New, Entry
    <3>3. k \in 1 .. Stores(i) /\ u[i].sq_index[k] = q
      BY <1>2, <3>1
    <3> QED
      BY <3>2, <3>3
  <2> QED
    BY <1>1, <1>3, <2>1, <2>2
<1>4. ASSUME NEW j \in RobIndex, NEW k \in 1 .. Stores(j), u[j].sq_index[k] # NoIndex
      PROVE  /\ s[u[j].sq_index[k]].rob_index = j
             /\ s[u[j].sq_index[k]].data_index = k
  <2>1. CASE j = i /\ k \in StoresToAdd(i)
    <3>1. u[j].sq_index[k] = StoreSlot(i, k) /\ New(s[StoreSlot(i, k)], i, k)
      BY <1>2, <2>1
    <3> QED
      BY <2>1, <3>1 DEF New, Entry
  <2>2. CASE ~(j = i /\ k \in StoresToAdd(i))
    <3>1. u[j].sq_index[k] = rob[j].sq_index[k]
      BY <1>2, <2>2
    <3>2. PICK q : q = rob[j].sq_index[k]
      OBVIOUS
    <3>3. q # NoIndex /\ sq[q].rob_index = j /\ sq[q].data_index = k
      BY <1>4, <3>1, <3>2 DEF StoreLinks
    <3>4. CASE q \in NewSlots(i)
      <4>1. q \in SqIndex /\ ~Used(sq, q)
        BY <1>1, <3>4
      <4> QED
        BY <3>3, <4>1, UsedIndex DEF Used
    <3>5. CASE q \notin NewSlots(i)
      <4>1. q \in SqIndex => s[q] = sq[q]
        BY <3>5 DEF StoresJoin, EntriesIn
      <4>2. q \in SqIndex
        BY <3>2, <3>3 DEF Indices
      <4> QED
        BY <3>1, <3>2, <3>3, <4>1, <4>2
    <3> QED
      BY <3>4, <3>5
  <2> QED
    BY <2>1, <2>2
<1> QED
  BY <1>3, <1>4 DEF StoreLinks

LEMMA JoinWaiting ==
  ASSUME NEW i \in RobIndex, NEW n, NEW r, NEW u, NEW s, StoresJoin(i, n, r, u, s),
         StoreLinks(rob, sq), Indices(rob), NEW j \in RobIndex
  PROVE  WaitingStores(u, s, j) = WaitingStores(rob, sq, j)
<1>1. \A q \in SqIndex : Used(sq, q) => s[q] = sq[q]
  BY QueueKeeps DEF StoresJoin
<1>2. /\ \A k \in RobIndex : k # i => u[k].sq_index = rob[k].sq_index
      /\ \A k \in StoresToAdd(i) :
           /\ k \in 1 .. Stores(i) /\ rob[i].sq_index[k] = NoIndex
           /\ u[i].sq_index[k] = StoreSlot(i, k)
           /\ StoreSlot(i, k) \in SqIndex /\ StoreSlot(i, k) # NoIndex
           /\ StoreSlot(i, k) \in NewSlots(i) /\ New(s[StoreSlot(i, k)], i, k)
      /\ \A k \in 1 .. Stores(i) :
           k \notin StoresToAdd(i) => u[i].sq_index[k] = rob[i].sq_index[k]
  BY JoinIndex
<1>3. ASSUME NEW k \in 1 .. Stores(j)
      PROVE  k \in WaitingStores(u, s, j) <=> k \in WaitingStores(rob, sq, j)
  <2>1. CASE j = i /\ k \in StoresToAdd(i)
    <3>1. rob[j].sq_index[k] = NoIndex
      BY <1>2, <2>1
    <3>2. u[j].sq_index[k] = StoreSlot(i, k) /\ New(s[StoreSlot(i, k)], i, k)
      BY <1>2, <2>1
    <3>3. s[u[j].sq_index[k]].fetched # "COMPLETED"
      BY <3>2 DEF New
    <3> QED
      BY <3>1, <3>3 DEF WaitingStores
  <2>2. CASE ~(j = i /\ k \in StoresToAdd(i))
    <3>1. u[j].sq_index[k] = rob[j].sq_index[k]
      BY <1>2, <2>2
    <3>2. PICK q : q = rob[j].sq_index[k]
      OBVIOUS
    <3>3. CASE q = NoIndex
      BY <3>1, <3>2, <3>3 DEF WaitingStores
    <3>4. CASE q # NoIndex
      <4>1. q \in SqIndex
        BY <3>2, <3>4 DEF Indices
      <4>2. sq[q].rob_index = j
        BY <3>2, <3>4 DEF StoreLinks
      <4>3. s[q] = sq[q]
        BY <1>1, <4>1, <4>2, UsedIndex DEF Used
      <4> QED
        BY <3>1, <3>2, <4>3 DEF WaitingStores
    <3> QED
      BY <3>3, <3>4
  <2> QED
    BY <2>1, <2>2
<1> QED
  BY <1>3 DEF WaitingStores

LEMMA JoinLoads ==
  ASSUME NEW i \in RobIndex, NEW n, NEW r, NEW u, NEW s, StoresJoin(i, n, r, u, s),
         NEW l, LoadLinks(r, l), LoadWaits(r, l, sq)
  PROVE  LoadLinks(u, l) /\ LoadWaits(u, l, s)
<1>1. \A k \in RobIndex : /\ u[k].id = r[k].id /\ u[k].lq_index = r[k].lq_index
                          /\ u[k].mem_depend_on_me = r[k].mem_depend_on_me
  BY DEF StoresJoin, StoresIn
<1>2. LoadLinks(u, l)
  BY <1>1 DEF LoadLinks
<1>3. ASSUME NEW k, NEW a, Unstored(sq, k, a)
      PROVE  Unstored(s, k, a)
  <2>1. ASSUME NEW q \in SqIndex, Used(s, q), s[q].rob_index = k, StoreAddr(s[q]) = a
        PROVE  s[q].fetched # "COMPLETED"
    <3>1. CASE q \in NewSlots(i)
      <4>1. \E m \in StoresToAdd(i) : New(s[q], i, m)
        BY <3>1, QueueKeeps DEF StoresJoin
      <4> QED
        BY <4>1 DEF New
    <3>2. CASE q \notin NewSlots(i)
      <4>1. s[q] = sq[q]
        BY <3>2 DEF StoresJoin, EntriesIn
      <4> QED
        BY <1>3, <2>1, <4>1 DEF Unstored, Used
    <3> QED
      BY <3>1, <3>2
  <2> QED
    BY <2>1 DEF Unstored
<1>4. ASSUME NEW j \in RobIndex, NEW a, NEW id, Follows(r, sq, j, a, id)
      PROVE  Follows(u, s, j, a, id)
  BY <1>1, <1>3, <1>4 DEF Follows
<1>5. LoadWaits(u, l, s)
  BY <1>4 DEF LoadWaits
<1> QED
  BY <1>2, <1>5

LEMMA JoinLists ==
  ASSUME NEW i \in RobIndex, NEW n, NEW r, NEW u, NEW s, StoresJoin(i, n, r, u, s)
  PROVE  /\ Sending(s, SqIndex) = Sending(sq, SqIndex) \cup NewSlots(i)
         /\ Sending(sq, SqIndex) \cap NewSlots(i) = {}
         /\ Reading(s, SqIndex) = Reading(sq, SqIndex)
<1>1. /\ \A q \in SqIndex : Used(sq, q) => q \notin NewSlots(i) /\ s[q] = sq[q]
      /\ \A q \in SqIndex : Used(s, q) <=> Used(sq, q) \/ q \in NewSlots(i)
      /\ \A q \in NewSlots(i) : q \in SqIndex /\ \E k \in StoresToAdd(i) :
           q = StoreSlot(i, k) /\ New(s[q], i, k)
  BY QueueKeeps DEF StoresJoin
<1>2. \A q \in NewSlots(i) : q \in SqIndex /\ ~Used(sq, q) /\ Used(s, q)
  BY <1>1
<1>3. \A q \in NewSlots(i) : s[q].translated = "no"
  BY <1>1 DEF New
<1>4. \A q \in SqIndex : q \in Sending(s, SqIndex) <=> q \in Sending(sq, SqIndex) \/ q \in NewSlots(i)
  BY <1>1, <1>2, <1>3 DEF Sending
<1>5. \A q \in SqIndex : q \in Reading(s, SqIndex) <=> q \in Reading(sq, SqIndex)
  BY <1>1, <1>2, <1>3 DEF Reading
<1>6. /\ Sending(s, SqIndex) \subseteq SqIndex /\ Sending(sq, SqIndex) \subseteq SqIndex
      /\ Reading(s, SqIndex) \subseteq SqIndex /\ Reading(sq, SqIndex) \subseteq SqIndex
  BY DEF Sending, Reading
<1>7. Sending(sq, SqIndex) \cap NewSlots(i) = {}
  BY <1>2 DEF Sending
<1>8. Sending(s, SqIndex) = Sending(sq, SqIndex) \cup NewSlots(i)
  BY <1>2, <1>4, <1>6
<1> QED
  BY <1>5, <1>6, <1>7, <1>8

\* What is left of s when its first c elements have gone.
Drops(a, s, c) ==
  /\ a \in Seq(Nat) /\ Len(a) \in Nat
  /\ \A x \in 1 .. Len(a) : c + x \in 1 .. Len(s) /\ a[x] = s[c + x]

LEMMA Rest ==
  ASSUME NEW s \in Seq(Nat), NEW c \in Nat
  PROVE  Drops(SubSeq(s, c + 1, Len(s)), s, c)
<1>1. PICK m : m = c + 1
  OBVIOUS
<1>2. PICK n : n = Len(s)
  OBVIOUS
<1>3. m \in Int /\ n \in Nat /\ \A x \in m .. n : s[x] \in Nat
  BY <1>1, <1>2
<1>4. PICK b : b = SubSeq(s, m, n)
  OBVIOUS
<1>5. b \in Seq(Nat) /\ Len(b) = IF m <= n THEN n - m + 1 ELSE 0
  BY <1>3, <1>4, SubSeqProperties
<1>6. \A x \in 1 .. n - m + 1 : b[x] = s[m + x - 1]
  BY <1>3, <1>4, SubSeqProperties
<1>7. SubSeq(s, c + 1, Len(s)) = b
  BY <1>1, <1>2, <1>4
<1>8. Len(b) \in Nat
  BY <1>5
<1>9. ASSUME NEW x \in 1 .. Len(b)
      PROVE  c + x \in 1 .. n /\ b[x] = s[c + x]
  <2>1. Len(b) = n - m + 1 /\ m <= n
    BY <1>3, <1>5
  <2>2. c + x \in 1 .. n
    BY <1>1, <1>3, <2>1
  <2>3. m + x - 1 = c + x
    BY <1>1
  <2>4. b[x] = s[m + x - 1]
    BY <1>6, <2>1
  <2> QED
    BY <2>2, <2>3, <2>4
<1>10. Drops(b, s, c)
  BY <1>2, <1>5, <1>8, <1>9 DEF Drops
<1> QED
  BY <1>7, <1>10

\* The queue is longer by the new stores, and the STA shorter.
LEMMA JoinQueue ==
  ASSUME NEW i \in RobIndex, NEW n \in 0 .. SqSize, NEW r, NEW u, NEW s,
         StoresJoin(i, n, r, u, s), Queued(sq, sq_head, sq_tail, n), StaOrder(sq, sta),
         sta \in Seq(Nat), sq_head \in SqIndex, sq_tail \in SqIndex, rob[i].id \in Nat,
         NEW c, c = Cardinality(StoresToAdd(i)),
         NEW t, t = (sq_tail + c) % SqSize, NEW a, a = SubSeq(sta, c + 1, Len(sta))
  PROVE  /\ n + c \in 0 .. SqSize /\ t \in SqIndex /\ a \in Seq(Nat)
         /\ Queued(s, sq_head, t, n + c) /\ StaOrder(s, a)
<1>1. /\ SqSize \in Nat /\ c \in Nat /\ n + c <= SqSize /\ c \in 0 .. SqSize
      /\ n + c \in 0 .. SqSize
  BY CoreSizes DEF StoresJoin, Fits
<1>2. Pos(sq_head, sq_tail) = IF n = SqSize THEN 0 ELSE n
  BY DEF Queued
<1>3. t \in SqIndex /\ Pos(sq_head, t) = IF n + c = SqSize THEN 0 ELSE n + c
  BY <1>1, <1>2, TailSlot
<1>4. /\ \A q \in SqIndex : Used(sq, q) => q \notin NewSlots(i) /\ s[q] = sq[q]
      /\ \A q \in SqIndex : Used(s, q) <=> Used(sq, q) \/ q \in NewSlots(i)
      /\ \A q \in NewSlots(i) : q \in SqIndex /\ \E k \in StoresToAdd(i) :
           q = StoreSlot(i, k) /\ New(s[q], i, k)
  BY QueueKeeps DEF StoresJoin
<1>5. \A q \in SqIndex : Pos(sq_head, q) \in Nat
  BY PosValue
<1>6. \A q \in SqIndex : Used(sq, q) <=> Pos(sq_head, q) < n
  BY DEF Queued
<1>7. \A q \in SqIndex : q \in NewSlots(i) <=>
        n <= Pos(sq_head, q) /\ Pos(sq_head, q) < n + c
  BY DEF StoresJoin, Behind
<1>8. \A q \in SqIndex : Used(s, q) <=> Pos(sq_head, q) < n + c
  <2>1. ASSUME NEW q \in SqIndex
        PROVE  Used(s, q) <=> Pos(sq_head, q) < n + c
    <3>1. Pos(sq_head, q) < n \/ (n <= Pos(sq_head, q) /\ Pos(sq_head, q) < n + c)
            <=> Pos(sq_head, q) < n + c
      BY <1>1, <1>5
    <3> QED
      BY <1>4, <1>6, <1>7, <3>1
  <2> QED
    BY <2>1
<1>9. \A q \in NewSlots(i) : StoreId(s[q]) = rob[i].id
  BY <1>4 DEF New, Entry, StoreId
<1>10. ASSUME NewSlots(i) # {}
       PROVE  sta # <<>> /\ sta[1] = rob[i].id
  <2>1. StoresToAdd(i) # {}
    BY <1>10 DEF NewSlots
  <2>2. sta # <<>> /\ Head(sta) = rob[i].id
    BY <2>1 DEF StoresJoin, Fits
  <2> QED
    BY <2>2
<1>11. Len(sta) \in Nat /\ \A x \in 1 .. Len(sta) : sta[x] \in Nat
  OBVIOUS
<1>12. ASSUME NEW p \in SqIndex, NEW q \in SqIndex, Used(s, p), Used(s, q),
              Pos(sq_head, p) <= Pos(sq_head, q)
       PROVE  StoreId(s[p]) <= StoreId(s[q])
  <2>1. CASE Used(sq, p) /\ Used(sq, q)
    <3>1. StoreId(sq[p]) <= StoreId(sq[q])
      BY <1>12, <2>1 DEF Queued
    <3> QED
      BY <1>4, <2>1, <3>1
  <2>2. CASE Used(sq, p) /\ q \in NewSlots(i)
    <3>1. sta # <<>> /\ sta[1] = rob[i].id /\ 1 \in 1 .. Len(sta)
      BY <1>10, <1>11, <2>2
    <3>2. StoreId(sq[p]) <= sta[1]
      BY <2>2, <3>1 DEF StaOrder
    <3> QED
      BY <1>4, <1>9, <2>2, <3>1, <3>2
  <2>3. CASE p \in NewSlots(i) /\ Used(sq, q)
    <3>1. n <= Pos(sq_head, p) /\ Pos(sq_head, q) < n
      BY <1>6, <1>7, <2>3
    <3> QED
      BY <1>5, <1>12, <3>1
  <2>4. CASE p \in NewSlots(i) /\ q \in NewSlots(i)
    <3>1. StoreId(s[p]) = rob[i].id /\ StoreId(s[q]) = rob[i].id
      BY <1>9, <2>4
    <3> QED
      BY <3>1
  <2> QED
    BY <1>4, <1>12, <2>1, <2>2, <2>3, <2>4
<1>13. Queued(s, sq_head, t, n + c)
  BY <1>3, <1>8, <1>12 DEF Queued
<1>14. /\ a \in Seq(Nat) /\ Len(a) \in Nat
       /\ \A x \in 1 .. Len(a) : c + x \in 1 .. Len(sta) /\ a[x] = sta[c + x]
  <2>1. Drops(SubSeq(sta, c + 1, Len(sta)), sta, c)
    BY <1>1, Rest
  <2>2. Drops(a, sta, c)
    BY <2>1
  <2> QED
    BY <2>2 DEF Drops
<1>15. \A x, y \in 1 .. Len(a) : x <= y => a[x] <= a[y]
  <2>1. ASSUME NEW x \in 1 .. Len(a), NEW y \in 1 .. Len(a), x <= y
        PROVE  a[x] <= a[y]
    <3>1. c + x <= c + y
      BY <1>1, <1>14, <2>1
    <3>2. sta[c + x] <= sta[c + y]
      BY <1>14, <3>1 DEF StaOrder
    <3> QED
      BY <1>14, <3>2
  <2> QED
    BY <2>1
<1>16. \A x \in 1 .. Len(a) : a[x] < instr_unique_id
  BY <1>14 DEF StaOrder
<1>17. ASSUME NEW q \in SqIndex, NEW x \in 1 .. Len(a), Used(s, q)
       PROVE  StoreId(s[q]) <= a[x]
  <2>1. CASE Used(sq, q)
    <3>1. StoreId(sq[q]) <= sta[c + x]
      BY <1>14, <2>1 DEF StaOrder
    <3> QED
      BY <1>4, <1>14, <2>1, <3>1
  <2>2. CASE q \in NewSlots(i)
    <3>0. sta # <<>> /\ sta[1] = rob[i].id
      BY <1>10, <2>2
    <3>3. c + x \in 1 .. Len(sta)
      BY <1>14
    <3>4. 1 \in 1 .. Len(sta) /\ 1 <= c + x
      <4>1. Len(sta) \in Nat
        BY <1>11
      <4> QED
        BY <3>3, <4>1
    <3>1. sta[1] = rob[i].id /\ 1 \in 1 .. Len(sta) /\ 1 <= c + x
      BY <3>0, <3>4
    <3>2. sta[1] <= sta[c + x]
      BY <1>14, <3>1 DEF StaOrder
    <3> QED
      BY <1>9, <1>14, <2>2, <3>1, <3>2
  <2> QED
    BY <1>4, <1>17, <2>1, <2>2
<1>18. StaOrder(s, a)
  BY <1>15, <1>16, <1>17 DEF StaOrder
<1> QED
  BY <1>1, <1>3, <1>13, <1>14, <1>18

\* The next state has the queues l and s, and the ROB u but for what executes.
Becoming(u, l, s) ==
  /\ lq' = l /\ sq' = s
  /\ \A k \in RobIndex : /\ rob'[k].id = u[k].id
                         /\ SameQueues(rob'[k], u[k]) /\ SameOps(rob'[k], u[k])

LEMMA LinksPrimed ==
  ASSUME SameOrder, NEW u, NEW l, NEW s, Becoming(u, l, s)
  PROVE  /\ LoadLinks(u, l) => LoadLinks(rob, lq)'
         /\ StoreLinks(u, s) => StoreLinks(rob, sq)'
<1>1. /\ \A k \in RobIndex : Busy(k)' <=> Busy(k)
      /\ \A k \in RobIndex : Loads(k)' = Loads(k) /\ Stores(k)' = Stores(k)
  BY SameProgram
<1>2. lq' = l /\ sq' = s
  BY DEF Becoming
<1>3. \A k \in RobIndex : rob'[k].lq_index = u[k].lq_index /\ rob'[k].sq_index = u[k].sq_index
  BY DEF Becoming, SameQueues
<1>4. ASSUME LoadLinks(u, l)
      PROVE  LoadLinks(rob, lq)'
  <2>1. ASSUME NEW p \in LqIndex, Used(l, p), NEW i, i = l[p].rob_index
        PROVE  /\ i \in RobIndex /\ Busy(i)'
               /\ l[p].data_index \in 1 .. Loads(i)'
               /\ rob'[i].lq_index[l[p].data_index] = p
               /\ l[p].producer_id # NoProducer => l[p].translated = "INFLIGHT"
               /\ l[p].translated # "COMPLETED" => l[p].fetched = "no"
               /\ l[p].fetched # "COMPLETED"
    <3>1. /\ i \in RobIndex /\ Busy(i) /\ l[p].data_index \in 1 .. Loads(i)
          /\ u[i].lq_index[l[p].data_index] = p
          /\ l[p].producer_id # NoProducer => l[p].translated = "INFLIGHT"
          /\ l[p].translated # "COMPLETED" => l[p].fetched = "no"
          /\ l[p].fetched # "COMPLETED"
      BY <1>4, <2>1 DEF LoadLinks
    <3>2. Busy(i)' /\ Loads(i)' = Loads(i)
      BY <1>1, <3>1
    <3> QED
      BY <1>3, <3>1, <3>2
  <2> QED
    BY <1>2, <2>1 DEF LoadLinks, Used, Busy, Loads, Op
<1>5. ASSUME StoreLinks(u, s)
      PROVE  StoreLinks(rob, sq)'
  <2>1. ASSUME NEW p \in SqIndex, Used(s, p), NEW i, i = s[p].rob_index
        PROVE  /\ i \in RobIndex /\ Busy(i)'
               /\ s[p].data_index \in 1 .. Stores(i)'
               /\ rob'[i].sq_index[s[p].data_index] = p
               /\ s[p].translated # "COMPLETED" => s[p].fetched = "no"
    <3>1. /\ i \in RobIndex /\ Busy(i) /\ s[p].data_index \in 1 .. Stores(i)
          /\ u[i].sq_index[s[p].data_index] = p
          /\ s[p].translated # "COMPLETED" => s[p].fetched = "no"
      BY <1>5, <2>1 DEF StoreLinks
    <3>2. Busy(i)' /\ Stores(i)' = Stores(i)
      BY <1>1, <3>1
    <3> QED
      BY <1>3, <3>1, <3>2
  <2>2. ASSUME NEW i \in RobIndex, NEW k \in 1 .. Stores(i)', rob'[i].sq_index[k] # NoIndex
        PROVE  /\ s[rob'[i].sq_index[k]].rob_index = i
               /\ s[rob'[i].sq_index[k]].data_index = k
    <3>1. k \in 1 .. Stores(i) /\ rob'[i].sq_index = u[i].sq_index
      BY <1>1, <1>3
    <3> QED
      BY <1>5, <2>2, <3>1 DEF StoreLinks
  <2> QED
    BY <1>2, <2>1, <2>2 DEF StoreLinks, Used, Busy, Stores, Op
<1> QED
  BY <1>4, <1>5

LEMMA WaitsPrimed ==
  ASSUME SameOrder, NEW u, NEW l, NEW s, Becoming(u, l, s), LoadLinks(u, l),
         StoreLinks(u, s), LoadWaits(u, l, s)
  PROVE  LoadWaits(rob, lq, sq)'
<1>1. lq' = l /\ sq' = s
  BY DEF Becoming
<1>2. \A k \in RobIndex : /\ rob'[k].id = u[k].id
                          /\ rob'[k].mem_depend_on_me = u[k].mem_depend_on_me
  BY DEF Becoming, SameOps
<1>3. \A i, k \in RobIndex : \A a :
        /\ StoresTo(i, a)' = StoresTo(i, a)
        /\ LastStore(k, i, a)' <=> LastStore(k, i, a)
  BY SameProgram
<1>4. \A k \in RobIndex : Op(k)' = Op(k)
  BY SameProgram
<1>5. \A p \in LqIndex : Used(l, p) => l[p].rob_index \in RobIndex
  BY DEF LoadLinks
<1>6. \A p \in SqIndex : Used(s, p) => s[p].rob_index \in RobIndex
  BY DEF StoreLinks
<1>7. \A p \in SqIndex : Used(s, p) => StoreAddr(sq[p])' = StoreAddr(s[p])
  BY <1>1, <1>4, <1>6 DEF StoreAddr
<1>8. \A p \in LqIndex : Used(l, p) => LoadAddr(lq[p])' = LoadAddr(l[p])
  BY <1>1, <1>4, <1>5 DEF LoadAddr
<1>9. ASSUME NEW p \in LqIndex, NEW i \in RobIndex, NEW a, NEW id,
             Used(l, p), l[p].rob_index = i, LoadAddr(lq[p])' = a,
             l[p].producer_id = id
      PROVE  Follows(rob, sq, i, a, id)'
  <2>1. LoadAddr(l[p]) = a
    BY <1>8, <1>9
  <2>2. Follows(u, s, i, a, id)
    BY <1>9, <2>1 DEF LoadWaits
  <2>3. StoresTo(i, a)' = {} => id = NoProducer
    BY <1>3, <2>2 DEF Follows
  <2>4. ASSUME NEW k \in RobIndex, LastStore(k, i, a)'
        PROVE  id = rob'[k].id /\ i \in rob'[k].mem_depend_on_me /\ Unstored(sq, k, a)'
    <3>1. LastStore(k, i, a)
      BY <1>3, <2>4
    <3>2. id = u[k].id /\ i \in u[k].mem_depend_on_me /\ Unstored(s, k, a)
      BY <2>2, <3>1 DEF Follows
    <3>3. ASSUME NEW g \in SqIndex, Used(s, g), s[g].rob_index = k, StoreAddr(sq[g])' = a
          PROVE  s[g].fetched # "COMPLETED"
      <4>1. StoreAddr(s[g]) = a
        BY <1>7, <3>3
      <4> QED
        BY <3>2, <3>3, <4>1 DEF Unstored
    <3>4. Unstored(sq, k, a)'
      BY <1>1, <3>3 DEF Unstored, Used
    <3> QED
      BY <1>2, <3>2, <3>4
  <2> QED
    BY <2>3, <2>4 DEF Follows
<1> QED
  BY <1>1, <1>9 DEF LoadWaits, Used

LEMMA CountsPrimed ==
  ASSUME SameOrder, NEW u, NEW l, NEW s, Becoming(u, l, s), Indices(u), OpsLeft(u, l, s)
  PROVE  Indices(rob)' /\ OpsLeft(rob, lq, sq)'
<1>1. \A k \in RobIndex : Loads(k)' = Loads(k) /\ Stores(k)' = Stores(k)
  BY SameProgram
<1>2. lq' = l /\ sq' = s
  BY DEF Becoming
<1>3. \A k \in RobIndex : /\ rob'[k].lq_index = u[k].lq_index
                          /\ rob'[k].sq_index = u[k].sq_index
                          /\ rob'[k].num_mem_ops = u[k].num_mem_ops
                          /\ rob'[k].mem_depend_on_me = u[k].mem_depend_on_me
  BY DEF Becoming, SameQueues, SameOps
<1>4. Indices(rob)'
  BY <1>1, <1>3 DEF Indices
<1>5. \A k \in RobIndex : WaitingLoads(rob, lq, k)' = WaitingLoads(u, l, k)
  BY <1>1, <1>2, <1>3 DEF WaitingLoads
<1>6. \A k \in RobIndex : WaitingStores(rob, sq, k)' = WaitingStores(u, s, k)
  BY <1>1, <1>2, <1>3 DEF WaitingStores
<1>7. OpsLeft(rob, lq, sq)'
  BY <1>3, <1>5, <1>6 DEF OpsLeft
<1> QED
  BY <1>4, <1>7

LEMMA OrderPrimed ==
  ASSUME SameOrder, NEW u, NEW l, NEW s, Becoming(u, l, s), StoreLinks(u, s),
         NEW n, NEW t, NEW a, Queued(s, sq_head, t, n), StaOrder(s, a),
         sq_head' = sq_head, sq_tail' = t, sta' = a, instr_unique_id' = instr_unique_id
  PROVE  Queued(sq, sq_head, sq_tail, n)' /\ StaOrder(sq, sta)'
<1>1. sq' = s
  BY DEF Becoming
<1>2. \A k \in RobIndex : rob'[k].id = rob[k].id
  BY DEF SameOrder, SameId
<1>3. \A p \in SqIndex : Used(s, p) => s[p].rob_index \in RobIndex
  BY DEF StoreLinks
<1>4. \A p \in SqIndex : Used(s, p) => StoreId(sq[p])' = StoreId(s[p])
  BY <1>1, <1>2, <1>3 DEF StoreId
<1>5. /\ Pos(sq_head, t) = IF n = SqSize THEN 0 ELSE n
      /\ \A q \in SqIndex : Used(s, q) <=> Pos(sq_head, q) < n
      /\ \A p, q \in SqIndex :
           Used(s, p) /\ Used(s, q) /\ Pos(sq_head, p) <= Pos(sq_head, q)
             => StoreId(s[p]) <= StoreId(s[q])
  BY DEF Queued
<1>6. Queued(sq, sq_head, sq_tail, n)'
  <2>1. /\ Pos(sq_head', sq_tail') = IF n = SqSize THEN 0 ELSE n
        /\ \A q \in SqIndex : Used(s, q) <=> Pos(sq_head', q) < n
        /\ \A p, q \in SqIndex :
             Used(s, p) /\ Used(s, q) /\ Pos(sq_head', p) <= Pos(sq_head', q)
               => StoreId(sq[p])' <= StoreId(sq[q])'
    BY <1>4, <1>5
  <2> QED
    BY <1>1, <2>1 DEF Queued, Used, Pos
<1>7. /\ \A x, y \in 1 .. Len(a) : x <= y => a[x] <= a[y]
      /\ \A x \in 1 .. Len(a) : a[x] < instr_unique_id
      /\ \A q \in SqIndex : \A x \in 1 .. Len(a) : Used(s, q) => StoreId(s[q]) <= a[x]
  BY DEF StaOrder
<1>8. StaOrder(sq, sta)'
  <2>1. \A q \in SqIndex : \A x \in 1 .. Len(a) : Used(s, q) => StoreId(sq[q])' <= a[x]
    BY <1>4, <1>7
  <2> QED
    BY <1>1, <1>7, <2>1 DEF StaOrder, Used
<1> QED
  BY <1>6, <1>8

\* The instruction of index i starts if all its operations are in the queues.
StartsIfAll(i, u) ==
  \/ rob' = u
  \/ /\ rob' = WithStarted(u, i)
     /\ NoIndex \notin Range(u[i].lq_index) \cup Range(u[i].sq_index)

LEMMA StartedFields ==
  ASSUME NEW i \in RobIndex, NEW u, Adds(i, u), StartsIfAll(i, u),
         rob[i].executed = "no", rob[i].scheduled = "INFLIGHT"
  PROVE  \A k \in RobIndex :
           /\ rob'[k].id = u[k].id /\ SameId(rob'[k], rob[k]) /\ SameFetch(rob'[k], rob[k])
           /\ SameQueues(rob'[k], u[k]) /\ SameOps(rob'[k], u[k])
           /\ k # i => SameSched(rob'[k], rob[k]) /\ rob'[k].executed = rob[k].executed
           /\ k = i => \/ rob'[k].executed = "no" /\ rob'[k].scheduled = "INFLIGHT"
                       \/ rob'[k].executed = "INFLIGHT" /\ rob'[k].scheduled = "COMPLETED"
<1>1. CASE rob' = u
  BY <1>1 DEF Adds, SameSched, SameQueues, SameOps, SameId
<1>2. CASE rob' = WithStarted(u, i)
  <2>1. Shaped(u)
    BY DEF Adds
  <2>2. PICK s : s = rob'
    OBVIOUS
  <2>3. /\ \A k \in RobIndex : k # i => s[k] = u[k]
        /\ SameId(s[i], u[i]) /\ SameFetch(s[i], u[i]) /\ SameQueues(s[i], u[i])
        /\ s[i].scheduled = "COMPLETED" /\ s[i].executed = "INFLIGHT"
    BY <1>2, <2>1, <2>2, SetStarted
  <2>4. SameOps(s[i], u[i])
    <3>1. u = [k \in RobIndex |-> u[k]] /\ u[i] = Fields(u[i])
      BY <2>1 DEF Shaped
    <3>2. s[i] = [Fields(u[i]) EXCEPT !.scheduled = "COMPLETED", !.executed = "INFLIGHT"]
      BY <1>2, <2>2, <3>1 DEF WithStarted
    <3> QED
      BY <3>2 DEF Fields, SameOps
  <2>5. ASSUME NEW k \in RobIndex, k # i
        PROVE  /\ s[k].id = u[k].id /\ SameId(s[k], rob[k]) /\ SameFetch(s[k], rob[k])
               /\ SameQueues(s[k], u[k]) /\ SameOps(s[k], u[k])
               /\ SameSched(s[k], rob[k]) /\ s[k].executed = rob[k].executed
    <3>1. s[k] = u[k]
      BY <2>3, <2>5
    <3>2. /\ SameId(u[k], rob[k]) /\ SameFetch(u[k], rob[k]) /\ SameSched(u[k], rob[k])
          /\ u[k].executed = rob[k].executed
      BY DEF Adds
    <3>3. SameQueues(u[k], u[k]) /\ SameOps(u[k], u[k])
      BY DEF SameQueues, SameOps
    <3> QED
      BY <3>1, <3>2, <3>3
  <2>6. s[i].id = u[i].id /\ SameId(s[i], rob[i]) /\ SameFetch(s[i], rob[i])
    BY <2>3 DEF Adds, SameId, SameFetch
  <2> QED
    BY <2>2, <2>3, <2>4, <2>5, <2>6
<1> QED
  BY <1>1, <1>2 DEF StartsIfAll

\* What schedule_memory_instruction makes of the ROB, the queues and the lists.
OpsOf(i, r, u) ==
  \A k \in RobIndex : /\ r[k].executed = rob[k].executed
                      /\ u[k].num_mem_ops = r[k].num_mem_ops
                      /\ k # i => r[k].num_mem_ops = rob[k].num_mem_ops
EnqueuesOps(i, r, u, l, s, m) ==
  /\ Adds(i, u) /\ StartsIfAll(i, u) /\ Becoming(u, l, s) /\ OpsOf(i, r, u)
  /\ Indices(u) /\ OpsLeft(u, l, s)
  /\ m \in Int /\ m = Cardinality(Finishes(r)) /\ inflight' = [inflight EXCEPT !.mem = m]
EnqueuesLoads(u, l, s, c) ==
  /\ LoadLinks(u, l) /\ LoadWaits(u, l, s)
  /\ l \in [LqIndex -> LsqType(LqIndex)] /\ c \in Seq(LqIndex)
  /\ Enumerates(c, Sending(l, LqIndex)) /\ Enumerates(rtl[2], Reading(l, LqIndex))
  /\ rtl' = [rtl EXCEPT ![1] = c]
EnqueuesStores(n, u, s, t, a, d) ==
  /\ StoreLinks(u, s) /\ s \in [SqIndex -> LsqType(SqIndex)]
  /\ d \in Seq(SqIndex) /\ Enumerates(d, Sending(s, SqIndex))
  /\ Enumerates(rts[2], Reading(s, SqIndex))
  /\ n \in 0 .. SqSize /\ t \in SqIndex /\ a \in Seq(Nat)
  /\ Queued(s, sq_head, t, n) /\ StaOrder(s, a)
  /\ rts' = [rts EXCEPT ![1] = d] /\ sq_tail' = t /\ sta' = a
Enqueues(i, n, r, u, l, s, c, m, t, a, d) ==
  /\ EnqueuesOps(i, r, u, l, s, m) /\ EnqueuesLoads(u, l, s, c)
  /\ EnqueuesStores(n, u, s, t, a, d)

LEMMA ScheduledIs ==
  ASSUME NEW i \in RobIndex, ScheduleMemory(i),
         NEW L, L = AddLoads(i), NEW S, S = AddStores(L.rob, i)
  PROVE  /\ StartsIfAll(i, S.rob) /\ lq' = L.lq /\ sq' = S.sq
         /\ rtl' = [rtl EXCEPT ![1] = L.rtl0] /\ rts' = [rts EXCEPT ![1] = S.rts0]
         /\ inflight' = [inflight EXCEPT !.mem = L.mem]
         /\ sq_tail' = S.sq_tail /\ sta' = S.sta
BY DEF ScheduleMemory, StartsIfAll, WithStarted

LEMMA StoresAre ==
  ASSUME NEW i, NEW r, NEW S, S = AddStores(r, i), NEW N, N = StoresToAdd(i)
  PROVE  /\ S.sq_tail = (sq_tail + Cardinality(N)) % SqSize
         /\ S.sta = SubSeq(sta, Cardinality(N) + 1, Len(sta))
         /\ S.rts0 = rts[1] \o [m \in 1 .. Cardinality(N) |-> (sq_tail + m - 1) % SqSize]
BY DEF AddStores

LEMMA Scheduling ==
  ASSUME CInv, MInv, NEW i \in RobIndex, ScheduleMemory(i)
  PROVE  /\ IsMemory(i) /\ Busy(i)
         /\ rob[i].executed = "no" /\ rob[i].scheduled = "INFLIGHT"
         /\ UNCHANGED <<program, instr_unique_id, head, next_schedule, rte, sq_head,
                        memory, seen>>
<1>1. IsMemory(i) /\ rob[i].scheduled = "INFLIGHT"
  BY DEF ScheduleMemory, Scanned
<1>2. Busy(i) /\ rob[i].executed = "no"
  BY <1>1 DEF IsMemory, CInv, Stages
<1>3. UNCHANGED <<program, instr_unique_id, head, next_schedule, rte, sq_head, memory, seen>>
  BY DEF ScheduleMemory, front, history
<1> QED
  BY <1>1, <1>2, <1>3

LEMMA ScheduledEnqueues ==
  ASSUME CInv, MInv, NEW i \in RobIndex, ScheduleMemory(i)
  PROVE  \E n, r, u, l, s, c, m, t, a, d : Enqueues(i, n, r, u, l, s, c, m, t, a, d)
<1>1. IsMemory(i) /\ Busy(i) /\ rob[i].executed = "no"
  BY Scheduling
<1>2. PICK L : L = AddLoads(i)
  OBVIOUS
<1>3. PICK r : r = L.rob
  OBVIOUS
<1>4. PICK S : S = AddStores(r, i)
  OBVIOUS
<1>5. PICK u : u = S.rob
  OBVIOUS
<1>6. PICK s : s = S.sq
  OBVIOUS
<1>7. PICK l : l = L.lq
  OBVIOUS
<1>8. PICK c : c = L.rtl0
  OBVIOUS
<1>9. PICK m : m = L.mem
  OBVIOUS
<1>10. PICK t : t = S.sq_tail
  OBVIOUS
<1>11. PICK a : a = S.sta
  OBVIOUS
<1>12. PICK d : d = S.rts0
  OBVIOUS
<1>13. /\ StartsIfAll(i, u) /\ lq' = l /\ sq' = s
       /\ rtl' = [rtl EXCEPT ![1] = c] /\ rts' = [rts EXCEPT ![1] = d]
       /\ inflight' = [inflight EXCEPT !.mem = m]
       /\ sq_tail' = t /\ sta' = a
  BY <1>2, <1>3, <1>4, <1>5, <1>6, <1>7, <1>8, <1>9, <1>10, <1>11, <1>12, ScheduledIs
<1>14. /\ Indices(rob) /\ StoreLinks(rob, sq) /\ StaOrder(sq, sta)
       /\ Enumerates(rts[1], Sending(sq, SqIndex)) /\ Enumerates(rts[2], Reading(sq, SqIndex))
       /\ Enumerates(rtl[2], Reading(lq, LqIndex))
       /\ rts[1] \in Seq(SqIndex) /\ sta \in Seq(Nat)
       /\ sq_head \in SqIndex /\ sq_tail \in SqIndex
  BY DEF MInv, MemTypes, StoreSide, LoadSide
<1>15. PICK n \in 0 .. SqSize : Queued(sq, sq_head, sq_tail, n)
  BY DEF MInv, StoreSide
<1>16. Loading(i, Loads(i), L)
  BY <1>1, <1>2, AddLoadsMem
<1>17. /\ Adds(i, r) /\ Indices(r) /\ Kept(r, rob)
       /\ LoadLinks(r, l) /\ LoadWaits(r, l, sq) /\ OpsLeft(r, l, sq)
  BY <1>3, <1>7, <1>16 DEF Loading, Good
<1>18. /\ \A k \in RobIndex : k # i => r[k].num_mem_ops = rob[k].num_mem_ops
       /\ l \in [LqIndex -> LsqType(LqIndex)] /\ c \in Seq(LqIndex)
       /\ Enumerates(c, Sending(l, LqIndex))
       /\ Reading(l, LqIndex) = Reading(lq, LqIndex)
       /\ m \in Int /\ m = Cardinality(Finishes(r))
  BY <1>3, <1>7, <1>8, <1>9, <1>16 DEF Loading
<1>19. PICK N : N = StoresToAdd(i)
  OBVIOUS
<1>20. Fits(i, N, n) /\ Behind(i, N, n)
  <2>1. Fits(i, StoresToAdd(i), n)
    BY <1>1, <1>15, StoresFit
  <2>2. Behind(i, StoresToAdd(i), n)
    BY <1>15, <2>1, StoreSlots
  <2> QED
    BY <1>19, <2>1, <2>2
<1>21. StoresIn(i, r, u)
  <2>1. \A k \in StoresToAdd(i) : StoreSlot(i, k) \in SqIndex
    BY <1>19, <1>20 DEF Behind
  <2> QED
    BY <1>4, <1>5, <1>17, <2>1, StoresInRob
<1>22. EntriesIn(i, s)
  <2>1. Fits(i, StoresToAdd(i), n) /\ Behind(i, StoresToAdd(i), n)
    BY <1>19, <1>20
  <2>2. s = AddStores(r, i).sq
    BY <1>4, <1>6
  <2> QED
    BY <2>1, <2>2, StoresInQueue
<1>23. StoresJoin(i, n, r, u, s)
  BY <1>17, <1>19, <1>20, <1>21, <1>22 DEF StoresJoin
<1>24. Adds(i, u)
  <2>1. Adds(i, AddStores(r, i).rob)
    BY <1>17, AddStoresGood
  <2> QED
    BY <1>4, <1>5, <2>1
<1>25. StoreLinks(u, s)
  BY <1>1, <1>14, <1>23, JoinLinks
<1>26. LoadLinks(u, l) /\ LoadWaits(u, l, s)
  BY <1>17, <1>23, JoinLoads
<1>27. \A k \in RobIndex : /\ u[k].num_mem_ops = r[k].num_mem_ops
                           /\ u[k].lq_index = r[k].lq_index
                           /\ u[k].mem_depend_on_me = r[k].mem_depend_on_me
                           /\ k # i => u[k].sq_index = r[k].sq_index
  BY <1>21 DEF StoresIn, SameCounts
<1>28. Indices(u)
  <2>1. u[i].sq_index \in [1 .. Stores(i) -> SqIndex \cup {NoIndex}]
    BY <1>21 DEF StoresIn
  <2> QED
    BY <1>17, <1>27, <2>1 DEF Indices
<1>29. OpsLeft(u, l, s)
  <2>1. ASSUME NEW k \in RobIndex
        PROVE  /\ WaitingLoads(u, l, k) = WaitingLoads(r, l, k)
               /\ WaitingStores(u, s, k) = WaitingStores(r, sq, k)
    <3>1. WaitingLoads(u, l, k) = WaitingLoads(r, l, k)
      BY <1>27 DEF WaitingLoads
    <3>2. WaitingStores(u, s, k) = WaitingStores(rob, sq, k)
      BY <1>14, <1>23, JoinWaiting
    <3>3. r[k].sq_index = rob[k].sq_index
      BY <1>17 DEF Kept
    <3>4. WaitingStores(r, sq, k) = WaitingStores(rob, sq, k)
      BY <3>3 DEF WaitingStores
    <3> QED
      BY <3>1, <3>2, <3>4
  <2> QED
    BY <1>17, <1>27, <2>1 DEF OpsLeft
<1>30. /\ Sending(s, SqIndex) = Sending(sq, SqIndex) \cup NewSlots(i)
       /\ Sending(sq, SqIndex) \cap NewSlots(i) = {}
       /\ Reading(s, SqIndex) = Reading(sq, SqIndex)
  BY <1>23, JoinLists
<1>31. PICK e : e = [x \in 1 .. Cardinality(N) |-> (sq_tail + x - 1) % SqSize]
  OBVIOUS
<1>32. /\ t = (sq_tail + Cardinality(N)) % SqSize
       /\ a = SubSeq(sta, Cardinality(N) + 1, Len(sta))
       /\ d = rts[1] \o e
  BY <1>4, <1>10, <1>11, <1>12, <1>19, <1>31, StoresAre
<1>33. d \in Seq(SqIndex) /\ Enumerates(d, Sending(s, SqIndex))
  <2>1. e \in Seq(SqIndex) /\ Enumerates(e, NewSlots(i))
    BY <1>19, <1>20, <1>31, TakenList
  <2>2. /\ rts[1] \o e \in Seq(SqIndex)
        /\ Enumerates(rts[1] \o e, Sending(sq, SqIndex) \cup NewSlots(i))
    BY <1>14, <1>30, <2>1, EnumConcat
  <2> QED
    BY <1>30, <1>32, <2>2
<1>34. PICK b : b = Cardinality(StoresToAdd(i))
  OBVIOUS
<1>35. /\ n + b \in 0 .. SqSize /\ t \in SqIndex /\ a \in Seq(Nat)
       /\ Queued(s, sq_head, t, n + b) /\ StaOrder(s, a)
  <2>1. rob[i].id \in Nat
    BY IdBounds
  <2>2. t = (sq_tail + b) % SqSize /\ a = SubSeq(sta, b + 1, Len(sta))
    BY <1>19, <1>32, <1>34
  <2> QED
    BY <1>14, <1>15, <1>23, <1>34, <2>1, <2>2, JoinQueue
<1>36. Becoming(u, l, s)
  <2>1. /\ rob[i].scheduled = "INFLIGHT"
    BY Scheduling
  <2>2. \A k \in RobIndex : /\ rob'[k].id = u[k].id
                            /\ SameQueues(rob'[k], u[k]) /\ SameOps(rob'[k], u[k])
    BY <1>1, <1>13, <1>24, <2>1, StartedFields
  <2> QED
    BY <1>13, <2>2 DEF Becoming
<1>37. \A k \in RobIndex : r[k].executed = rob[k].executed
  BY <1>17 DEF Kept
<1>38. Enumerates(rtl[2], Reading(l, LqIndex)) /\ Enumerates(rts[2], Reading(s, SqIndex))
  BY <1>14, <1>18, <1>30
<1>39. EnqueuesOps(i, r, u, l, s, m)
  BY <1>13, <1>18, <1>24, <1>27, <1>28, <1>29, <1>36, <1>37 DEF EnqueuesOps, OpsOf
<1>40. EnqueuesLoads(u, l, s, c)
  BY <1>13, <1>18, <1>26, <1>38 DEF EnqueuesLoads
<1>41. EnqueuesStores(n + b, u, s, t, a, d)
  <2>1. s \in [SqIndex -> LsqType(SqIndex)]
    BY <1>22 DEF EntriesIn
  <2> QED
    BY <1>13, <1>25, <1>33, <1>35, <1>38, <2>1 DEF EnqueuesStores
<1>42. Enqueues(i, n + b, r, u, l, s, c, m, t, a, d)
  BY <1>39, <1>40, <1>41 DEF Enqueues
<1> QED
  BY <1>42

LEMMA MemIs ==
  ASSUME NEW f \in [reg : Int, mem : Int], NEW m \in Int, NEW g, g = [f EXCEPT !.mem = m]
  PROVE  g \in [reg : Int, mem : Int] /\ g.reg = f.reg /\ g.mem = m
OBVIOUS

LEMMA EnqueuedCounts ==
  ASSUME CInv, MInv, NEW i \in RobIndex, IsMemory(i), rob[i].executed = "no", SameOrder,
         NEW r, NEW u, NEW l, NEW s, NEW m, EnqueuesOps(i, r, u, l, s, m),
         \A k \in RobIndex :
           /\ SameQueues(rob'[k], u[k]) /\ SameOps(rob'[k], u[k])
           /\ k # i => rob'[k].executed = rob[k].executed
           /\ k = i => rob'[k].executed = "no" \/ rob'[k].executed = "INFLIGHT"
  PROVE  Counting' /\ Indices(rob)' /\ inflight' \in [reg : Int, mem : Int]
<1>1. /\ Indices(rob)' /\ OpsLeft(rob, lq, sq)'
  BY CountsPrimed DEF EnqueuesOps
<1>2. \A k \in RobIndex : Busy(k)' <=> Busy(k)
  BY SameProgram
<1>3. \A k \in RobIndex : IsMemory(k)' <=> IsMemory(k)
  BY SameProgram
<1>4. \A k \in RobIndex : Loads(k)' = Loads(k) /\ Stores(k)' = Stores(k)
  BY SameProgram
<1>5. /\ \A k \in RobIndex : rob'[k].num_mem_ops = r[k].num_mem_ops
      /\ \A k \in RobIndex : k # i => rob'[k].num_mem_ops = rob[k].num_mem_ops
      /\ \A k \in RobIndex : r[k].executed = rob[k].executed
  <2>1. \A k \in RobIndex : rob'[k].num_mem_ops = u[k].num_mem_ops
    BY DEF SameOps
  <2>2. OpsOf(i, r, u)
    BY DEF EnqueuesOps
  <2>3. ASSUME NEW k \in RobIndex
        PROVE  /\ rob'[k].num_mem_ops = r[k].num_mem_ops
               /\ k # i => rob'[k].num_mem_ops = rob[k].num_mem_ops
               /\ r[k].executed = rob[k].executed
    BY <2>1, <2>2 DEF OpsOf
  <2> QED
    BY <2>3
<1>6. /\ inflight' \in [reg : Int, mem : Int] /\ inflight'.reg = inflight.reg
      /\ inflight'.mem = Cardinality(Finishes(r))
  <2>1. /\ inflight \in [reg : Int, mem : Int] /\ m \in Int
        /\ inflight' = [inflight EXCEPT !.mem = m]
    BY DEF MInv, MemTypes, EnqueuesOps
  <2>2. m = Cardinality(Finishes(r))
    BY DEF EnqueuesOps
  <2>3. inflight' \in [reg : Int, mem : Int] /\ inflight'.reg = inflight.reg /\ inflight'.mem = m
    BY <2>1, MemIs
  <2> QED
    BY <2>2, <2>3
<1>7. Running' = Running
  <2>1. \A k \in RobIndex : ~IsMemory(k) => k # i
    OBVIOUS
  <2> QED
    BY <1>2, <1>3, <2>1 DEF Running
<1>8. Finishes(rob)' = Finishes(r)
  <2>1. \A k \in RobIndex : rob'[k].executed # "COMPLETED" <=> r[k].executed # "COMPLETED"
    BY <1>5
  <2>2. \A k \in RobIndex : IsMemory(k)' /\ rob'[k].num_mem_ops = 0 /\ rob'[k].executed # "COMPLETED"
                        <=> IsMemory(k) /\ r[k].num_mem_ops = 0 /\ r[k].executed # "COMPLETED"
    BY <1>3, <1>5, <2>1
  <2> QED
    BY <2>2 DEF Finishes
<1>9. Executes(rob)'
  <2>1. Executes(rob) /\ Adds(i, u) /\ StartsIfAll(i, u) /\ Indices(u)
    BY DEF MInv, Counting, EnqueuesOps
  <2>2. ASSUME NEW k \in RobIndex, IsMemory(k), rob'[k].executed # "no"
        PROVE  /\ \A j \in 1 .. Loads(k) : rob'[k].lq_index[j] # NoIndex
               /\ \A j \in 1 .. Stores(k) : rob'[k].sq_index[j] # NoIndex
    <3>1. CASE k # i
      <4>1. rob[k].executed # "no"
        BY <2>2, <3>1
      <4>2. SameQueues(u[k], rob[k]) /\ SameQueues(rob'[k], u[k])
        BY <2>1, <3>1 DEF Adds
      <4>3. rob'[k].lq_index = rob[k].lq_index /\ rob'[k].sq_index = rob[k].sq_index
        BY <4>2 DEF SameQueues
      <4> QED
        BY <2>1, <2>2, <4>1, <4>3 DEF Executes
    <3>2. CASE k = i
      <4>1. u[i].executed = "no"
        BY <2>1 DEF Adds
      <4>2. rob' # u
        BY <2>2, <3>2, <4>1
      <4>3. NoIndex \notin Range(u[i].lq_index) \cup Range(u[i].sq_index)
        BY <2>1, <4>2 DEF StartsIfAll
      <4>4. /\ u[i].lq_index \in [1 .. Loads(i) -> LqIndex \cup {NoIndex}]
            /\ u[i].sq_index \in [1 .. Stores(i) -> SqIndex \cup {NoIndex}]
        BY <2>1 DEF Indices
      <4>5. /\ \A j \in 1 .. Loads(i) : u[i].lq_index[j] # NoIndex
            /\ \A j \in 1 .. Stores(i) : u[i].sq_index[j] # NoIndex
        BY <4>3, <4>4 DEF Range
      <4>6. rob'[i].lq_index = u[i].lq_index /\ rob'[i].sq_index = u[i].sq_index
        BY DEF SameQueues
      <4> QED
        BY <3>2, <4>5, <4>6
    <3> QED
      BY <3>1, <3>2
  <2>3. ASSUME NEW k \in RobIndex, IsMemory(k), rob'[k].executed = "COMPLETED"
        PROVE  rob'[k].num_mem_ops = 0
    <3>1. k # i /\ rob[k].executed = "COMPLETED"
      BY <2>3
    <3> QED
      BY <1>5, <2>1, <2>3, <3>1 DEF Executes
  <2>4. \A k \in RobIndex : IsMemory(k)' =>
          /\ rob'[k].executed # "no" =>
               /\ \A j \in 1 .. Loads(k)' : rob'[k].lq_index[j] # NoIndex
               /\ \A j \in 1 .. Stores(k)' : rob'[k].sq_index[j] # NoIndex
          /\ rob'[k].executed = "COMPLETED" => rob'[k].num_mem_ops = 0
    BY <1>3, <1>4, <2>2, <2>3
  <2> QED
    BY <2>4 DEF Executes
<1>10. inflight.reg = Cardinality(Running)
  BY DEF MInv, Counting
<1>11. inflight'.reg = Cardinality(Running')
  BY <1>6, <1>7, <1>10
<1>12. inflight'.mem = Cardinality(Finishes(rob)')
  BY <1>6, <1>8
<1>13. Counting'
  BY <1>1, <1>9, <1>11, <1>12 DEF Counting
<1> QED
  BY <1>1, <1>6, <1>13

LEMMA ScheduleMemoryMem ==
  ASSUME CInv, MInv, NEW i \in RobIndex, ScheduleMemory(i)
  PROVE  MInv'
<1>1. /\ IsMemory(i) /\ Busy(i)
      /\ rob[i].executed = "no" /\ rob[i].scheduled = "INFLIGHT"
  BY Scheduling
<1>2. UNCHANGED <<program, instr_unique_id, head, next_schedule, rte, sq_head, memory, seen>>
  BY Scheduling
<1>3. PICK n, r, u, l, s, c, m, t, a, d : Enqueues(i, n, r, u, l, s, c, m, t, a, d)
  BY ScheduledEnqueues
<1>4. /\ EnqueuesOps(i, r, u, l, s, m) /\ EnqueuesLoads(u, l, s, c)
      /\ EnqueuesStores(n, u, s, t, a, d)
  BY <1>3 DEF Enqueues
<1>5. Adds(i, u) /\ StartsIfAll(i, u) /\ Becoming(u, l, s) /\ lq' = l /\ sq' = s
  BY <1>4 DEF EnqueuesOps, Becoming
<1>6. \A k \in RobIndex :
        /\ SameId(rob'[k], rob[k]) /\ SameFetch(rob'[k], rob[k])
        /\ SameQueues(rob'[k], u[k]) /\ SameOps(rob'[k], u[k])
        /\ k # i => SameSched(rob'[k], rob[k]) /\ rob'[k].executed = rob[k].executed
        /\ k = i => \/ rob'[k].executed = "no" /\ rob'[k].scheduled = "INFLIGHT"
                    \/ rob'[k].executed = "INFLIGHT" /\ rob'[k].scheduled = "COMPLETED"
  BY <1>1, <1>5, StartedFields
<1>7. SameOrder
  BY <1>2, <1>6 DEF SameOrder
<1>8. Counting' /\ Indices(rob)' /\ inflight' \in [reg : Int, mem : Int]
  <2>1. \A k \in RobIndex :
          /\ SameQueues(rob'[k], u[k]) /\ SameOps(rob'[k], u[k])
          /\ k # i => rob'[k].executed = rob[k].executed
          /\ k = i => rob'[k].executed = "no" \/ rob'[k].executed = "INFLIGHT"
    BY <1>6
  <2> QED
    BY <1>1, <1>4, <1>7, <2>1, EnqueuedCounts
<1>9. /\ LoadLinks(u, l) /\ LoadWaits(u, l, s) /\ StoreLinks(u, s)
  BY <1>4 DEF EnqueuesLoads, EnqueuesStores
<1>10. LoadLinks(rob, lq)' /\ StoreLinks(rob, sq)'
  BY <1>5, <1>7, <1>9, LinksPrimed
<1>11. LoadWaits(rob, lq, sq)'
  BY <1>5, <1>7, <1>9, WaitsPrimed
<1>12. /\ rtl' = <<rtl'[1], rtl'[2]>> /\ rtl'[1] = c /\ rtl'[2] = rtl[2]
  <2>1. rtl = <<rtl[1], rtl[2]>> /\ rtl' = [rtl EXCEPT ![1] = c]
    BY <1>4 DEF MInv, MemTypes, EnqueuesLoads
  <2> QED
    BY <2>1, PairUpdate
<1>13. /\ rts' = <<rts'[1], rts'[2]>> /\ rts'[1] = d /\ rts'[2] = rts[2]
  <2>1. rts = <<rts[1], rts[2]>> /\ rts' = [rts EXCEPT ![1] = d]
    BY <1>4 DEF MInv, MemTypes, EnqueuesStores
  <2> QED
    BY <2>1, PairUpdate
<1>14. /\ l \in [LqIndex -> LsqType(LqIndex)] /\ c \in Seq(LqIndex)
       /\ Enumerates(c, Sending(l, LqIndex)) /\ Enumerates(rtl[2], Reading(l, LqIndex))
  BY <1>4 DEF EnqueuesLoads
<1>15. /\ s \in [SqIndex -> LsqType(SqIndex)] /\ d \in Seq(SqIndex)
       /\ Enumerates(d, Sending(s, SqIndex)) /\ Enumerates(rts[2], Reading(s, SqIndex))
       /\ n \in 0 .. SqSize /\ t \in SqIndex /\ a \in Seq(Nat)
       /\ Queued(s, sq_head, t, n) /\ StaOrder(s, a) /\ sq_tail' = t /\ sta' = a
  BY <1>4 DEF EnqueuesStores
<1>16. MemTypes'
  <2>1. /\ next_schedule \in RobIndex /\ sq_head \in SqIndex
        /\ rtl[2] \in Seq(LqIndex) /\ rts[2] \in Seq(SqIndex)
        /\ memory \in [Addr -> Nat]
    BY DEF MInv, MemTypes
  <2>2. rtl'[1] \in Seq(LqIndex) /\ rtl'[2] \in Seq(LqIndex) /\ rtl' = <<rtl'[1], rtl'[2]>>
    BY <1>12, <1>14, <2>1
  <2>3. rts'[1] \in Seq(SqIndex) /\ rts'[2] \in Seq(SqIndex) /\ rts' = <<rts'[1], rts'[2]>>
    BY <1>13, <1>15, <2>1
  <2>4. /\ next_schedule' \in RobIndex /\ sq_head' \in SqIndex /\ memory' \in [Addr -> Nat]
    BY <1>2, <2>1
  <2>5. /\ lq' \in [LqIndex -> LsqType(LqIndex)] /\ sq' \in [SqIndex -> LsqType(SqIndex)]
        /\ sq_tail' \in SqIndex /\ sta' \in Seq(Nat)
    BY <1>5, <1>14, <1>15
  <2> QED
    BY <1>8, <2>2, <2>3, <2>4, <2>5 DEF MemTypes
<1>17. StageTypes'
  <2>1. {"no", "INFLIGHT", "COMPLETED"} = Stage
    BY DEF Stage
  <2>2. \A k \in RobIndex :
          /\ rob[k].translated \in Stage /\ rob[k].fetched \in Stage
          /\ rob[k].scheduled \in Stage /\ rob[k].executed \in Stage
    BY DEF MInv, StageTypes
  <2>3. \A k \in RobIndex :
          /\ rob'[k].translated \in Stage /\ rob'[k].fetched \in Stage
          /\ rob'[k].scheduled \in Stage /\ rob'[k].executed \in Stage
    BY <1>6, <2>1, <2>2 DEF SameFetch, SameSched
  <2> QED
    BY <2>3 DEF StageTypes
<1>18. ReadyListed'
  <2>1. ASSUME NEW k \in RobIndex, Busy(k)', ~IsMemory(k)', rob'[k].reg_ready,
               rob'[k].scheduled = "COMPLETED", rob'[k].executed = "no"
        PROVE  \E x \in 1 .. 2 : \E y \in 1 .. Len(rte[x]) : rte[x][y] = k
    <3>1. Busy(k)' <=> Busy(k)
      BY <1>7, SameProgram
    <3>2. IsMemory(k)' <=> IsMemory(k)
      BY <1>7, SameProgram
    <3>3. k # i
      BY <1>1, <2>1, <3>2
    <3>4. rob[k].reg_ready /\ rob[k].scheduled = "COMPLETED" /\ rob[k].executed = "no"
      BY <1>6, <2>1, <3>3 DEF SameSched
    <3>5. Busy(k) /\ ~IsMemory(k)
      BY <2>1, <3>1, <3>2
    <3> QED
      BY <3>4, <3>5 DEF MInv, ReadyListed
  <2>2. rte' = rte
    BY <1>2
  <2> QED
    BY <2>1, <2>2 DEF ReadyListed
<1>19. /\ Enumerates(rtl[1], Sending(lq, LqIndex))'
       /\ Enumerates(rtl[2], Reading(lq, LqIndex))'
  <2>1. Sending(lq, LqIndex)' = Sending(l, LqIndex) /\ Reading(lq, LqIndex)' = Reading(l, LqIndex)
    BY <1>5 DEF Sending, Reading, Used
  <2> QED
    BY <1>12, <1>14, <2>1 DEF Enumerates
<1>20. /\ Enumerates(rts[1], Sending(sq, SqIndex))'
       /\ Enumerates(rts[2], Reading(sq, SqIndex))'
  <2>1. Sending(sq, SqIndex)' = Sending(s, SqIndex) /\ Reading(sq, SqIndex)' = Reading(s, SqIndex)
    BY <1>5 DEF Sending, Reading, Used
  <2> QED
    BY <1>13, <1>15, <2>1 DEF Enumerates
<1>21. Queued(sq, sq_head, sq_tail, n)' /\ StaOrder(sq, sta)'
  BY <1>2, <1>5, <1>7, <1>9, <1>15, OrderPrimed
<1>22. LoadSide'
  BY <1>10, <1>11, <1>19 DEF LoadSide
<1>23. StoreSide'
  <2>1. \E x \in 0 .. SqSize : Queued(sq, sq_head, sq_tail, x)'
    BY <1>15, <1>21
  <2> QED
    BY <1>10, <1>20, <1>21, <2>1 DEF StoreSide
<1>24. History'
  BY <1>2, <1>7, HistoryFrame DEF MInv
<1> QED
  BY <1>8, <1>16, <1>17, <1>18, <1>22, <1>23, <1>24 DEF MInv

-----------------------------------------------------------------------------
(* The invariant of the queues.                                            *)


(* The empty tuple is the function on no index. *)
LEMMA EmptyOn ==
  \A T : <<>> \in [1 .. 0 -> T]
<1>1. ASSUME NEW T PROVE <<>> \in [1 .. 0 -> T]
  <2>1. <<>> \in Seq(T) /\ Len(<<>>) = 0
    BY EmptySeq
  <2>2. <<>> \in [1 .. Len(<<>>) -> T]
    BY <2>1, LenProperties, ElementOfSeq
  <2> QED
    BY <2>1, <2>2
<1> QED
  BY <1>1

LEMMA MInvInit ==
  ASSUME Init
  PROVE  MInv
<1>1. /\ program \in Programs /\ instr_unique_id = 1
      /\ rob = [i \in RobIndex |-> EmptyInstr] /\ head = 0 /\ next_schedule = 0
      /\ rte = <<<<>>, <<>>>>
      /\ lq = [q \in LqIndex |-> EmptyLsq] /\ sq = [q \in SqIndex |-> EmptyLsq]
      /\ sq_head = 0 /\ sq_tail = 0 /\ sta = <<>>
      /\ rtl = <<<<>>, <<>>>> /\ rts = <<<<>>, <<>>>>
      /\ inflight = [reg |-> 0, mem |-> 0]
      /\ memory = [a \in Addr |-> 0] /\ seen = <<>>
  BY DEF Init
<1>2. /\ RobSize \in Nat /\ 0 \in RobIndex /\ SqSize \in Nat /\ SqSize >= 1 /\ 0 \in SqIndex
  BY CoreSizes DEF RobIndex, SqIndex
<1>3. /\ EmptyInstr.id = 0 /\ EmptyInstr.translated = "no"
      /\ EmptyInstr.fetched = "no" /\ EmptyInstr.scheduled = "no"
      /\ EmptyInstr.executed = "no" /\ EmptyInstr.reg_ready = FALSE
      /\ EmptyInstr.num_mem_ops = 0 /\ EmptyInstr.mem_depend_on_me = {}
      /\ EmptyInstr.lq_index = <<>> /\ EmptyInstr.sq_index = <<>>
  BY DEF EmptyInstr
<1>4. \A k \in RobIndex : rob[k] = EmptyInstr
  BY <1>1
<1>5. \A k \in RobIndex : ~Busy(k) /\ Loads(k) = 0 /\ Stores(k) = 0 /\ ~IsMemory(k)
  BY <1>3, <1>4 DEF Busy, Loads, Stores, IsMemory
<1>6. /\ \A q \in LqIndex : lq[q] = EmptyLsq /\ ~Used(lq, q)
      /\ \A q \in SqIndex : sq[q] = EmptyLsq /\ ~Used(sq, q)
  BY <1>1 DEF Used
<1>7. MemTypes
  <2>1. EmptyLsq \in LsqType(LqIndex) /\ EmptyLsq \in LsqType(SqIndex)
    BY DEF EmptyLsq, LsqType, NoProducer, Stage
  <2>2. lq \in [LqIndex -> LsqType(LqIndex)] /\ sq \in [SqIndex -> LsqType(SqIndex)]
    BY <1>1, <2>1
  <2>3. /\ rtl = <<rtl[1], rtl[2]>> /\ rtl[1] = <<>> /\ rtl[2] = <<>>
        /\ rts = <<rts[1], rts[2]>> /\ rts[1] = <<>> /\ rts[2] = <<>>
    BY <1>1
  <2>4. <<>> \in Seq(LqIndex) /\ <<>> \in Seq(SqIndex) /\ <<>> \in Seq(Nat)
    BY EmptySeq
  <2>5. inflight \in [reg : Int, mem : Int] /\ memory \in [Addr -> Nat]
    BY <1>1
  <2>6. Indices(rob)
    <3>1. /\ \A T : <<>> \in [1 .. 0 -> T]
          /\ 0 \in Int
      BY EmptyOn
    <3> QED
      BY <1>3, <1>4, <1>5, <3>1 DEF Indices
  <2> QED
    BY <1>1, <1>2, <2>2, <2>3, <2>4, <2>5, <2>6 DEF MemTypes
<1>8. StageTypes
  BY <1>3, <1>4 DEF StageTypes, Stage
<1>9. ReadyListed
  BY <1>5 DEF ReadyListed
<1>10. \A T : Enumerates(<<>>, {})
  BY DEF Enumerates
<1>11. LoadSide
  <2>1. LoadLinks(rob, lq) /\ LoadWaits(rob, lq, sq)
    BY <1>6 DEF LoadLinks, LoadWaits
  <2>2. Sending(lq, LqIndex) = {} /\ Reading(lq, LqIndex) = {}
    BY <1>6 DEF Sending, Reading
  <2>3. rtl[1] = <<>> /\ rtl[2] = <<>>
    BY <1>1
  <2> QED
    BY <1>10, <2>1, <2>2, <2>3 DEF LoadSide
<1>12. StoreSide
  <2>1. StoreLinks(rob, sq)
    BY <1>5, <1>6 DEF StoreLinks
  <2>2. Len(sta) = 0
    BY <1>1
  <2>3. StaOrder(sq, sta)
    BY <2>2 DEF StaOrder
  <2>4. Queued(sq, sq_head, sq_tail, 0)
    <3>1. Pos(0, 0) = 0 /\ \A q \in SqIndex : Pos(0, q) \in Nat
      BY <1>2, PosValue
    <3>2. \A q \in SqIndex : ~(Pos(0, q) < 0)
      BY <3>1
    <3>3. Pos(0, 0) = IF 0 = SqSize THEN 0 ELSE 0
      BY <3>1
    <3>4. sq_head = 0 /\ sq_tail = 0
      BY <1>1
    <3>5. \A q \in SqIndex : ~Used(sq, q)
      BY <1>6
    <3> QED
      BY <3>2, <3>3, <3>4, <3>5 DEF Queued
  <2>5. Sending(sq, SqIndex) = {} /\ Reading(sq, SqIndex) = {}
    BY <1>6 DEF Sending, Reading
  <2>6. rts[1] = <<>> /\ rts[2] = <<>>
    BY <1>1
  <2>7. 0 \in 0 .. SqSize
    BY <1>2
  <2> QED
    BY <1>10, <2>1, <2>3, <2>4, <2>5, <2>6, <2>7 DEF StoreSide
<1>13. Counting
  <2>0. Cardinality({}) = 0
    BY FS_EmptySet
  <2>1. \A k \in RobIndex : WaitingLoads(rob, lq, k) = {} /\ WaitingStores(rob, sq, k) = {}
    BY <1>5 DEF WaitingLoads, WaitingStores
  <2>2. OpsLeft(rob, lq, sq)
    <3>1. ASSUME NEW k \in RobIndex
          PROVE  rob[k].num_mem_ops = Cardinality(WaitingLoads(rob, lq, k))
                                        + Cardinality(WaitingStores(rob, sq, k))
      <4>1. rob[k].num_mem_ops = 0
        BY <1>3, <1>4
      <4>2. /\ Cardinality(WaitingLoads(rob, lq, k)) = 0
            /\ Cardinality(WaitingStores(rob, sq, k)) = 0
        BY <2>0, <2>1, Zenon
      <4> QED
        BY <4>1, <4>2
    <3> QED
      BY <3>1 DEF OpsLeft
  <2>3. Executes(rob)
    BY <1>5 DEF Executes
  <2>4. Running = {} /\ Finishes(rob) = {}
    BY <1>5 DEF Running, Finishes
  <2>5. inflight.reg = 0 /\ inflight.mem = 0
    BY <1>1
  <2> QED
    BY <2>0, <2>2, <2>3, <2>4, <2>5 DEF Counting
<1>14. History
  <2>1. Len(seen) = 0 /\ seen \in Seq({})
    BY <1>1
  <2>2. ~Busy(head)
    BY <1>1, <1>2, <1>5
  <2> QED
    BY <1>1, <2>1, <2>2 DEF History
<1> QED
  BY <1>7, <1>8, <1>9, <1>11, <1>12, <1>13, <1>14 DEF MInv

LEMMA MInvNext ==
  ASSUME CInv, MInv, [Next]_vars
  PROVE  MInv'
<1>1. CASE HandleBranch
  BY <1>1, BranchMem
<1>2. CASE \/ Translate \/ Fetch
           \/ \E i \in RobIndex : CompleteTranslation(i) \/ CompleteFetch(i)
  BY <1>2, FrontSteps
<1>3. ASSUME NEW i \in RobIndex, CompleteExecution(i) \/ ScheduleMemory(i)
      PROVE  MInv'
  BY <1>3, CompleteMem, ScheduleMemoryMem
<1>4. CASE Schedule
  BY <1>4, ScheduleMem
<1>5. ASSUME NEW n \in 1 .. 2, Execute(n)
      PROVE  MInv'
  BY <1>5, ExecuteMem
<1>6. CASE TranslateStore \/ TranslateLoad \/ ExecuteLoad \/ ExecuteStore
  BY <1>6, TranslateStoreMem, TranslateLoadMem, ExecuteLoadMem, ExecuteStoreMem
<1>7. ASSUME NEW q \in SqIndex, StoreTranslated(q)
      PROVE  MInv'
  BY <1>7, StoreTranslatedMem
<1>8. ASSUME NEW q \in LqIndex, LoadTranslated(q) \/ LoadDone(q)
      PROVE  MInv'
  BY <1>8, LoadTranslatedMem, LoadDoneMem
<1>9. CASE Retire
  BY <1>9, RetireMem
<1>10. CASE UNCHANGED vars
  <2>1. UNCHANGED <<program, instr_unique_id, head, rob, next_schedule, rte, rtl, rts, lq, sq,
                    sq_head, sq_tail, sta, inflight, memory, seen>>
    BY <1>10 DEF vars, front, lists, history
  <2>2. SameOrder /\ \A k \in RobIndex : /\ SameQueues(rob'[k], rob[k])
                                         /\ SameOps(rob'[k], rob[k])
                                         /\ SameSched(rob'[k], rob[k])
                                         /\ rob'[k].executed = rob[k].executed
    BY <2>1 DEF SameOrder, SameId, SameQueues, SameOps, SameSched
  <2>3. /\ MemTypes /\ StageTypes /\ ReadyListed /\ LoadSide /\ StoreSide /\ Counting /\ History
        /\ Indices(rob)
    BY DEF MInv, MemTypes
  <2>4. Counting'
    BY <2>1, <2>2, <2>3, CountFrame
  <2>5. LoadSide'
    BY <2>1, <2>2, <2>3, LoadFrame DEF SameOps
  <2>6. StoreSide'
    BY <2>1, <2>2, <2>3, StoreFrame
  <2>7. History'
    BY <2>1, <2>2, <2>3, HistoryFrame
  <2>8. MemTypes'
    <3>1. inflight' \in [reg : Int, mem : Int]
      BY <2>1, <2>3 DEF MemTypes
    <3> QED
      BY <2>1, <2>2, <2>3, <3>1, TypesFrame
  <2>9. ReadyListed'
    BY <2>1, <2>2, <2>3, ReadyFrame
  <2>10. StageTypes'
    BY <2>1, <2>3 DEF StageTypes
  <2> QED
    BY <2>4, <2>5, <2>6, <2>7, <2>8, <2>9, <2>10 DEF MInv
<1> QED
  BY <1>1, <1>2, <1>3, <1>4, <1>5, <1>6, <1>7, <1>8, <1>9, <1>10 DEF Next

-----------------------------------------------------------------------------
(* What the runs check follows from the two invariants.                     *)

(* The instructions of a ready list, and those that should be in one. *)
InList(n) == {k \in RobIndex : \E x \in 1 .. Len(rte[n]) : rte[n][x] = k}
IsReady(k) ==
  /\ Busy(k) /\ ~IsMemory(k) /\ rob[k].reg_ready
  /\ rob[k].scheduled = "COMPLETED" /\ rob[k].executed = "no"

LEMMA ListedOnce ==
  ASSUME CInv, MInv, NEW i \in RobIndex
  PROVE  Times(i, rte[1]) + Times(i, rte[2]) = IF IsReady(i) THEN 1 ELSE 0
<1>1. /\ \A n \in 1 .. 2 : rte[n] \in Seq(RobIndex)
      /\ \A n \in 1 .. 2 : \A x \in 1 .. Len(rte[n]) : IsReady(rte[n][x])
      /\ \A n, m \in 1 .. 2 : \A x \in 1 .. Len(rte[n]), y \in 1 .. Len(rte[m]) :
           rte[n][x] = rte[m][y] => n = m /\ x = y
  BY DEF CInv, Types, BackEnd, Lists, IsReady
<1>2. IsReady(i) => \E n \in 1 .. 2 : i \in InList(n)
  BY DEF MInv, ReadyListed, IsReady, InList
<1>3. ASSUME NEW n \in 1 .. 2
      PROVE  Times(i, rte[n]) = IF i \in InList(n) THEN 1 ELSE 0
  <2>1. rte[n] \in Seq(RobIndex)
    BY <1>1
  <2>2. \A x \in 1 .. Len(rte[n]) : rte[n][x] \in RobIndex
    BY <2>1, ElementOfSeq
  <2>3. Enumerates(rte[n], InList(n))
    BY <1>1, <2>2 DEF Enumerates, InList
  <2> QED
    BY <2>1, <2>3, EnumTimes
<1>4. \A n \in 1 .. 2 : i \in InList(n) => IsReady(i)
  BY <1>1 DEF InList
<1>5. ~(i \in InList(1) /\ i \in InList(2))
  BY <1>1 DEF InList
<1>6. /\ Times(i, rte[1]) = IF i \in InList(1) THEN 1 ELSE 0
      /\ Times(i, rte[2]) = IF i \in InList(2) THEN 1 ELSE 0
  BY <1>3
<1>7. CASE IsReady(i)
  <2>1. i \in InList(1) \/ i \in InList(2)
    BY <1>2, <1>7
  <2> QED
    BY <1>5, <1>6, <1>7, <2>1
<1>8. CASE ~IsReady(i)
  <2>1. ~(i \in InList(1)) /\ ~(i \in InList(2))
    BY <1>4, <1>8
  <2> QED
    BY <1>6, <1>8, <2>1
<1> QED
  BY <1>7, <1>8

LEMMA PlacesHold ==
  ASSUME CInv, MInv
  PROVE  InOnePlace
<1>1. \A i \in RobIndex :
        Times(i, rte[1]) + Times(i, rte[2]) = IF IsReady(i) THEN 1 ELSE 0
  BY ListedOnce
<1>2. /\ rtl[1] \in Seq(LqIndex) /\ rtl[2] \in Seq(LqIndex)
      /\ rts[1] \in Seq(SqIndex) /\ rts[2] \in Seq(SqIndex)
  BY DEF MInv, MemTypes
<1>3. /\ Enumerates(rtl[1], Sending(lq, LqIndex)) /\ Enumerates(rtl[2], Reading(lq, LqIndex))
      /\ Enumerates(rts[1], Sending(sq, SqIndex)) /\ Enumerates(rts[2], Reading(sq, SqIndex))
  BY DEF MInv, LoadSide, StoreSide
<1>4. \A q \in LqIndex :
        /\ Times(q, rtl[1]) = IF q \in Sending(lq, LqIndex) THEN 1 ELSE 0
        /\ Times(q, rtl[2]) = IF q \in Reading(lq, LqIndex) THEN 1 ELSE 0
  BY <1>2, <1>3, EnumTimes
<1>5. \A q \in SqIndex :
        /\ Times(q, rts[1]) = IF q \in Sending(sq, SqIndex) THEN 1 ELSE 0
        /\ Times(q, rts[2]) = IF q \in Reading(sq, SqIndex) THEN 1 ELSE 0
  BY <1>2, <1>3, EnumTimes
<1>6. /\ \A q \in LqIndex :
           /\ q \in Sending(lq, LqIndex) <=> lq[q] # EmptyLsq /\ lq[q].translated = "no"
           /\ q \in Reading(lq, LqIndex) <=> /\ lq[q] # EmptyLsq
                /\ lq[q].translated = "COMPLETED" /\ lq[q].fetched = "no"
      /\ \A q \in SqIndex :
           /\ q \in Sending(sq, SqIndex) <=> sq[q] # EmptyLsq /\ sq[q].translated = "no"
           /\ q \in Reading(sq, SqIndex) <=> /\ sq[q] # EmptyLsq
                /\ sq[q].translated = "COMPLETED" /\ sq[q].fetched = "no"
  BY DEF Sending, Reading, Used
<1>7. \A i \in RobIndex : Times(i, rte[1]) + Times(i, rte[2]) =
        IF /\ Busy(i) /\ ~IsMemory(i) /\ rob[i].reg_ready
           /\ rob[i].scheduled = "COMPLETED" /\ rob[i].executed = "no"
        THEN 1 ELSE 0
  BY <1>1 DEF IsReady
<1>8. \A q \in LqIndex :
        /\ Times(q, rtl[1]) = IF lq[q] # EmptyLsq /\ lq[q].translated = "no" THEN 1 ELSE 0
        /\ Times(q, rtl[2]) = IF /\ lq[q] # EmptyLsq /\ lq[q].translated = "COMPLETED"
                                 /\ lq[q].fetched = "no" THEN 1 ELSE 0
  BY <1>4, <1>6
<1>9. \A q \in SqIndex :
        /\ Times(q, rts[1]) = IF sq[q] # EmptyLsq /\ sq[q].translated = "no" THEN 1 ELSE 0
        /\ Times(q, rts[2]) = IF /\ sq[q] # EmptyLsq /\ sq[q].translated = "COMPLETED"
                                 /\ sq[q].fetched = "no" THEN 1 ELSE 0
  BY <1>5, <1>6
<1> QED
  BY <1>7, <1>8, <1>9 DEF InOnePlace

LEMMA CountersHold ==
  ASSUME MInv
  PROVE  CountersMatch
<1>1. Indices(rob) /\ OpsLeft(rob, lq, sq)
  BY DEF MInv, MemTypes, Counting
<1>2. inflight.reg = Cardinality(Running) /\ inflight.mem = Cardinality(Finishes(rob))
  BY DEF MInv, Counting
<1>3. ASSUME NEW i \in RobIndex
      PROVE  rob[i].num_mem_ops = Undone(i)
  <2>1. /\ DOMAIN rob[i].lq_index = 1 .. Loads(i)
        /\ DOMAIN rob[i].sq_index = 1 .. Stores(i)
    BY <1>1 DEF Indices
  <2>2. Undone(i) = Cardinality(WaitingLoads(rob, lq, i))
                      + Cardinality(WaitingStores(rob, sq, i))
    BY <2>1 DEF Undone, WaitingLoads, WaitingStores
  <2> QED
    BY <1>1, <2>2 DEF OpsLeft
<1> QED
  BY <1>2, <1>3 DEF CountersMatch, Running, Finishes

LEMMA LoadsWait ==
  ASSUME CInv, MInv
  PROVE  LoadsWaitForYoungestStore
<1>1. head \in RobIndex
  BY DEF CInv, Types
<1>2. LoadLinks(rob, lq) /\ LoadWaits(rob, lq, sq) /\ StoreLinks(rob, sq) /\ Indices(rob)
  BY DEF MInv, LoadSide, StoreSide, MemTypes
<1>3. SUFFICES ASSUME NEW q \in LqIndex, lq[q] # EmptyLsq
      PROVE  LET i == lq[q].rob_index
                 stores == StoresTo(i, LoadAddr(lq[q]))
                 k == Youngest(stores)
             IN IF stores = {} THEN lq[q].producer_id = NoProducer
                ELSE /\ lq[q].producer_id = rob[k].id
                     /\ i \in rob[k].mem_depend_on_me
                     /\ \A p \in Range(rob[k].sq_index) \ {NoIndex} :
                          StoreAddr(sq[p]) = LoadAddr(lq[q]) => sq[p].fetched # "COMPLETED"
  BY DEF LoadsWaitForYoungestStore, StoresTo
<1> DEFINE i == lq[q].rob_index
           a == LoadAddr(lq[q])
           k == Youngest(StoresTo(i, a))
<1>4. i \in RobIndex
  BY <1>2, <1>3 DEF LoadLinks, Used
<1>5. Follows(rob, sq, i, a, lq[q].producer_id)
  BY <1>2, <1>3, <1>4 DEF LoadWaits, Used
<1>6. CASE StoresTo(i, a) = {}
  BY <1>5, <1>6 DEF Follows
<1>7. CASE StoresTo(i, a) # {}
  <2>1. StoresTo(i, a) \in SUBSET RobIndex
    BY DEF StoresTo, Older
  <2>2. k \in RobIndex /\ LastStore(k, i, a)
    BY <1>1, <1>7, <2>1, YoungestIs DEF LastStore
  <2>3. lq[q].producer_id = rob[k].id /\ i \in rob[k].mem_depend_on_me /\ Unstored(sq, k, a)
    BY <1>5, <2>2 DEF Follows
  <2>4. ASSUME NEW p \in Range(rob[k].sq_index) \ {NoIndex}, StoreAddr(sq[p]) = a
        PROVE  sq[p].fetched # "COMPLETED"
    <3>1. PICK x \in 1 .. Stores(k) : rob[k].sq_index[x] = p
      BY <1>2, <2>2 DEF Indices, Range
    <3>2. p \in SqIndex
      BY <1>2, <2>2, <3>1 DEF Indices
    <3>3. sq[p].rob_index = k
      BY <1>2, <2>2, <3>1 DEF StoreLinks
    <3>4. sq[p] # EmptyLsq
      BY <2>2, <3>3 DEF EmptyLsq, RobIndex, NoIndex
    <3> QED
      BY <2>3, <2>4, <3>2, <3>3, <3>4 DEF Unstored, Used
  <2> QED
    BY <1>7, <2>3, <2>4
<1> QED
  BY <1>6, <1>7

LEMMA TypesHold ==
  ASSUME CInv, MInv
  PROVE  TypeOK
<1>1. /\ program \in Programs /\ instr_unique_id \in 1 .. Len(program) + 1
      /\ fetch_stall \in BOOLEAN /\ itlb \subseteq RobIndex
      /\ head \in RobIndex /\ tail \in RobIndex
      /\ last_read \in RobIndex /\ last_fetch \in RobIndex
  BY DEF CInv, Types
<1>2. /\ next_schedule \in RobIndex
      /\ lq \in [LqIndex -> LsqType(LqIndex)] /\ sq \in [SqIndex -> LsqType(SqIndex)]
      /\ sq_head \in SqIndex /\ sq_tail \in SqIndex
      /\ inflight \in [reg : Int, mem : Int] /\ memory \in [Addr -> Nat]
      /\ Indices(rob)
  BY DEF MInv, MemTypes
<1>3. ASSUME NEW i \in RobIndex
      PROVE  /\ rob[i].id \in 0 .. Len(program)
             /\ rob[i].num_mem_ops \in Nat /\ rob[i].num_reg_dependent \in Nat
  <2>1. rob[i].id \in 0 .. Len(program)
    BY IdBounds
  <2>2. rob[i].num_mem_ops \in Nat
    <3>1. Loads(i) \in Nat /\ Stores(i) \in Nat
      BY OpTypes
    <3>2. /\ WaitingLoads(rob, lq, i) \in SUBSET (1 .. Loads(i))
          /\ WaitingStores(rob, sq, i) \in SUBSET (1 .. Stores(i))
      BY DEF WaitingLoads, WaitingStores
    <3>3. IsFiniteSet(WaitingLoads(rob, lq, i)) /\ IsFiniteSet(WaitingStores(rob, sq, i))
      BY <3>1, <3>2, UpTo
    <3>4. /\ Cardinality(WaitingLoads(rob, lq, i)) \in Nat
          /\ Cardinality(WaitingStores(rob, sq, i)) \in Nat
      BY <3>3, FS_CardinalityType
    <3>5. OpsLeft(rob, lq, sq)
      BY DEF MInv, Counting
    <3> QED
      BY <3>4, <3>5 DEF OpsLeft
  <2>3. rob[i].num_reg_dependent \in Nat
    <3>1. Counts
      BY DEF CInv, BackEnd
    <3>2. CASE rob[i].scheduled = "no"
      BY <3>1, <3>2 DEF Counts
    <3>3. CASE rob[i].scheduled # "no"
      <4>1. Op(i) \in Instr
        BY <3>3, RobFacts
      <4>2. Len(Op(i).src) \in Nat
        BY <4>1, LenProperties DEF Instr
      <4>3. Pending(i) \in SUBSET (1 .. Len(Op(i).src))
        BY DEF Pending
      <4>4. Cardinality(Pending(i)) \in Nat
        BY <4>2, <4>3, UpTo, FS_CardinalityType
      <4> QED
        BY <3>1, <3>3, <4>4 DEF Counts
    <3> QED
      BY <3>2, <3>3
  <2> QED
    BY <2>1, <2>2, <2>3
<1>4. ASSUME NEW i \in RobIndex
      PROVE  /\ {rob[i].translated, rob[i].fetched, rob[i].scheduled, rob[i].executed}
                   \subseteq Stage
             /\ Range(rob[i].lq_index) \subseteq LqIndex \cup {NoIndex}
             /\ Range(rob[i].sq_index) \subseteq SqIndex \cup {NoIndex}
             /\ rob[i].mem_depend_on_me \subseteq RobIndex
  <2>1. /\ rob[i].translated \in Stage /\ rob[i].fetched \in Stage
        /\ rob[i].scheduled \in Stage /\ rob[i].executed \in Stage
    BY DEF MInv, StageTypes
  <2>2. /\ rob[i].lq_index \in [1 .. Loads(i) -> LqIndex \cup {NoIndex}]
        /\ rob[i].sq_index \in [1 .. Stores(i) -> SqIndex \cup {NoIndex}]
        /\ rob[i].mem_depend_on_me \subseteq RobIndex
    BY <1>2 DEF Indices
  <2>3. /\ Range(rob[i].lq_index) \subseteq LqIndex \cup {NoIndex}
        /\ Range(rob[i].sq_index) \subseteq SqIndex \cup {NoIndex}
    BY <2>2 DEF Range
  <2> QED
    BY <2>1, <2>2, <2>3
<1>5. inflight \in [reg : Nat, mem : Nat]
  <2>1. Running \in SUBSET RobIndex /\ Finishes(rob) \in SUBSET RobIndex
    BY DEF Running, Finishes
  <2>2. Cardinality(Running) \in Nat /\ Cardinality(Finishes(rob)) \in Nat
    BY <2>1, FiniteIndices, FS_CardinalityType
  <2>3. inflight.reg \in Nat /\ inflight.mem \in Nat
    BY <2>2 DEF MInv, Counting
  <2> QED
    BY <1>2, <2>3
<1>6. Len(seen) < instr_unique_id
  <2>1. History
    BY DEF MInv
  <2>2. PICK S : seen \in Seq(S)
    BY <2>1 DEF History
  <2>3. Len(seen) \in Nat
    BY <2>2, LenProperties
  <2>4. rob[head].id < instr_unique_id /\ rob[head].id \in Int /\ instr_unique_id \in Nat
    BY <1>1, IdBounds
  <2> QED
    BY <2>1, <2>3, <2>4 DEF History
<1> QED
  BY <1>1, <1>2, <1>3, <1>4, <1>5, <1>6 DEF TypeOK

-----------------------------------------------------------------------------
(* The assertion of execute_store.                                         *)

(* Every load that a store knows of has it for its youngest older store to  *)
(* one of its addresses, so that the list of readers is never stale.        *)
Readers(r) ==
  \A k \in RobIndex : \A i \in r[k].mem_depend_on_me :
    Busy(i) /\ \E j \in 1 .. Loads(i) : LastStore(k, i, Op(i).loads[j])

(* A load that entered the LQ stays there while the store it waits for has  *)
(* not executed.                                                           *)
Held(r, l, s) ==
  \A i, k \in RobIndex : \A j \in 1 .. Loads(i) : \A a :
    /\ a = Op(i).loads[j] /\ r[i].lq_index[j] # NoIndex
    /\ LastStore(k, i, a) /\ Unstored(s, k, a)
    => Entry(l[r[i].lq_index[j]], i, j)

Tracked == Readers(rob) /\ Held(rob, lq, sq)

(* What keeps the two: stores stay in the SQ, and a load leaves the LQ only *)
(* when no store it waits for is left.                                      *)
KeepsStores ==
  \A p \in SqIndex : Used(sq, p) =>
    /\ Used(sq', p)
    /\ sq'[p].rob_index = sq[p].rob_index /\ sq'[p].data_index = sq[p].data_index
    /\ sq[p].fetched = "COMPLETED" => sq'[p].fetched = "COMPLETED"
KeepsLoad(q) == lq'[q].rob_index = lq[q].rob_index /\ lq'[q].data_index = lq[q].data_index
Settled(q) ==
  \A i, k \in RobIndex : \A a :
    /\ Used(lq, q) /\ i = lq[q].rob_index /\ a = LoadAddr(lq[q]) /\ LastStore(k, i, a)
    => ~Unstored(sq, k, a)'

LEMMA UnstoredKept ==
  ASSUME StoreLinks(rob, sq), SameOrder, KeepsStores, NEW k \in RobIndex, NEW a,
         Unstored(sq, k, a)'
  PROVE  Unstored(sq, k, a)
<1>1. ASSUME NEW p \in SqIndex, Used(sq, p), sq[p].rob_index = k, StoreAddr(sq[p]) = a
      PROVE  sq[p].fetched # "COMPLETED"
  <2>1. /\ Used(sq', p) /\ sq'[p].rob_index = k /\ sq'[p].data_index = sq[p].data_index
        /\ sq[p].fetched = "COMPLETED" => sq'[p].fetched = "COMPLETED"
    BY <1>1 DEF KeepsStores
  <2>2. Op(k)' = Op(k)
    BY SameProgram
  <2>3. StoreAddr(sq[p])' = a
    BY <1>1, <2>1, <2>2 DEF StoreAddr
  <2>4. sq'[p].fetched # "COMPLETED"
    BY <2>1, <2>3 DEF Unstored, Used
  <2> QED
    BY <2>1, <2>4
<1> QED
  BY <1>1 DEF Unstored

LEMMA ReadersKept ==
  ASSUME SameOrder, NEW r, Indices(r), Readers(r),
         \A k \in RobIndex : rob'[k].mem_depend_on_me = r[k].mem_depend_on_me
  PROVE  Readers(rob)'
<1>1. ASSUME NEW k \in RobIndex, NEW i \in rob'[k].mem_depend_on_me
      PROVE  Busy(i)' /\ \E j \in 1 .. Loads(i)' : LastStore(k, i, Op(i).loads[j])'
  <2>1. i \in r[k].mem_depend_on_me /\ i \in RobIndex
    BY <1>1 DEF Indices
  <2>2. Busy(i) /\ \E j \in 1 .. Loads(i) : LastStore(k, i, Op(i).loads[j])
    BY <2>1 DEF Readers
  <2>3. PICK j \in 1 .. Loads(i) : LastStore(k, i, Op(i).loads[j])
    BY <2>2
  <2>4. PICK a : a = Op(i).loads[j]
    OBVIOUS
  <2>5. Op(i)' = Op(i) /\ Loads(i)' = Loads(i) /\ (Busy(i)' <=> Busy(i))
    BY <2>1, SameProgram
  <2>6. LastStore(k, i, a)'
    BY <2>1, <2>3, <2>4, SameProgram
  <2>7. LastStore(k, i, Op(i).loads[j])'
    BY <2>4, <2>5, <2>6 DEF LastStore, StoresTo
  <2> QED
    BY <2>2, <2>5, <2>7
<1> QED
  BY <1>1 DEF Readers

LEMMA TrackFrame ==
  ASSUME MInv, Tracked, SameOrder, KeepsStores,
         \A k \in RobIndex : /\ rob'[k].lq_index = rob[k].lq_index
                             /\ rob'[k].mem_depend_on_me = rob[k].mem_depend_on_me,
         \A q \in LqIndex : KeepsLoad(q) \/ Settled(q)
  PROVE  Tracked'
<1>1. /\ \A k \in RobIndex : /\ Busy(k)' <=> Busy(k)
                             /\ Op(k)' = Op(k) /\ Loads(k)' = Loads(k)
      /\ \A k, i \in RobIndex : \A a : LastStore(k, i, a)' <=> LastStore(k, i, a)
  BY SameProgram
<1>2. Indices(rob) /\ StoreLinks(rob, sq)
  BY DEF MInv, MemTypes, StoreSide
<1>3. \A k \in RobIndex : \A a : Unstored(sq, k, a)' => Unstored(sq, k, a)
  BY <1>2, UnstoredKept
<1>4. Readers(rob)'
  BY <1>2, ReadersKept DEF Tracked
<1>5. Held(rob, lq, sq)'
  <2>1. ASSUME NEW i \in RobIndex, NEW k \in RobIndex, NEW j \in 1 .. Loads(i)', NEW a,
               a = Op(i)'.loads[j], rob'[i].lq_index[j] # NoIndex,
               LastStore(k, i, a)', Unstored(sq, k, a)'
        PROVE  Entry(lq'[rob'[i].lq_index[j]], i, j)
    <3>1. PICK q : q = rob[i].lq_index[j]
      OBVIOUS
    <3>2. /\ j \in 1 .. Loads(i) /\ a = Op(i).loads[j] /\ q # NoIndex
          /\ LastStore(k, i, a) /\ Unstored(sq, k, a)
      BY <1>1, <1>3, <2>1, <3>1
    <3>3. q \in LqIndex
      BY <1>2, <3>1, <3>2 DEF Indices
    <3>4. Entry(lq[q], i, j)
      BY <3>1, <3>2 DEF Tracked, Held
    <3>5. ~Settled(q)
      <4>1. Used(lq, q) /\ i = lq[q].rob_index
        BY <3>4, UsedIndex DEF Entry, Used
      <4>2. a = LoadAddr(lq[q])
        BY <3>2, <3>4 DEF Entry, LoadAddr
      <4> QED
        BY <2>1, <3>2, <4>1, <4>2 DEF Settled
    <3> QED
      BY <3>1, <3>3, <3>4, <3>5 DEF KeepsLoad, Entry
  <2> QED
    BY <2>1 DEF Held
<1> QED
  BY <1>4, <1>5 DEF Tracked

(* The steps that leave the two queues alone, *)
LEMMA OutsideQueues ==
  ASSUME CInv, MInv,
         \/ Translate \/ Fetch \/ Schedule
         \/ \E i \in RobIndex : CompleteTranslation(i) \/ CompleteFetch(i) \/ CompleteExecution(i)
         \/ \E n \in 1 .. 2 : Execute(n)
  PROVE  /\ SameOrder /\ UNCHANGED <<lq, sq>>
         /\ \A k \in RobIndex : SameQueues(rob'[k], rob[k]) /\ SameOps(rob'[k], rob[k])
<1>1. UNCHANGED <<program, head, lq, sq>>
  BY DEF Translate, Fetch, Schedule, CompleteTranslation, CompleteFetch, CompleteExecution,
         Execute
<1>2. Shaped(rob) /\ \A k \in RobIndex : Next1(k, RobSize) \in RobIndex
  BY NextValue DEF CInv, Types
<1>3. \/ rob' = rob
      \/ \E i \in RobIndex : \E v :
           \/ rob' = WithTranslated(rob, i, v) \/ rob' = WithFetched(rob, i, v)
           \/ rob' = WithExecuted(rob, i, v)
      \/ \E i \in RobIndex : rob' = Linked(i)
      \/ \E i \in RobIndex : rob' = WithExecuted(Releases(i), i, "COMPLETED")
  <2>1. CASE Translate
    BY <2>1 DEF Translate
  <2>2. CASE Fetch
    <3>1. Next1(last_fetch, RobSize) \in RobIndex
      BY <1>2 DEF CInv, Types
    <3> QED
      BY <2>2, <3>1 DEF Fetch, WithFetched
  <2>3. ASSUME NEW i \in RobIndex, CompleteTranslation(i) \/ CompleteFetch(i)
        PROVE  rob' = WithTranslated(rob, i, "COMPLETED")
                 \/ rob' = WithFetched(rob, i, "COMPLETED")
    BY <2>3 DEF CompleteTranslation, CompleteFetch, WithTranslated, WithFetched
  <2>4. CASE Schedule
    <3>1. \E i \in head .. RobSize - 1 : rob' = Linked(i)
      BY <2>4 DEF Schedule, Linked, Links, StageOf, On, Waits
    <3>2. \A i \in head .. RobSize - 1 : i \in RobIndex
      BY CoreSizes DEF CInv, Types, RobIndex
    <3> QED
      BY <3>1, <3>2
  <2>5. ASSUME NEW i \in RobIndex, CompleteExecution(i)
        PROVE  rob' = WithExecuted(Releases(i), i, "COMPLETED")
    BY <2>5 DEF CompleteExecution, WithExecuted, Releases, Release, Freed, Left, OfSource
  <2>6. ASSUME NEW n \in 1 .. 2, Execute(n)
        PROVE  Head(rte[n]) \in RobIndex
                 /\ rob' = WithExecuted(rob, Head(rte[n]), "INFLIGHT")
    <3>1. rte[n] \in Seq(RobIndex) /\ rte[n] # <<>>
      BY <2>6 DEF CInv, Types, Execute
    <3>2. Head(rte[n]) \in RobIndex
      BY <3>1, HeadTailProperties
    <3> QED
      BY <2>6, <3>2 DEF Execute, WithExecuted
  <2> QED
    BY <2>1, <2>2, <2>3, <2>4, <2>5, <2>6
<1>4. \A k \in RobIndex : /\ SameId(rob'[k], rob[k]) /\ SameQueues(rob'[k], rob[k])
                          /\ SameOps(rob'[k], rob[k])
  <2>1. CASE rob' = rob
    BY <2>1, SameFields DEF SameOps
  <2>2. ASSUME NEW i \in RobIndex, NEW v,
               \/ rob' = WithTranslated(rob, i, v) \/ rob' = WithFetched(rob, i, v)
               \/ rob' = WithExecuted(rob, i, v)
        PROVE  \A k \in RobIndex : /\ SameId(rob'[k], rob[k]) /\ SameQueues(rob'[k], rob[k])
                                   /\ SameOps(rob'[k], rob[k])
    <3>1. \A k \in RobIndex : SameOps(rob'[k], rob[k])
      BY <1>2, <2>2, FieldOps
    <3>2. rob' = WithTranslated(rob, i, v) =>
            \A k \in RobIndex : SameId(rob'[k], rob[k]) /\ SameQueues(rob'[k], rob[k])
      BY <1>2, SetTranslated
    <3>3. rob' = WithFetched(rob, i, v) =>
            \A k \in RobIndex : SameId(rob'[k], rob[k]) /\ SameQueues(rob'[k], rob[k])
      BY <1>2, SetFetched
    <3>4. rob' = WithExecuted(rob, i, v) =>
            \A k \in RobIndex : SameId(rob'[k], rob[k]) /\ SameQueues(rob'[k], rob[k])
      BY <1>2, SetExecuted
    <3> QED
      BY <2>2, <3>1, <3>2, <3>3, <3>4
  <2>3. ASSUME NEW i \in RobIndex, rob' = Linked(i)
        PROVE  \A k \in RobIndex : /\ SameId(rob'[k], rob[k]) /\ SameQueues(rob'[k], rob[k])
                                   /\ SameOps(rob'[k], rob[k])
    <3>1. \A k \in RobIndex : SameOps(rob'[k], rob[k])
      BY <1>2, <2>3, LinkedOps
    <3>2. \A k \in RobIndex : SameId(rob'[k], rob[k]) /\ SameQueues(rob'[k], rob[k])
      BY <1>2, <2>3, LinkedFields
    <3> QED
      BY <3>1, <3>2
  <2>4. ASSUME NEW i \in RobIndex, rob' = WithExecuted(Releases(i), i, "COMPLETED")
        PROVE  \A k \in RobIndex : /\ SameId(rob'[k], rob[k]) /\ SameQueues(rob'[k], rob[k])
                                   /\ SameOps(rob'[k], rob[k])
    <3>1. \A k \in RobIndex : SameOps(rob'[k], rob[k])
      BY <1>2, <2>4, CompletedOps
    <3>2. \A k \in RobIndex : SameId(rob'[k], rob[k]) /\ SameQueues(rob'[k], rob[k])
      BY <1>2, <2>4, CompletedFields
    <3> QED
      BY <3>1, <3>2
  <2> QED
    BY <1>3, <2>1, <2>2, <2>3, <2>4
<1>5. SameOrder
  BY <1>1, <1>4 DEF SameOrder
<1> QED
  BY <1>1, <1>4, <1>5

LEMMA OutsideTrack ==
  ASSUME MInv, Tracked, SameOrder, UNCHANGED <<lq, sq>>,
         \A k \in RobIndex : SameQueues(rob'[k], rob[k]) /\ SameOps(rob'[k], rob[k])
  PROVE  Tracked'
<1>1. KeepsStores /\ \A q \in LqIndex : KeepsLoad(q)
  BY DEF KeepsStores, KeepsLoad, Used
<1>2. \A k \in RobIndex : /\ rob'[k].lq_index = rob[k].lq_index
                          /\ rob'[k].mem_depend_on_me = rob[k].mem_depend_on_me
  BY DEF SameQueues, SameOps
<1> QED
  BY <1>1, <1>2, TrackFrame

(* the steps of an entry within its queue, *)
LEMMA EntryKept ==
  ASSUME NEW Index, NEW l \in [Index -> LsqType(Index)], NEW q, NEW v \in Stage, NEW m,
         m = [l EXCEPT ![q].translated = v] \/ m = [l EXCEPT ![q].fetched = v]
  PROVE  \A p \in Index :
           /\ m[p].rob_index = l[p].rob_index /\ m[p].data_index = l[p].data_index
           /\ m = [l EXCEPT ![q].translated = v] => m[p].fetched = l[p].fetched
<1> SUFFICES ASSUME NEW p \in Index
             PROVE  /\ m[p].rob_index = l[p].rob_index /\ m[p].data_index = l[p].data_index
                    /\ m = [l EXCEPT ![q].translated = v] => m[p].fetched = l[p].fetched
  OBVIOUS
<1>1. CASE p # q
  <2>1. m[p] = l[p]
    BY <1>1
  <2> QED
    BY <2>1
<1>2. CASE p = q
  <2>1. l[p] \in LsqType(Index)
    OBVIOUS
  <2>2. /\ m = [l EXCEPT ![q].translated = v] => m[p] = [l[p] EXCEPT !.translated = v]
        /\ m = [l EXCEPT ![q].fetched = v] => m[p] = [l[p] EXCEPT !.fetched = v]
    BY <1>2
  <2>3. PICK e \in LsqType(Index) : e = l[p]
    BY <2>1
  <2>4. PICK f : f = m[p]
    OBVIOUS
  <2>5. /\ f = [e EXCEPT !.translated = v] =>
             f.rob_index = e.rob_index /\ f.data_index = e.data_index /\ f.fetched = e.fetched
        /\ f = [e EXCEPT !.fetched = v] =>
             f.rob_index = e.rob_index /\ f.data_index = e.data_index
    BY <2>3, EntryUpdate
  <2> QED
    BY <2>2, <2>3, <2>4, <2>5
<1> QED
  BY <1>1, <1>2

LEMMA WithinQueues ==
  ASSUME MInv, rob' = rob,
         \/ TranslateStore \/ TranslateLoad \/ ExecuteLoad
         \/ \E q \in SqIndex : StoreTranslated(q)
         \/ \E q \in LqIndex : LoadTranslated(q)
  PROVE  SameOrder /\ KeepsStores /\ \A q \in LqIndex : KeepsLoad(q)
<1>1. program' = program /\ head' = head
  BY DEF TranslateStore, TranslateLoad, ExecuteLoad, StoreTranslated, LoadTranslated
<1>2. /\ lq \in [LqIndex -> LsqType(LqIndex)] /\ sq \in [SqIndex -> LsqType(SqIndex)]
      /\ StoreLinks(rob, sq)
  BY DEF MInv, MemTypes, StoreSide
<1>3. \E v \in Stage :
        \/ lq' = lq /\ \E q : sq' = [sq EXCEPT ![q].translated = v]
        \/ sq' = sq /\ \E q : \/ lq' = [lq EXCEPT ![q].translated = v]
                              \/ lq' = [lq EXCEPT ![q].fetched = v]
  <2>1. "INFLIGHT" \in Stage /\ "COMPLETED" \in Stage
    BY DEF Stage
  <2>2. CASE TranslateStore \/ \E q \in SqIndex : StoreTranslated(q)
    BY <2>1, <2>2 DEF TranslateStore, StoreTranslated
  <2>3. CASE TranslateLoad \/ ExecuteLoad \/ \E q \in LqIndex : LoadTranslated(q)
    BY <2>1, <2>3 DEF TranslateLoad, ExecuteLoad, LoadTranslated
  <2> QED
    BY <2>2, <2>3
<1>4. SameOrder
  BY <1>1, SameFields DEF SameOrder
<1>5. KeepsStores
  <2>1. \A p \in SqIndex : /\ sq'[p].rob_index = sq[p].rob_index
                           /\ sq'[p].data_index = sq[p].data_index
                           /\ sq'[p].fetched = sq[p].fetched
    BY <1>2, <1>3, EntryKept
  <2>2. \A p \in SqIndex : Used(sq, p) => sq[p].rob_index \in RobIndex
    BY <1>2 DEF StoreLinks
  <2>3. \A p \in SqIndex : sq'[p].rob_index \in RobIndex => Used(sq', p)
    BY UsedIndex DEF Used
  <2> QED
    BY <2>1, <2>2, <2>3 DEF KeepsStores
<1>6. \A q \in LqIndex : KeepsLoad(q)
  <2>1. \A q \in LqIndex : /\ lq'[q].rob_index = lq[q].rob_index
                           /\ lq'[q].data_index = lq[q].data_index
    BY <1>2, <1>3, EntryKept
  <2> QED
    BY <2>1 DEF KeepsLoad
<1> QED
  BY <1>4, <1>5, <1>6

LEMMA WithinTrack ==
  ASSUME MInv, Tracked, rob' = rob,
         \/ TranslateStore \/ TranslateLoad \/ ExecuteLoad
         \/ \E q \in SqIndex : StoreTranslated(q)
         \/ \E q \in LqIndex : LoadTranslated(q)
  PROVE  Tracked'
<1>1. SameOrder /\ KeepsStores /\ \A q \in LqIndex : KeepsLoad(q)
  BY WithinQueues
<1>2. \A k \in RobIndex : /\ rob'[k].lq_index = rob[k].lq_index
                          /\ rob'[k].mem_depend_on_me = rob[k].mem_depend_on_me
  OBVIOUS
<1> QED
  BY <1>1, <1>2, TrackFrame

(* and the two that release entries of the load queue. *)
LEMMA IdsDiffer ==
  ASSUME CInv, NEW i \in RobIndex, NEW k \in RobIndex, Busy(i), rob[i].id = rob[k].id
  PROVE  i = k
<1>1. PICK n, t, f \in 0 .. RobSize : Window(n, t, f)
  BY DEF CInv, FrontEnd
<1>2. head \in RobIndex /\ Age(i) \in Int /\ Age(k) \in Int
  BY AgeValue, CoreSizes DEF CInv, Types
<1>3. n \in Int /\ instr_unique_id \in Int
  BY <1>1 DEF CInv, Types, Window
<1>4. /\ rob[i].id = IF Age(i) < n THEN instr_unique_id - n + Age(i) ELSE 0
      /\ rob[k].id = IF Age(k) < n THEN instr_unique_id - n + Age(k) ELSE 0
  BY <1>1 DEF Window
<1>5. Age(i) = Age(k)
  <2>1. rob[i].id # 0 /\ rob[k].id # 0
    BY DEF Busy
  <2>2. /\ rob[i].id = instr_unique_id - n + Age(i)
        /\ rob[k].id = instr_unique_id - n + Age(k)
    BY <1>4, <2>1
  <2>3. instr_unique_id - n + Age(i) = instr_unique_id - n + Age(k)
    BY <2>2, Zenon
  <2>4. \A u, m, x, y \in Int : u - m + x = u - m + y => x = y
    OBVIOUS
  <2> QED
    BY <1>2, <1>3, <2>3, <2>4
<1> QED
  BY <1>2, <1>5, AgeInjective

\* A load that the cache answers has no older store to its address.
LEMMA LoadAlone ==
  ASSUME CInv, MInv, NEW q \in LqIndex, lq[q].fetched = "INFLIGHT",
         NEW i \in RobIndex, Used(lq, q), i = lq[q].rob_index, NEW a, a = LoadAddr(lq[q]),
         NEW k \in RobIndex
  PROVE  ~LastStore(k, i, a)
<1>1. SUFFICES ASSUME LastStore(k, i, a)
               PROVE  FALSE
  OBVIOUS
<1>2. LoadLinks(rob, lq) /\ LoadWaits(rob, lq, sq)
  BY DEF MInv, LoadSide
<1>3. Busy(i) /\ lq[q].producer_id = NoProducer
  BY <1>2 DEF LoadLinks
<1>4. Follows(rob, sq, i, a, lq[q].producer_id)
  BY <1>2 DEF LoadWaits
<1>5. rob[k].id = NoProducer
  BY <1>1, <1>3, <1>4 DEF Follows
<1>6. k \in Older(i)
  BY <1>1 DEF LastStore, StoresTo
<1>7. Busy(k)
  BY <1>3, <1>6, RobFacts
<1> QED
  BY <1>5, <1>7 DEF Busy, NoProducer

LEMMA LoadDoneTrack ==
  ASSUME CInv, MInv, Tracked, NEW q \in LqIndex, LoadDone(q)
  PROVE  Tracked'
<1> DEFINE d == <<lq[q].rob_index, lq[q].data_index>>
           v == memory[LoadAddr(lq[q])]
<1>1. /\ lq[q].fetched = "INFLIGHT"
      /\ Without({d}, {d}, v)
      /\ lq' = [lq EXCEPT ![q] = EmptyLsq]
      /\ UNCHANGED <<program, head, sq>>
  BY DEF LoadDone, Without
<1> HIDE DEF v, d
<1>2. /\ SameOrder
      /\ \A k \in RobIndex : /\ SameQueues(rob'[k], rob[k])
                             /\ rob'[k].mem_depend_on_me = rob[k].mem_depend_on_me
  BY <1>1, DoneRob
<1>3. KeepsStores
  BY <1>1 DEF KeepsStores, Used
<1>4. lq \in [LqIndex -> LsqType(LqIndex)] /\ LoadLinks(rob, lq) /\ LoadWaits(rob, lq, sq)
  BY DEF MInv, MemTypes, LoadSide
<1>5. \A p \in LqIndex : p # q => KeepsLoad(p)
  BY <1>1, <1>4 DEF KeepsLoad
<1>6. Settled(q)
  <2>1. ASSUME NEW i \in RobIndex, NEW k \in RobIndex, NEW a,
               Used(lq, q), i = lq[q].rob_index, a = LoadAddr(lq[q]), LastStore(k, i, a)
        PROVE  FALSE
    BY <1>1, <2>1, LoadAlone
  <2> QED
    BY <2>1 DEF Settled
<1>7. \A k \in RobIndex : /\ rob'[k].lq_index = rob[k].lq_index
                          /\ rob'[k].mem_depend_on_me = rob[k].mem_depend_on_me
  BY <1>2 DEF SameQueues
<1>8. \A p \in LqIndex : KeepsLoad(p) \/ Settled(p)
  BY <1>5, <1>6
<1> QED
  BY <1>2, <1>3, <1>7, <1>8, TrackFrame

LEMMA ExecuteStoreTrack ==
  ASSUME CInv, MInv, Tracked, ForwardingMatches, ExecuteStore
  PROVE  Tracked'
<1>q. PICK q : q = Head(rts[2])
  OBVIOUS
<1>k. PICK k : k = sq[q].rob_index
  OBVIOUS
<1> DEFINE D == Dependents(q)
           E == Forwarded(q)
           C == E \cup {<<k, 0>>}
           v == StoreId(sq[q])
<1>1. /\ rts[2] # <<>>
      /\ sq' = [sq EXCEPT ![q].fetched = "COMPLETED"]
      /\ Without(C, E, v)
      /\ lq' = [l \in LqIndex |->
                 IF \E d \in D : LqOf(d) = l THEN EmptyLsq ELSE lq[l]]
      /\ UNCHANGED <<program, head>>
  BY <1>q, <1>k DEF ExecuteStore, Without
<1>2. /\ LoadLinks(rob, lq) /\ LoadWaits(rob, lq, sq) /\ StoreLinks(rob, sq)
      /\ lq \in [LqIndex -> LsqType(LqIndex)] /\ sq \in [SqIndex -> LsqType(SqIndex)]
      /\ rts[2] \in Seq(SqIndex) /\ Enumerates(rts[2], Reading(sq, SqIndex))
  BY DEF MInv, MemTypes, LoadSide, StoreSide
<1>3. q \in Reading(sq, SqIndex) /\ q \in SqIndex
  BY <1>1, <1>2, <1>q, EnumTail
<1>4. Used(sq, q) /\ sq[q].fetched = "no" /\ k \in RobIndex /\ Busy(k)
  BY <1>2, <1>3, <1>k DEF Reading, StoreLinks
<1>5. \A d \in D : Op(d[1]).loads[d[2]] = StoreAddr(sq[q])
  BY DEF Dependents
<1>6. \A d \in D : LET l == LqOf(d) IN
        /\ lq[l].producer_id = v /\ lq[l].rob_index = d[1] /\ lq[l].data_index = d[2]
  BY <1>3, <1>4 DEF ForwardingMatches, Used
<1> HIDE DEF D, E, C
<1>7. /\ SameOrder
      /\ \A m \in RobIndex : /\ SameQueues(rob'[m], rob[m])
                             /\ rob'[m].mem_depend_on_me = rob[m].mem_depend_on_me
  BY <1>1, DoneRob
<1>8. /\ \A p \in SqIndex : /\ sq'[p].rob_index = sq[p].rob_index
                            /\ sq'[p].data_index = sq[p].data_index
      /\ sq'[q].fetched = "COMPLETED"
      /\ \A p \in SqIndex : p # q => sq'[p] = sq[p]
  <2>1. \A p \in SqIndex : /\ sq'[p].rob_index = sq[p].rob_index
                           /\ sq'[p].data_index = sq[p].data_index
    <3>1. "COMPLETED" \in Stage
      BY DEF Stage
    <3> QED
      BY <1>1, <1>2, <3>1, EntryKept
  <2>2. sq'[q].fetched = "COMPLETED"
    <3>1. sq[q] \in LsqType(SqIndex)
      BY <1>2, <1>3
    <3>2. sq'[q] = [sq[q] EXCEPT !.fetched = "COMPLETED"]
      BY <1>1, <1>2, <1>3
    <3> QED
      BY <3>1, <3>2 DEF LsqType
  <2>3. \A p \in SqIndex : p # q => sq'[p] = sq[p]
    BY <1>1, <1>2
  <2> QED
    BY <2>1, <2>2, <2>3
<1>9. KeepsStores
  <2>1. \A p \in SqIndex : Used(sq, p) => Used(sq', p)
    BY <1>2, <1>8, UsedIndex DEF StoreLinks, Used
  <2> QED
    BY <1>4, <1>8, <2>1 DEF KeepsStores
<1>10. StoreAddr(sq[q])' = StoreAddr(sq[q])
  <2>1. Op(k)' = Op(k)
    BY <1>4, <1>7, SameProgram
  <2>2. StoreAddr(sq[q])' = Op(k)'.stores[sq[q].data_index]
    BY <1>3, <1>8, <1>k DEF StoreAddr, Op
  <2> QED
    BY <2>1, <2>2, <1>k DEF StoreAddr
<1>11. ASSUME NEW p \in LqIndex
       PROVE  KeepsLoad(p) \/ Settled(p)
  <2>1. CASE \A d \in D : LqOf(d) # p
    <3>1. lq'[p] = lq[p]
      BY <1>1, <2>1
    <3> QED
      BY <3>1 DEF KeepsLoad
  <2>2. ASSUME NEW d \in D, LqOf(d) = p
        PROVE  Settled(p)
    <3>1. lq[p].producer_id = v /\ LoadAddr(lq[p]) = StoreAddr(sq[q])
      BY <1>5, <1>6, <2>2 DEF LoadAddr
    <3>2. ASSUME NEW i \in RobIndex, NEW m \in RobIndex, NEW a,
                 Used(lq, p), i = lq[p].rob_index, a = LoadAddr(lq[p]), LastStore(m, i, a)
          PROVE  ~Unstored(sq, m, a)'
      <4>1. Follows(rob, sq, i, a, lq[p].producer_id)
        BY <1>2, <3>2 DEF LoadWaits
      <4>2. v = rob[m].id
        BY <3>1, <3>2, <4>1 DEF Follows
      <4>3. m = k
        BY <1>4, <4>2, <1>k, IdsDiffer DEF StoreId
      <4>4. Used(sq', q) /\ sq'[q].rob_index = m /\ StoreAddr(sq[q])' = a
        BY <1>3, <1>4, <1>8, <1>9, <1>10, <1>k, <3>1, <3>2, <4>3 DEF KeepsStores
      <4> QED
        BY <1>3, <1>8, <4>4 DEF Unstored, Used
    <3> QED
      BY <3>2 DEF Settled
  <2> QED
    BY <2>1, <2>2
<1>12. \A m \in RobIndex : /\ rob'[m].lq_index = rob[m].lq_index
                           /\ rob'[m].mem_depend_on_me = rob[m].mem_depend_on_me
  BY <1>7 DEF SameQueues
<1> QED
  BY <1>7, <1>9, <1>11, <1>12, TrackFrame

(* Reading an instruction: it has no readers and is in no queue, and it is  *)
(* younger than all others.                                                *)
LEMMA BranchStores ==
  ASSUME CInv, HandleBranch, NEW i \in RobIndex, Busy(i), NEW a
  PROVE  /\ StoresTo(i, a)' = StoresTo(i, a) /\ tail \notin StoresTo(i, a)
         /\ \A k \in RobIndex : LastStore(k, i, a)' <=> LastStore(k, i, a)
<1>1. /\ tail \in RobIndex /\ ~Busy(tail)
      /\ \A k \in RobIndex : /\ k # tail => rob'[k] = rob[k]
                             /\ Age(k)' = Age(k)
                             /\ Busy(k) => Age(k) < Age(tail)
  BY BranchFacts
<1>2. UNCHANGED <<program, head>>
  BY DEF HandleBranch
<1>3. PICK h : h = tail
  OBVIOUS
<1>4. \A k \in RobIndex : k # h => Op(k)' = Op(k)
  BY <1>1, <1>2, <1>3 DEF Op
<1>5. /\ Age(i) < Age(h) /\ \A m \in RobIndex : Age(m)' = Age(m) /\ Age(m) \in Nat
  <2>1. \A m \in RobIndex : Age(m) \in Nat
    BY AgeValue DEF CInv, Types
  <2> QED
    BY <1>1, <1>3, <2>1
<1>6. h \notin Older(i) /\ Older(i)' = Older(i)
  BY <1>1, <1>3, <1>5 DEF Older
<1>7. \A m \in RobIndex : m # h => (Writes(m, a)' <=> Writes(m, a))
  BY <1>4 DEF Writes
<1>8. StoresTo(i, a)' = StoresTo(i, a)
  BY <1>6, <1>7 DEF StoresTo, Older
<1>9. StoresTo(i, a) \in SUBSET RobIndex /\ h \notin StoresTo(i, a)
  BY <1>6 DEF StoresTo, Older
<1> QED
  BY <1>3, <1>5, <1>8, <1>9 DEF LastStore

LEMMA BranchTrack ==
  ASSUME CInv, MInv, Tracked, HandleBranch
  PROVE  Tracked'
<1>1. /\ tail \in RobIndex /\ ~Busy(tail)
      /\ \A k \in RobIndex : /\ k # tail => rob'[k] = rob[k]
                             /\ Age(k)' = Age(k)
                             /\ Busy(k) => Age(k) < Age(tail)
  BY BranchFacts
<1>2. UNCHANGED <<program, head, lq, sq>>
  BY DEF HandleBranch
<1>3. PICK h : h = tail
  OBVIOUS
<1>4. /\ \A k \in RobIndex : k # h => /\ Busy(k)' <=> Busy(k)
                                      /\ Op(k)' = Op(k) /\ Loads(k)' = Loads(k)
                                      /\ rob'[k] = rob[k]
      /\ h \in RobIndex /\ ~Busy(h)
  BY <1>1, <1>2, <1>3 DEF Busy, Op, Loads
<1>5. rob'[h].mem_depend_on_me = {} /\ \A j \in 1 .. Loads(h)' : rob'[h].lq_index[j] = NoIndex
  <2>1. PICK miss \in BOOLEAN : rob'[tail] = Decoded(instr_unique_id, miss)
    BY BranchFacts
  <2>2. PICK id : id = instr_unique_id
    OBVIOUS
  <2>3. PICK r : r = Decoded(id, miss)
    OBVIOUS
  <2>4. /\ r.mem_depend_on_me = {}
        /\ r.lq_index = [j \in DOMAIN program[id].loads |-> NoIndex]
    BY <2>3, DecodedQueues
  <2>5. r.id = id
    BY <2>3, DecodedFields
  <2>6. rob'[h] = r
    BY <1>3, <2>1, <2>2, <2>3
  <2>7. program[id] \in Instr /\ id \in Nat /\ id # 0
    BY <2>2, BranchFacts
  <2>8. DOMAIN program[id].loads = 1 .. Len(program[id].loads)
    BY <2>7, LenProperties DEF Instr
  <2>9. Loads(h)' = Len(program[id].loads)
    BY <1>2, <2>5, <2>6, <2>7 DEF Loads, Busy, Op
  <2> QED
    BY <2>4, <2>6, <2>8, <2>9
<1>6. ASSUME NEW k \in RobIndex, NEW i \in RobIndex, NEW a, Busy(i)
      PROVE  LastStore(k, i, a)' <=> LastStore(k, i, a)
  BY <1>6, BranchStores
<1>7. /\ Indices(rob) /\ StoreLinks(rob, sq) /\ Readers(rob) /\ Held(rob, lq, sq)
  BY DEF MInv, MemTypes, StoreSide, Tracked
<1>8. \A p \in SqIndex : Used(sq, p) =>
        /\ sq[p].rob_index \in RobIndex /\ StoreAddr(sq[p])' = StoreAddr(sq[p])
  <2>1. ASSUME NEW p \in SqIndex, Used(sq, p)
        PROVE  sq[p].rob_index \in RobIndex /\ StoreAddr(sq[p])' = StoreAddr(sq[p])
    <3>1. PICK k \in RobIndex : k = sq[p].rob_index /\ Busy(k)
      BY <1>7, <2>1 DEF StoreLinks
    <3>2. Op(k)' = Op(k)
      BY <1>4, <3>1
    <3> QED
      BY <1>2, <3>1, <3>2 DEF StoreAddr
  <2> QED
    BY <2>1
<1>9. \A k \in RobIndex : \A a : Unstored(sq, k, a)' => Unstored(sq, k, a)
  BY <1>2, <1>8 DEF Unstored, Used
<1>10. Readers(rob)'
  <2>1. ASSUME NEW k \in RobIndex, NEW i \in rob'[k].mem_depend_on_me
        PROVE  Busy(i)' /\ \E j \in 1 .. Loads(i)' : LastStore(k, i, Op(i).loads[j])'
    <3>1. k # h
      BY <1>5, <2>1
    <3>2. i \in rob[k].mem_depend_on_me
      BY <1>4, <2>1, <3>1
    <3>3. i \in RobIndex /\ Busy(i)
      BY <1>7, <3>2 DEF Indices, Readers
    <3>4. i # h
      BY <1>4, <3>3
    <3>5. PICK j \in 1 .. Loads(i) : LastStore(k, i, Op(i).loads[j])
      BY <1>7, <3>2 DEF Readers
    <3>6. PICK a : a = Op(i).loads[j]
      OBVIOUS
    <3>7. LastStore(k, i, a)' /\ Op(i)' = Op(i) /\ Loads(i)' = Loads(i) /\ Busy(i)'
      BY <1>4, <1>6, <3>3, <3>4, <3>5, <3>6
    <3>8. LastStore(k, i, Op(i).loads[j])'
      BY <3>6, <3>7 DEF LastStore, StoresTo
    <3> QED
      BY <3>7, <3>8
  <2> QED
    BY <2>1 DEF Readers
<1>11. Held(rob, lq, sq)'
  <2>1. ASSUME NEW i \in RobIndex, NEW k \in RobIndex, NEW j \in 1 .. Loads(i)', NEW a,
               a = Op(i)'.loads[j], rob'[i].lq_index[j] # NoIndex,
               LastStore(k, i, a)', Unstored(sq, k, a)'
        PROVE  Entry(lq'[rob'[i].lq_index[j]], i, j)
    <3>1. i # h
      BY <1>5, <2>1
    <3>2. j \in 1 .. Loads(i) /\ a = Op(i).loads[j] /\ rob'[i] = rob[i]
      BY <1>4, <2>1, <3>1
    <3>3. Busy(i)
      <4>1. Loads(i) # 0
        BY <3>2
      <4> QED
        BY <4>1 DEF Loads
    <3>4. LastStore(k, i, a) /\ Unstored(sq, k, a)
      BY <1>6, <1>9, <2>1, <3>3
    <3> QED
      BY <1>2, <1>7, <2>1, <3>2, <3>4 DEF Held
  <2> QED
    BY <2>1 DEF Held
<1> QED
  BY <1>10, <1>11 DEF Tracked

(* Retiring the head: nothing is older, so it is no reader, and its stores  *)
(* were nobody's last any more.                                            *)
LEMMA RetireStores ==
  ASSUME CInv, Retire, NEW h \in RobIndex, h = head, NEW i \in RobIndex, i # h, NEW a
  PROVE  /\ StoresTo(i, a)' = StoresTo(i, a) \ {h}
         /\ \A k \in RobIndex : LastStore(k, i, a)' <=> k # h /\ LastStore(k, i, a)
         /\ Age(h) < Age(i)
<1>1. /\ \A k \in RobIndex :
           /\ Age(k) \in 0 .. RobSize - 1
           /\ Age(k)' = IF k = h THEN RobSize - 1 ELSE Age(k) - 1
           /\ k # h <=> Age(k) # 0
      /\ \A k \in RobIndex : k # h => Op(k)' = Op(k)
  BY RetireRob
<1>2. RobSize \in Nat /\ RobSize >= 2
  BY CoreSizes
<1>3. \A m \in RobIndex : Age(m)' < Age(i)' <=> Age(m) < Age(i) /\ m # h
  <2>1. ASSUME NEW m \in RobIndex
        PROVE  Age(m)' < Age(i)' <=> Age(m) < Age(i) /\ m # h
    <3>1. Age(m) \in 0 .. RobSize - 1 /\ Age(i) \in 0 .. RobSize - 1 /\ Age(i) # 0
      BY <1>1
    <3>2. Age(i)' = Age(i) - 1
      BY <1>1
    <3>3. CASE m = h
      <4>1. Age(m)' = RobSize - 1
        BY <1>1, <3>3
      <4> QED
        BY <1>2, <3>1, <3>2, <3>3, <4>1
    <3>4. CASE m # h
      <4>1. Age(m)' = Age(m) - 1
        BY <1>1, <3>4
      <4> QED
        BY <1>2, <3>1, <3>2, <3>4, <4>1
    <3> QED
      BY <3>3, <3>4
  <2> QED
    BY <2>1
<1>4. \A m \in RobIndex : m # h => (Writes(m, a)' <=> Writes(m, a))
  BY <1>1 DEF Writes
<1>5. \A m \in RobIndex : m \in StoresTo(i, a)' <=> m \in StoresTo(i, a) /\ m # h
  BY <1>3, <1>4 DEF StoresTo, Older
<1>6. StoresTo(i, a) \in SUBSET RobIndex /\ StoresTo(i, a)' \in SUBSET RobIndex
  BY DEF StoresTo, Older
<1>7. \A m, n \in RobIndex : m # h /\ n # h => (Age(m)' <= Age(n)' <=> Age(m) <= Age(n))
  <2>1. \A m \in RobIndex : Age(m) \in Int
    BY <1>1, <1>2
  <2>2. \A m \in RobIndex : m # h => Age(m)' = Age(m) - 1
    BY <1>1
  <2> QED
    BY <2>1, <2>2
<1>8. \A k \in RobIndex : Age(h) <= Age(k)
  BY <1>1, <1>2
<1>9. Age(h) < Age(i)
  BY <1>1, <1>2
<1>10. StoresTo(i, a)' = StoresTo(i, a) \ {h}
  BY <1>5, <1>6
<1>11. \A k \in RobIndex : LastStore(k, i, a)' <=> k # h /\ LastStore(k, i, a)
  BY <1>5, <1>6, <1>7, <1>8 DEF LastStore
<1> QED
  BY <1>9, <1>10, <1>11

LEMMA RetireTrack ==
  ASSUME CInv, MInv, Tracked, Retire
  PROVE  Tracked'
<1>1. PICK h : h = head
  OBVIOUS
<1>2. h \in RobIndex
  BY <1>1 DEF CInv, Types
<1>3. /\ \A k \in RobIndex :
           /\ Age(k) \in 0 .. RobSize - 1
           /\ Age(k)' = IF k = h THEN RobSize - 1 ELSE Age(k) - 1
           /\ k # h <=> Age(k) # 0
      /\ \A k \in RobIndex : k # h => /\ rob'[k] = rob[k] /\ (Busy(k)' <=> Busy(k))
                                      /\ Op(k)' = Op(k) /\ Loads(k)' = Loads(k)
      /\ rob'[h] = EmptyInstr /\ ~Busy(h)' /\ Loads(h)' = 0
  BY <1>1, <1>2, RetireRob
<1>4. RobSize \in Nat /\ RobSize >= 2
  BY CoreSizes
<1>5. /\ Indices(rob) /\ StoreLinks(rob, sq) /\ Readers(rob) /\ Held(rob, lq, sq)
  BY DEF MInv, MemTypes, StoreSide, Tracked
<1> DEFINE F == Range(rob[h].sq_index) \ {NoIndex}
<1>6. lq' = lq /\ sq' = [q \in SqIndex |-> IF q \in F THEN EmptyLsq ELSE sq[q]]
  BY <1>1 DEF Retire, lists
<1>7. \A q \in F : q \in SqIndex /\ sq[q].rob_index = h
  <2>1. rob[h].sq_index \in [1 .. Stores(h) -> SqIndex \cup {NoIndex}]
    BY <1>2, <1>5 DEF Indices
  <2>2. ASSUME NEW q \in F
        PROVE  q \in SqIndex /\ sq[q].rob_index = h
    <3>1. PICK x \in 1 .. Stores(h) : rob[h].sq_index[x] = q /\ q # NoIndex
      BY <2>1 DEF Range
    <3> QED
      BY <1>2, <1>5, <2>1, <3>1 DEF StoreLinks
  <2> QED
    BY <2>2
<1> HIDE DEF F
<1>8. ASSUME NEW k \in RobIndex, NEW i \in RobIndex, NEW a, i # h
      PROVE  LastStore(k, i, a)' <=> k # h /\ LastStore(k, i, a)
  BY <1>1, <1>2, <1>8, RetireStores
<1>9. ASSUME NEW k \in RobIndex, NEW a, k # h, Unstored(sq, k, a)'
      PROVE  Unstored(sq, k, a)
  <2>1. ASSUME NEW p \in SqIndex, Used(sq, p), sq[p].rob_index = k, StoreAddr(sq[p]) = a
        PROVE  sq[p].fetched # "COMPLETED"
    <3>1. p \notin F
      BY <1>7, <1>9, <2>1
    <3>2. sq'[p] = sq[p] /\ Used(sq', p)
      BY <1>6, <2>1, <3>1 DEF Used
    <3>3. StoreAddr(sq[p])' = a
      BY <1>3, <1>9, <2>1, <3>2 DEF StoreAddr
    <3> QED
      BY <1>9, <2>1, <3>2, <3>3 DEF Unstored, Used
  <2> QED
    BY <2>1 DEF Unstored
<1>10. Readers(rob)'
  <2>1. ASSUME NEW k \in RobIndex, NEW i \in rob'[k].mem_depend_on_me
        PROVE  Busy(i)' /\ \E j \in 1 .. Loads(i)' : LastStore(k, i, Op(i).loads[j])'
    <3>1. k # h
      BY <1>3, <2>1 DEF EmptyInstr
    <3>2. i \in rob[k].mem_depend_on_me
      BY <1>3, <2>1, <3>1
    <3>3. i \in RobIndex /\ Busy(i)
      BY <1>5, <3>2 DEF Indices, Readers
    <3>5. PICK j \in 1 .. Loads(i) : LastStore(k, i, Op(i).loads[j])
      BY <1>5, <3>2 DEF Readers
    <3>4. i # h
      <4>1. Age(k) < Age(i)
        BY <3>5 DEF LastStore, StoresTo, Older
      <4>2. Age(k) \in Nat
        BY <1>3, <1>4
      <4> QED
        BY <1>2, <1>3, <4>1, <4>2
    <3>6. PICK a : a = Op(i).loads[j]
      OBVIOUS
    <3>7. LastStore(k, i, a)' /\ Op(i)' = Op(i) /\ Loads(i)' = Loads(i) /\ Busy(i)'
      BY <1>3, <1>8, <3>1, <3>3, <3>4, <3>5, <3>6
    <3>8. LastStore(k, i, Op(i).loads[j])'
      BY <3>6, <3>7 DEF LastStore, StoresTo
    <3> QED
      BY <3>7, <3>8
  <2> QED
    BY <2>1 DEF Readers
<1>11. Held(rob, lq, sq)'
  <2>1. ASSUME NEW i \in RobIndex, NEW k \in RobIndex, NEW j \in 1 .. Loads(i)', NEW a,
               a = Op(i)'.loads[j], rob'[i].lq_index[j] # NoIndex,
               LastStore(k, i, a)', Unstored(sq, k, a)'
        PROVE  Entry(lq'[rob'[i].lq_index[j]], i, j)
    <3>1. i # h
      BY <1>3, <2>1
    <3>2. j \in 1 .. Loads(i) /\ a = Op(i).loads[j] /\ rob'[i] = rob[i]
      BY <1>3, <2>1, <3>1
    <3>3. k # h /\ LastStore(k, i, a)
      BY <1>8, <2>1, <3>1
    <3>4. Unstored(sq, k, a)
      BY <1>9, <2>1, <3>3
    <3> QED
      BY <1>5, <1>6, <2>1, <3>2, <3>3, <3>4 DEF Held
  <2> QED
    BY <2>1 DEF Held
<1> QED
  BY <1>10, <1>11 DEF Tracked

-----------------------------------------------------------------------------
(* The values that loads read.                                             *)

\* A load of i from a reads v: what the youngest older store to a writes, or
\* what the stores that retired have left in the memory m.
Holds(m, i, a, v) ==
  /\ StoresTo(i, a) = {} => v = m[a]
  /\ \A k \in RobIndex : LastStore(k, i, a) => v = rob[k].id

\* Every load that is done has read that.
Tuple(g, n) == g = [j \in 1 .. n |-> g[j]]
Gots(r) == \A k \in RobIndex : Tuple(r[k].got, Loads(k))
Values(r, l, m) ==
  \A i \in RobIndex : \A j \in 1 .. Loads(i) : \A a, v :
    /\ j \notin WaitingLoads(r, l, i) /\ a = Op(i).loads[j] /\ v = r[i].got[j]
    => Holds(m, i, a, v)

Right == Gots(rob) /\ Values(rob, lq, memory)
RightIn(s) == Gots(s.rob) /\ Values(s.rob, s.lq, memory)

LEMMA GotIs ==
  ASSUME NEW g, NEW k, NEW D, NEW v, NEW n, Tuple(g, n)
  PROVE  /\ Tuple(GotOf(g, k, D, v), n)
         /\ \A j \in 1 .. n : GotOf(g, k, D, v)[j] = IF <<k, j>> \in D THEN v ELSE g[j]
<1>1. DOMAIN g = 1 .. n
  BY DEF Tuple
<1>2. PICK x : x = GotOf(g, k, D, v)
  OBVIOUS
<1>3. x = [j \in 1 .. n |-> IF <<k, j>> \in D THEN v ELSE g[j]]
  BY <1>1, <1>2 DEF GotOf
<1> QED
  BY <1>2, <1>3 DEF Tuple

(* A load enters the load queue, or is completed from the store queue. *)
Tracks(s) == Readers(s.rob) /\ Held(s.rob, s.lq, sq)

\* Only load j of i becomes a reader, of the store that it finds.
NewReader(u, r, i, j) ==
  \A k \in RobIndex : \A x \in u[k].mem_depend_on_me :
    x \in r[k].mem_depend_on_me \/ (x = i /\ LastStore(k, i, Op(i).loads[j]))

LEMMA EnterTracks ==
  ASSUME NEW i \in RobIndex, Busy(i), NEW j \in 1 .. Loads(i), NEW q, NEW e,
         NEW r, NEW l, NEW u, NEW m, Enters(i, j, q, e, r, l, u, m), Indices(r),
         Readers(r), Held(r, l, sq),
         NewReader(u, r, i, j),
         \/ Entry(e, i, j)
         \/ \A k \in RobIndex : LastStore(k, i, Op(i).loads[j])
                                  => ~Unstored(sq, k, Op(i).loads[j])
  PROVE  Readers(u) /\ Held(u, m, sq)
<1>1. Readers(u)
  <2>1. ASSUME NEW k \in RobIndex, NEW x \in u[k].mem_depend_on_me
        PROVE  Busy(x) /\ \E n \in 1 .. Loads(x) : LastStore(k, x, Op(x).loads[n])
    <3>1. CASE x \in r[k].mem_depend_on_me
      BY <3>1 DEF Readers
    <3>2. CASE x = i /\ LastStore(k, i, Op(i).loads[j])
      BY <3>2
    <3> QED
      BY <3>1, <3>2 DEF NewReader
  <2> QED
    BY <2>1 DEF Readers
<1>2. Held(u, m, sq)
  <2>1. ASSUME NEW x \in RobIndex, NEW k \in RobIndex, NEW n \in 1 .. Loads(x), NEW a,
               a = Op(x).loads[n], u[x].lq_index[n] # NoIndex,
               LastStore(k, x, a), Unstored(sq, k, a)
        PROVE  Entry(m[u[x].lq_index[n]], x, n)
    <3>1. CASE x = i /\ n = j
      <4>1. u[x].lq_index[n] = q /\ m[q] = e
        BY <3>1 DEF Enters
      <4>2. Entry(e, i, j)
        BY <2>1, <3>1
      <4> QED
        BY <3>1, <4>1, <4>2
    <3>2. CASE ~(x = i /\ n = j)
      <4>1. PICK y : y = r[x].lq_index[n]
        OBVIOUS
      <4>2. u[x].lq_index[n] = y
        BY <3>2, <4>1 DEF Enters
      <4>3. y \in LqIndex
        BY <2>1, <4>1, <4>2 DEF Indices
      <4>4. Entry(l[y], x, n)
        BY <2>1, <4>1, <4>2 DEF Held
      <4>5. Used(l, y)
        BY <4>4, UsedIndex DEF Entry, Used
      <4>6. m[y] = l[y]
        BY <4>3, <4>5 DEF Enters
      <4> QED
        BY <4>2, <4>4, <4>6
    <3> QED
      BY <3>1, <3>2
  <2> QED
    BY <2>1 DEF Held
<1> QED
  BY <1>1, <1>2

LEMMA ForwardedIsStored ==
  ASSUME CInv, StoreLinks(rob, sq), NEW p \in RobIndex, NEW a, CanForward(p, a)
  PROVE  ~Unstored(sq, p, a)
<1>1. PICK x \in SqIndex : /\ Used(sq, x) /\ StoreId(sq[x]) = rob[p].id /\ StoreAddr(sq[x]) = a
                           /\ sq[x].fetched = "COMPLETED"
  BY DEF CanForward, Used
<1>2. PICK k \in RobIndex : k = sq[x].rob_index /\ Busy(k)
  BY <1>1 DEF StoreLinks
<1>3. rob[k].id = rob[p].id
  BY <1>1, <1>2 DEF StoreId
<1>4. k = p
  BY <1>2, <1>3, IdsDiffer
<1> QED
  BY <1>1, <1>2, <1>4 DEF Unstored

\* Load j of i takes the entry q in the step from s to t, or is forwarded.
Loaded(s, t, i, j) ==
  \E q, e :
    /\ Enters(i, j, q, e, s.rob, s.lq, t.rob, t.lq)
    /\ NewReader(t.rob, s.rob, i, j)
    /\ \/ Entry(e, i, j) /\ \A k \in RobIndex : t.rob[k].got = s.rob[k].got
       \/ \E p \in RobIndex : \E D, v :
            /\ LastStore(p, i, Op(i).loads[j]) /\ ~Unstored(sq, p, Op(i).loads[j])
            /\ D = {<<i, j>>} /\ v = rob[p].id
            /\ \A k \in RobIndex : t.rob[k].got = GotOf(s.rob[k].got, k, D, v)

LEMMA LoadCases ==
  ASSUME CInv, MInv, NEW i \in RobIndex, IsMemory(i), rob[i].executed # "COMPLETED",
         NEW j \in 1 .. Loads(i), NEW s, Loading(i, j - 1, s), NEW t, t = AddIfRoom(s, i, j)
  PROVE  t = s \/ Loaded(s, t, i, j)
<1>1. Good(i, s) /\ LoadState(s) /\ Adds(i, s.rob)
  BY DEF Loading, Good
<1>2. StoreLinks(rob, sq)
  BY DEF MInv, StoreSide
<1>3. Loads(i) \in Nat /\ j \in Nat /\ j > j - 1
  BY OpTypes
<1>4. Busy(i)
  BY DEF IsMemory
<1>5. /\ Indices(s.rob)
      /\ \A n \in 1 .. Loads(i) : n > j - 1 => s.rob[i].lq_index[n] = rob[i].lq_index[n]
      /\ s.lq \in [LqIndex -> LsqType(LqIndex)]
  BY DEF Loading
<1>6. head \in RobIndex
  BY DEF CInv, Types
<1>7. CASE ~(rob[i].lq_index[j] = NoIndex /\ \E q \in LqIndex : s.lq[q] = EmptyLsq)
  <2>1. t = s
    BY <1>7 DEF AddIfRoom
  <2> QED
    BY <2>1
<1>8. CASE rob[i].lq_index[j] = NoIndex /\ \E q \in LqIndex : s.lq[q] = EmptyLsq
  <2>2. PICK q : q = FirstFree(s.lq)
    OBVIOUS
  <2>3. q \in LqIndex /\ s.lq[q] = EmptyLsq
    <3> DEFINE S == {p \in LqIndex : s.lq[p] = EmptyLsq}
    <3>1. S # {} /\ S \in SUBSET Nat /\ S \in SUBSET LqIndex
      BY <1>8, CoreSizes DEF LqIndex
    <3>2. q = CHOOSE p \in S : \A x \in S : p <= x
      BY <2>2 DEF FirstFree
    <3> HIDE DEF S
    <3>3. PICK m \in S : \A x \in S : m <= x
      BY <3>1, FirstOf
    <3>4. q \in S
      BY <3>2, <3>3
    <3> QED
      BY <3>4 DEF S
  <2>4. PICK a : a = Op(i).loads[j]
    OBVIOUS
  <2>5. PICK p : p = StoreProducer(i, a)
    OBVIOUS
  <2>6. PICK u : u = WithLoad(s.rob, i, j, q)
    OBVIOUS
  <2>7. PICK w : w = WithReader(u, p, i)
    OBVIOUS
  <2>8. LoadState(s) /\ rob[i].lq_index[j] = NoIndex /\ \E x \in LqIndex : s.lq[x] = EmptyLsq
    BY <1>1, <1>8
  <2>9. PICK e : e = LsqEntry(i, j)
    OBVIOUS
  <2>10. PICK id : id = rob[p].id
    OBVIOUS
  <2>11. PICK f : f = Waiting(e, id)
    OBVIOUS
  <2>12. PICK D : D = {<<i, j>>}
    OBVIOUS
  <2>13. PICK l, m : l = Put(s.lq, q, e) /\ m = Put(s.lq, q, f)
    OBVIOUS
  <2>14. /\ p = NoIndex => Becomes(t, u, l, Append(s.rtl0, q), s.mem)
         /\ p # NoIndex /\ CanForward(p, a) =>
              Becomes(t, Read(Finished(w, D), D, id), s.lq, s.rtl0, s.mem + NowDone(w, D))
         /\ p # NoIndex /\ ~CanForward(p, a) => Becomes(t, w, m, s.rtl0, s.mem)
    BY <2>2, <2>4, <2>5, <2>6, <2>7, <2>8, <2>9, <2>10, <2>11, <2>12, <2>13, AddLoadIs
  <2>15. p # NoIndex => p \in RobIndex /\ LastStore(p, i, a)
    BY <1>6, <2>5, StoreProducerIs
  <2>16. Adds(i, u)
    BY <1>1, <2>6, AddedFields
  <2>17. s.rob[i].lq_index[j] = NoIndex
    BY <1>3, <1>5, <1>8
  <2>18. Placed(i, j, q, s.rob, s.lq, u) /\ SameCounts(u, s.rob)
    BY <1>1, <1>5, <2>3, <2>6, <2>17, PlacedLoad
  <2>19. e \in LsqType(LqIndex) /\ Entry(e, i, j)
    BY <1>3, <2>9, EntryFields
  <2>20. /\ \A k \in RobIndex : u[k].mem_depend_on_me = s.rob[k].mem_depend_on_me
         /\ NewReader(u, s.rob, i, j)
         /\ \A k \in RobIndex : u[k].got = s.rob[k].got
    <3>1. PICK v : v = [s.rob[i].lq_index EXCEPT ![j] = q]
      OBVIOUS
    <3>2. OnlyLoad(u, s.rob, i, v)
      BY <1>1, <2>6, <3>1, AddedQueues
    <3> QED
      BY <3>2 DEF OnlyLoad, NewReader
  <2>21. CASE p = NoIndex
    <3>1. t.rob = u /\ t.lq = l
      BY <2>14, <2>21 DEF Becomes
    <3>2. Takes(l, s.lq, q, e)
      BY <1>5, <2>3, <2>13, <2>19, TakesEntry
    <3>3. Enters(i, j, q, e, s.rob, s.lq, u, l)
      BY <2>18, <3>2 DEF Placed, Enters, Kept, Used, Takes
    <3>4. Enters(i, j, q, e, s.rob, s.lq, t.rob, t.lq)
      BY <3>1, <3>3
    <3> QED
      BY <2>19, <2>20, <3>1, <3>4 DEF Loaded
  <2>22. CASE p # NoIndex
    <3>1. p \in RobIndex /\ LastStore(p, i, a)
      BY <2>15, <2>22
    <3>2. Adds(i, w)
      BY <2>7, <2>16, ReaderFields
    <3>3. Placed(i, j, q, s.rob, s.lq, w) /\ SameCounts(w, s.rob)
      BY <2>7, <2>16, <2>18, <3>1, PlacedReader
    <3>7. OnlyReader(w, u, p, i)
      BY <2>7, <2>16, <3>1, ReaderQueues
    <3>8. \A k \in RobIndex : w[k].got = s.rob[k].got
      BY <2>20, <3>7 DEF OnlyReader
    <3>4. NewReader(w, s.rob, i, j)
      <4>1. OnlyReader(w, u, p, i)
        BY <3>7
      <4>2. LastStore(p, i, Op(i).loads[j])
        BY <2>4, <3>1
      <4>3. ASSUME NEW k \in RobIndex, NEW x \in w[k].mem_depend_on_me
            PROVE  x \in s.rob[k].mem_depend_on_me \/ (x = i /\ LastStore(k, i, Op(i).loads[j]))
        <5>1. CASE k = p
          <6>1. x \in u[k].mem_depend_on_me \cup {i}
            BY <4>1, <4>3, <5>1 DEF OnlyReader
          <6> QED
            BY <2>20, <4>2, <5>1, <6>1
        <5>2. CASE k # p
          <6>1. x \in u[k].mem_depend_on_me
            BY <4>1, <4>3, <5>2 DEF OnlyReader
          <6> QED
            BY <2>20, <6>1
        <5> QED
          BY <5>1, <5>2
      <4> QED
        BY <4>3 DEF NewReader
    <3>5. CASE CanForward(p, a)
      <4>1. t.rob = Read(Finished(w, D), D, id) /\ t.lq = s.lq
        BY <2>14, <2>22, <3>5 DEF Becomes
      <4>2. PICK x : x = t.rob
        OBVIOUS
      <4>3. /\ Kept(x, w)
            /\ \A k \in RobIndex : /\ x[k].lq_index = w[k].lq_index
                                   /\ x[k].mem_depend_on_me = w[k].mem_depend_on_me
                                   /\ x[k].got = GotOf(w[k].got, k, D, id)
        <5>1. x = Read(Finished(w, D), D, id)
          BY <4>1, <4>2
        <5> QED
          BY <3>2, <5>1, ReadQueues
      <4>4. PICK g : g = EmptyLsq
        OBVIOUS
      <4>5. Enters(i, j, q, g, s.rob, s.lq, x, s.lq)
        <5>1. \A y \in LqIndex : s.lq[y] = IF y = q THEN g ELSE s.lq[y]
          BY <2>3, <4>4
        <5>2. \A n \in 1 .. Loads(i) : x[i].lq_index[n] = IF n = j THEN q ELSE s.rob[i].lq_index[n]
          BY <3>3, <4>3 DEF Placed
        <5>3. \A k \in RobIndex :
                /\ x[k].id = s.rob[k].id
                /\ k # i => x[k].lq_index = s.rob[k].lq_index
                /\ s.rob[k].mem_depend_on_me \subseteq x[k].mem_depend_on_me
          BY <3>3, <4>3 DEF Placed, Kept
        <5> QED
          BY <3>3, <5>1, <5>2, <5>3 DEF Enters, Placed, Used
      <4>6. LastStore(p, i, Op(i).loads[j]) /\ ~Unstored(sq, p, Op(i).loads[j])
        <5>1. ~Unstored(sq, p, a)
          BY <1>2, <3>1, <3>5, ForwardedIsStored
        <5> QED
          BY <2>4, <3>1, <5>1
      <4>7. NewReader(x, s.rob, i, j)
        BY <3>4, <4>3 DEF NewReader
      <4>8. \A k \in RobIndex : x[k].got = GotOf(s.rob[k].got, k, D, id)
        BY <3>8, <4>3
      <4>9. Enters(i, j, q, g, s.rob, s.lq, t.rob, t.lq)
        BY <4>1, <4>2, <4>5
      <4> QED
        BY <2>10, <2>12, <3>1, <4>2, <4>6, <4>7, <4>8, <4>9 DEF Loaded
    <3>6. CASE ~CanForward(p, a)
      <4>1. t.rob = w /\ t.lq = m
        BY <2>14, <2>22, <3>6 DEF Becomes
      <4>2. id \in Nat
        <5>1. rob[p].id \in 0 .. Len(program) /\ Len(program) \in Nat
          BY <3>1, IdBounds
        <5> QED
          BY <2>10, <5>1
      <4>3. f \in LsqType(LqIndex) /\ Entry(f, i, j)
        BY <2>11, <2>19, <4>2, WaitingFields
      <4>4. Takes(m, s.lq, q, f)
        BY <1>5, <2>3, <2>13, <4>3, TakesEntry
      <4>5. Enters(i, j, q, f, s.rob, s.lq, w, m)
        BY <3>3, <4>4 DEF Placed, Enters, Kept, Used, Takes
      <4>6. Enters(i, j, q, f, s.rob, s.lq, t.rob, t.lq)
        BY <4>1, <4>5
      <4> QED
        BY <3>4, <3>8, <4>1, <4>3, <4>6 DEF Loaded
    <3> QED
      BY <3>5, <3>6
  <2> QED
    BY <2>21, <2>22
<1> QED
  BY <1>7, <1>8

LEMMA LoadTracks ==
  ASSUME CInv, NEW i \in RobIndex, Busy(i), NEW j \in 1 .. Loads(i), NEW s, NEW t,
         Indices(s.rob), Loaded(s, t, i, j), Tracks(s)
  PROVE  Tracks(t)
<1>1. PICK q, e :
        /\ Enters(i, j, q, e, s.rob, s.lq, t.rob, t.lq)
        /\ NewReader(t.rob, s.rob, i, j)
        /\ \/ Entry(e, i, j)
           \/ \E p \in RobIndex : /\ LastStore(p, i, Op(i).loads[j])
                                   /\ ~Unstored(sq, p, Op(i).loads[j])
  BY DEF Loaded
<1>2. Readers(s.rob) /\ Held(s.rob, s.lq, sq) /\ head \in RobIndex
  BY DEF Tracks, CInv, Types
<1>3. \/ Entry(e, i, j)
      \/ \A k \in RobIndex : LastStore(k, i, Op(i).loads[j])
                               => ~Unstored(sq, k, Op(i).loads[j])
  <2>1. ASSUME NEW p \in RobIndex, LastStore(p, i, Op(i).loads[j]),
               ~Unstored(sq, p, Op(i).loads[j]),
               NEW k \in RobIndex, LastStore(k, i, Op(i).loads[j])
        PROVE  ~Unstored(sq, k, Op(i).loads[j])
    <3>1. PICK a : a = Op(i).loads[j]
      OBVIOUS
    <3>2. k = p
      BY <1>2, <2>1, <3>1, LastStoreIsOne
    <3> QED
      BY <2>1, <3>2
  <2> QED
    BY <1>1, <2>1
<1>4. Readers(t.rob) /\ Held(t.rob, t.lq, sq)
  BY <1>1, <1>2, <1>3, EnterTracks
<1> QED
  BY <1>4 DEF Tracks

LEMMA LoadRight ==
  ASSUME CInv, NEW i \in RobIndex, NEW j \in 1 .. Loads(i), NEW s, NEW t,
         Indices(s.rob), Loaded(s, t, i, j), RightIn(s)
  PROVE  RightIn(t)
<1>1. PICK q, e :
        /\ Enters(i, j, q, e, s.rob, s.lq, t.rob, t.lq)
        /\ \/ Entry(e, i, j) /\ \A k \in RobIndex : t.rob[k].got = s.rob[k].got
           \/ \E p \in RobIndex : \E D, v :
                /\ LastStore(p, i, Op(i).loads[j])
                /\ D = {<<i, j>>} /\ v = rob[p].id
                /\ \A k \in RobIndex : t.rob[k].got = GotOf(s.rob[k].got, k, D, v)
  BY DEF Loaded
<1>2. Gots(s.rob) /\ Values(s.rob, s.lq, memory) /\ head \in RobIndex
  BY DEF RightIn, CInv, Types
<1>3. ASSUME NEW x \in RobIndex, NEW n \in 1 .. Loads(x), ~(x = i /\ n = j),
             n \notin WaitingLoads(t.rob, t.lq, x)
      PROVE  n \notin WaitingLoads(s.rob, s.lq, x)
  <2>1. PICK y : y = s.rob[x].lq_index[n]
    OBVIOUS
  <2>2. t.rob[x].lq_index[n] = y
    BY <1>1, <1>3, <2>1 DEF Enters
  <2>3. y # NoIndex /\ ~(t.lq[y].rob_index = x /\ t.lq[y].data_index = n)
    BY <1>3, <2>2 DEF WaitingLoads
  <2>4. y \in LqIndex
    BY <2>1, <2>3 DEF Indices
  <2>5. ~(s.lq[y].rob_index = x /\ s.lq[y].data_index = n)
    <3>1. CASE y = q
      <4>1. s.lq[y] = EmptyLsq
        BY <1>1, <3>1 DEF Enters, Used
      <4> QED
        BY <4>1, UsedIndex
    <3>2. CASE y # q
      <4>1. t.lq[y] = s.lq[y]
        BY <1>1, <2>4, <3>2 DEF Enters
      <4> QED
        BY <2>3, <4>1
    <3> QED
      BY <3>1, <3>2
  <2> QED
    BY <2>1, <2>3, <2>5 DEF WaitingLoads
<1>4. CASE Entry(e, i, j) /\ \A k \in RobIndex : t.rob[k].got = s.rob[k].got
  <2>1. Gots(t.rob)
    BY <1>2, <1>4 DEF Gots
  <2>2. j \in WaitingLoads(t.rob, t.lq, i)
    <3>1. t.rob[i].lq_index[j] = q /\ t.lq[q] = e
      BY <1>1 DEF Enters
    <3> QED
      BY <1>4, <3>1 DEF WaitingLoads, Entry
  <2>3. Values(t.rob, t.lq, memory)
    BY <1>2, <1>3, <1>4, <2>2 DEF Values
  <2> QED
    BY <2>1, <2>3 DEF RightIn
<1>5. ASSUME NEW p \in RobIndex, NEW D, NEW v, LastStore(p, i, Op(i).loads[j]),
             D = {<<i, j>>}, v = rob[p].id,
             \A k \in RobIndex : t.rob[k].got = GotOf(s.rob[k].got, k, D, v)
      PROVE  RightIn(t)
  <2>1. \A k \in RobIndex :
          /\ Tuple(t.rob[k].got, Loads(k))
          /\ \A n \in 1 .. Loads(k) :
               t.rob[k].got[n] = IF <<k, n>> \in D THEN v ELSE s.rob[k].got[n]
    <3>1. ASSUME NEW k \in RobIndex
          PROVE  /\ Tuple(t.rob[k].got, Loads(k))
                 /\ \A n \in 1 .. Loads(k) :
                      t.rob[k].got[n] = IF <<k, n>> \in D THEN v ELSE s.rob[k].got[n]
      <4>1. PICK g, h, m : g = s.rob[k].got /\ h = t.rob[k].got /\ m = Loads(k)
        OBVIOUS
      <4>2. Tuple(g, m) /\ h = GotOf(g, k, D, v)
        BY <1>2, <1>5, <4>1 DEF Gots
      <4>3. /\ Tuple(h, m)
            /\ \A n \in 1 .. m : h[n] = IF <<k, n>> \in D THEN v ELSE g[n]
        BY <4>2, GotIs
      <4> QED
        BY <4>1, <4>3
    <3> QED
      BY <3>1
  <2>2. ASSUME NEW x \in RobIndex, NEW n \in 1 .. Loads(x), NEW a, NEW w,
               n \notin WaitingLoads(t.rob, t.lq, x), a = Op(x).loads[n],
               w = t.rob[x].got[n]
        PROVE  Holds(memory, x, a, w)
    <3>1. CASE x = i /\ n = j
      <4>1. w = v /\ LastStore(p, x, a)
        BY <1>5, <2>1, <2>2, <3>1
      <4>2. \A k \in RobIndex : LastStore(k, x, a) => k = p
        BY <1>2, <4>1, LastStoreIsOne
      <4>3. StoresTo(x, a) # {}
        BY <4>1 DEF LastStore
      <4> QED
        BY <1>5, <4>1, <4>2, <4>3 DEF Holds
    <3>2. CASE ~(x = i /\ n = j)
      <4>1. w = s.rob[x].got[n]
        BY <1>5, <2>1, <2>2, <3>2
      <4>2. n \notin WaitingLoads(s.rob, s.lq, x)
        BY <1>3, <2>2, <3>2
      <4> QED
        BY <1>2, <2>2, <4>1, <4>2 DEF Values
    <3> QED
      BY <3>1, <3>2
  <2>3. Gots(t.rob)
    BY <2>1 DEF Gots
  <2>4. Values(t.rob, t.lq, memory)
    BY <2>2 DEF Values
  <2> QED
    BY <2>3, <2>4 DEF RightIn
<1> QED
  BY <1>1, <1>4, <1>5

LEMMA AddLoadsKeep ==
  ASSUME CInv, MInv, NEW i \in RobIndex, IsMemory(i), rob[i].executed # "COMPLETED"
  PROVE  /\ Tracked => Tracks(AddLoads(i))
         /\ Right => RightIn(AddLoads(i))
<1>1. PICK n : n = Loads(i)
  OBVIOUS
<1>2. n \in Nat /\ n = Len(Op(i).loads)
  BY <1>1, OpTypes DEF IsMemory
<1> DEFINE f == After(i, n)
           Kept1(j) == /\ Loading(i, j, f[j])
                       /\ Tracked => Tracks(f[j])
                       /\ Right => RightIn(f[j])
<1>3. Added(i, n, f)
  BY <1>2, AddedExists DEF After
<1>4. AddLoads(i) = f[n]
  BY <1>2 DEF AddLoads, After, Added, Start
<1> HIDE DEF f
<1>5. \A j \in 0 .. n : f[j] = IF j = 0 THEN Start ELSE AddIfRoom(f[j - 1], i, j)
  BY <1>3 DEF Added
<1>6. Loading(i, 0, Start) /\ (Tracked => Tracks(Start)) /\ (Right => RightIn(Start))
  <2>1. Start.rob = rob /\ Start.lq = lq
    BY DEF Start
  <2> QED
    BY <2>1, LoadsStart DEF Tracks, Tracked, Right, RightIn
<1>7. \A j \in 0 .. n : Kept1(j)
  <2> DEFINE T == {j \in 0 .. n : ~Kept1(j)}
  <2>1. SUFFICES ASSUME T # {}
                 PROVE  FALSE
    BY <2>1
  <2>2. T \subseteq Nat
    OBVIOUS
  <2>3. PICK m \in T : \A y \in T : <<y, m>> \notin OpToRel(<, Nat)
    <3> HIDE DEF T
    <3> QED
      BY <2>1, <2>2, NatLessThanWellFounded, WFMin
  <2>4. m \in 0 .. n /\ ~Kept1(m) /\ \A y \in T : ~(y < m)
    BY <2>2, <2>3 DEF OpToRel
  <2>5. m # 0
    BY <1>5, <1>6, <2>4
  <2>6. m - 1 \in 0 .. n /\ m - 1 < m /\ m \in 1 .. n
    BY <1>2, <2>4, <2>5
  <2>7. Kept1(m - 1)
    BY <2>4, <2>6
  <2>8. PICK s, t : s = f[m - 1] /\ t = f[m]
    OBVIOUS
  <2>9. t = AddIfRoom(s, i, m)
    BY <1>5, <2>4, <2>5, <2>8
  <2>10. /\ Loading(i, m - 1, s) /\ (Tracked => Tracks(s)) /\ (Right => RightIn(s))
         /\ Indices(s.rob) /\ Busy(i)
    BY <2>7, <2>8 DEF Loading, IsMemory
  <2>11. Loading(i, m, t)
    BY <1>1, <2>6, <2>9, <2>10, LoadEnters
  <2>12. t = s \/ Loaded(s, t, i, m)
    BY <1>1, <2>6, <2>9, <2>10, LoadCases
  <2>13. (Tracked => Tracks(t)) /\ (Right => RightIn(t))
    BY <1>1, <2>6, <2>10, <2>12, LoadTracks, LoadRight
  <2> QED
    BY <2>4, <2>8, <2>11, <2>13
<1>8. n \in 0 .. n
  BY <1>2
<1> QED
  BY <1>4, <1>7, <1>8

LEMMA ScheduledQueues ==
  ASSUME CInv, MInv, NEW i \in RobIndex, ScheduleMemory(i), NEW L, L = AddLoads(i)
  PROVE  /\ SameOrder /\ KeepsStores /\ memory' = memory /\ lq' = L.lq
         /\ Indices(L.rob)
         /\ \A k \in RobIndex : /\ rob'[k].lq_index = L.rob[k].lq_index
                                /\ rob'[k].mem_depend_on_me = L.rob[k].mem_depend_on_me
                                /\ rob'[k].got = L.rob[k].got
         /\ Tracked => Tracks(L)
         /\ Right => RightIn(L)
<1>1. /\ IsMemory(i) /\ Busy(i) /\ rob[i].executed = "no" /\ rob[i].scheduled = "INFLIGHT"
      /\ UNCHANGED <<program, head, memory>>
  BY Scheduling
<1>3. PICK r : r = L.rob
  OBVIOUS
<1>4. PICK S : S = AddStores(r, i)
  OBVIOUS
<1>5. PICK u : u = S.rob
  OBVIOUS
<1>6. PICK s : s = S.sq
  OBVIOUS
<1>7. PICK l : l = L.lq
  OBVIOUS
<1>8. StartsIfAll(i, u) /\ lq' = l /\ sq' = s
  BY <1>3, <1>4, <1>5, <1>6, <1>7, ScheduledIs
<1>9. Loading(i, Loads(i), L) /\ (Tracked => Tracks(L)) /\ (Right => RightIn(L))
  BY <1>1, AddLoadsMem, AddLoadsKeep
<1>10. Adds(i, r) /\ Indices(r)
  BY <1>3, <1>9 DEF Loading, Good
<1>11. PICK n \in 0 .. SqSize : Queued(sq, sq_head, sq_tail, n)
  BY DEF MInv, StoreSide
<1>12. Fits(i, StoresToAdd(i), n) /\ Behind(i, StoresToAdd(i), n)
  BY <1>1, <1>11, StoresFit, StoreSlots
<1>13. StoresIn(i, r, u)
  <2>1. \A k \in StoresToAdd(i) : StoreSlot(i, k) \in SqIndex
    BY <1>12 DEF Behind
  <2> QED
    BY <1>4, <1>5, <1>10, <2>1, StoresInRob
<1>14. EntriesIn(i, s)
  <2>1. s = AddStores(r, i).sq
    BY <1>4, <1>6
  <2> QED
    BY <1>12, <2>1, StoresInQueue
<1>15. Adds(i, u)
  <2>1. Adds(i, AddStores(r, i).rob)
    BY <1>10, AddStoresGood
  <2> QED
    BY <1>4, <1>5, <2>1
<1>16. \A k \in RobIndex : /\ SameId(rob'[k], rob[k])
                           /\ SameQueues(rob'[k], u[k]) /\ SameOps(rob'[k], u[k])
  BY <1>1, <1>8, <1>15, StartedFields
<1>17. SameOrder
  BY <1>1, <1>16 DEF SameOrder
<1>18. \A k \in RobIndex : /\ rob'[k].lq_index = r[k].lq_index
                           /\ rob'[k].mem_depend_on_me = r[k].mem_depend_on_me
                           /\ rob'[k].got = r[k].got
  BY <1>13, <1>16 DEF StoresIn, SameQueues, SameOps
<1>19. KeepsStores
  <2>1. \A p \in SqIndex : Used(sq, p) => sq'[p] = sq[p]
    BY <1>8, <1>12, <1>14, QueueKeeps
  <2> QED
    BY <2>1 DEF KeepsStores, Used
<1> QED
  BY <1>1, <1>3, <1>7, <1>8, <1>9, <1>10, <1>17, <1>18, <1>19

LEMMA ScheduleMemoryTrack ==
  ASSUME CInv, MInv, Tracked, NEW i \in RobIndex, ScheduleMemory(i)
  PROVE  Tracked'
<1>1. PICK L : L = AddLoads(i)
  OBVIOUS
<1>2. PICK r, l : r = L.rob /\ l = L.lq
  OBVIOUS
<1>3. /\ SameOrder /\ KeepsStores /\ lq' = l /\ Indices(r)
      /\ \A k \in RobIndex : /\ rob'[k].lq_index = r[k].lq_index
                             /\ rob'[k].mem_depend_on_me = r[k].mem_depend_on_me
      /\ Tracks(L)
  BY <1>1, <1>2, ScheduledQueues
<1>4. Readers(r) /\ Held(r, l, sq) /\ StoreLinks(rob, sq)
  BY <1>2, <1>3 DEF Tracks, MInv, StoreSide
<1>5. Readers(rob)'
  BY <1>3, <1>4, ReadersKept
<1>6. Held(rob, lq, sq)'
  <2>1. ASSUME NEW x \in RobIndex, NEW k \in RobIndex, NEW j \in 1 .. Loads(x)', NEW a,
               a = Op(x)'.loads[j], rob'[x].lq_index[j] # NoIndex,
               LastStore(k, x, a)', Unstored(sq, k, a)'
        PROVE  Entry(lq'[rob'[x].lq_index[j]], x, j)
    <3>1. j \in 1 .. Loads(x) /\ a = Op(x).loads[j]
      BY <1>3, <2>1, SameProgram
    <3>2. LastStore(k, x, a)
      BY <1>3, <2>1, SameProgram
    <3>3. Unstored(sq, k, a)
      BY <1>3, <1>4, <2>1, UnstoredKept
    <3> QED
      BY <1>3, <1>4, <2>1, <3>1, <3>2, <3>3 DEF Held
  <2> QED
    BY <2>1 DEF Held
<1> QED
  BY <1>5, <1>6 DEF Tracked

LEMMA TrackInit ==
  ASSUME Init
  PROVE  Tracked
<1>1. \A k \in RobIndex : rob[k].mem_depend_on_me = {} /\ Loads(k) = 0
  BY DEF Init, EmptyInstr, Loads, Busy
<1>2. Readers(rob)
  BY <1>1 DEF Readers
<1>3. Held(rob, lq, sq)
  <2>1. \A k \in RobIndex : 1 .. Loads(k) = {}
    BY <1>1
  <2> QED
    BY <2>1 DEF Held
<1> QED
  BY <1>2, <1>3 DEF Tracked

LEMMA TrackNext ==
  ASSUME CInv, MInv, Tracked, ForwardingMatches, [Next]_vars
  PROVE  Tracked'
<1>1. CASE \/ Translate \/ Fetch \/ Schedule
           \/ \E i \in RobIndex :
                CompleteTranslation(i) \/ CompleteFetch(i) \/ CompleteExecution(i)
           \/ \E n \in 1 .. 2 : Execute(n)
  BY <1>1, OutsideQueues, OutsideTrack
<1>2. CASE \/ TranslateStore \/ TranslateLoad \/ ExecuteLoad
           \/ \E q \in SqIndex : StoreTranslated(q)
           \/ \E q \in LqIndex : LoadTranslated(q)
  <2>1. rob' = rob
    BY <1>2 DEF TranslateStore, TranslateLoad, ExecuteLoad, StoreTranslated, LoadTranslated
  <2> QED
    BY <1>2, <2>1, WithinTrack
<1>3. CASE HandleBranch \/ Retire \/ ExecuteStore
  BY <1>3, BranchTrack, RetireTrack, ExecuteStoreTrack
<1>4. ASSUME NEW i \in RobIndex, ScheduleMemory(i)
      PROVE  Tracked'
  BY <1>4, ScheduleMemoryTrack
<1>5. ASSUME NEW q \in LqIndex, LoadDone(q)
      PROVE  Tracked'
  BY <1>5, LoadDoneTrack
<1>6. CASE UNCHANGED vars
  <2>1. UNCHANGED <<program, head, rob, lq, sq>>
    BY <1>6 DEF vars
  <2>2. SameOrder /\ \A k \in RobIndex : SameQueues(rob'[k], rob[k]) /\ SameOps(rob'[k], rob[k])
    BY <2>1 DEF SameOrder, SameId, SameQueues, SameOps
  <2> QED
    BY <2>1, <2>2, OutsideTrack
<1> QED
  BY <1>1, <1>2, <1>3, <1>4, <1>5, <1>6 DEF Next

LEMMA OlderId ==
  ASSUME CInv, NEW i \in RobIndex, NEW k \in RobIndex, Busy(i), Age(k) < Age(i)
  PROVE  rob[k].id < rob[i].id /\ Busy(k)
<1>1. PICK n, t, f \in 0 .. RobSize : Window(n, t, f)
  BY DEF CInv, FrontEnd
<1>2. head \in RobIndex /\ Age(i) \in Int /\ Age(k) \in Int
  BY AgeValue, CoreSizes DEF CInv, Types
<1>3. n \in Int /\ instr_unique_id \in Int
  BY <1>1 DEF CInv, Types, Window
<1>4. /\ rob[i].id = IF Age(i) < n THEN instr_unique_id - n + Age(i) ELSE 0
      /\ rob[k].id = IF Age(k) < n THEN instr_unique_id - n + Age(k) ELSE 0
  BY <1>1 DEF Window
<1>5. k \in Older(i)
  BY DEF Older
<1>6. Busy(k) /\ rob[i].id # 0 /\ rob[k].id # 0
  BY <1>5, RobFacts DEF Busy
<1>7. \A u, m, x, y \in Int : x < y => u - m + x < u - m + y
  OBVIOUS
<1>8. /\ rob[i].id = instr_unique_id - n + Age(i)
      /\ rob[k].id = instr_unique_id - n + Age(k)
  BY <1>4, <1>6
<1>9. instr_unique_id - n + Age(k) < instr_unique_id - n + Age(i)
  BY <1>2, <1>3, <1>7
<1> QED
  BY <1>6, <1>8, <1>9

LEMMA LastToBoth ==
  ASSUME Uncrossed(program), CInv, NEW i \in RobIndex, NEW k \in RobIndex, Busy(i),
         NEW j \in 1 .. Loads(i), NEW n \in 1 .. Loads(i), NEW a, NEW b,
         a = Op(i).loads[j], b = Op(i).loads[n],
         LastStore(k, i, b), Writes(k, a)
  PROVE  LastStore(k, i, a)
<1>1. head \in RobIndex /\ \A m \in RobIndex : Age(m) \in Nat
  BY AgeValue DEF CInv, Types
<1>2. k \in Older(i) /\ Writes(k, b) /\ Age(k) < Age(i)
  BY DEF LastStore, StoresTo, Older
<1>3. Busy(k)
  BY <1>2, OlderId
<1>4. ASSUME NEW m \in StoresTo(i, a), ~(Age(m) <= Age(k))
      PROVE  FALSE
  <2>1. m \in RobIndex /\ Writes(m, a) /\ Age(m) < Age(i) /\ Age(k) < Age(m)
    BY <1>1, <1>4 DEF StoresTo, Older
  <2>2. /\ Busy(m) /\ rob[m].id < rob[i].id /\ rob[k].id < rob[m].id
    BY <1>3, <2>1, OlderId
  <2>3. \A h \in {i, k, m} : rob[h].id \in 1 .. Len(program)
    <3>1. \A h \in RobIndex : Busy(h) => rob[h].id \in 1 .. Len(program)
      <4>1. ASSUME NEW h \in RobIndex, Busy(h)
            PROVE  rob[h].id \in 1 .. Len(program)
        <5>1. rob[h].id \in 0 .. Len(program) /\ Len(program) \in Nat /\ rob[h].id # 0
          BY <4>1, IdBounds DEF Busy
        <5> QED
          BY <5>1
      <4> QED
        BY <4>1
    <3> QED
      BY <1>3, <2>1, <2>2, <3>1
  <2>4. StoredBy(program, rob[k].id, a) /\ StoredBy(program, rob[k].id, b)
    <3>1. DOMAIN Op(k).stores = 1 .. Len(Op(k).stores)
      BY <1>3, OpTypes
    <3> QED
      BY <1>2, <3>1 DEF Writes, StoredBy, Op
  <2>5. StoredBy(program, rob[m].id, a)
    <3>1. DOMAIN Op(m).stores = 1 .. Len(Op(m).stores)
      BY <2>1, <2>2, OpTypes
    <3> QED
      BY <2>1, <3>1 DEF Writes, StoredBy, Op
  <2>6. /\ LoadedBy(program, rob[i].id, a) /\ LoadedBy(program, rob[i].id, b)
        /\ a \in Addr /\ b \in Addr
    <3>1. Loads(i) = Len(Op(i).loads) /\ Op(i).loads \in Seq(Addr)
      BY OpTypes
    <3>2. Op(i).loads[j] \in Addr /\ Op(i).loads[n] \in Addr
      BY <3>1
    <3> QED
      BY <3>1, <3>2 DEF LoadedBy, Op
  <2>7. a = b
    BY <2>2, <2>3, <2>4, <2>5, <2>6 DEF Uncrossed
  <2>8. Age(m) <= Age(k)
    BY <2>7 DEF LastStore
  <2> QED
    BY <1>4, <2>8
<1> QED
  BY <1>2, <1>4 DEF LastStore, StoresTo

\* The assertion of execute_store.
LEMMA Matches ==
  ASSUME Uncrossed(program), CInv, MInv, Tracked
  PROVE  ForwardingMatches
<1>1. /\ Indices(rob) /\ StoreLinks(rob, sq) /\ LoadWaits(rob, lq, sq)
      /\ Readers(rob) /\ Held(rob, lq, sq)
  BY DEF MInv, MemTypes, StoreSide, LoadSide, Tracked
<1>2. ASSUME NEW q \in SqIndex, Used(sq, q), sq[q].fetched # "COMPLETED",
             NEW i \in rob[sq[q].rob_index].mem_depend_on_me,
             NEW j \in DOMAIN rob[i].lq_index, rob[i].lq_index[j] # NoIndex,
             Op(i).loads[j] = StoreAddr(sq[q])
      PROVE  LET y == rob[i].lq_index[j]
             IN /\ lq[y].producer_id = StoreId(sq[q])
                /\ lq[y].rob_index = i /\ lq[y].data_index = j
  <2>1. PICK k \in RobIndex : k = sq[q].rob_index /\ Busy(k)
    BY <1>1, <1>2 DEF StoreLinks
  <2>2. PICK x \in 1 .. Stores(k) : x = sq[q].data_index /\ rob[k].sq_index[x] = q
    BY <1>1, <1>2, <2>1 DEF StoreLinks
  <2>3. PICK a : a = StoreAddr(sq[q])
    OBVIOUS
  <2>4. a = Op(k).stores[x] /\ a = Op(i).loads[j]
    BY <1>2, <2>1, <2>2, <2>3 DEF StoreAddr
  <2>5. i \in RobIndex /\ Busy(i) /\ j \in 1 .. Loads(i)
    <3>1. i \in RobIndex /\ Busy(i)
      BY <1>1, <1>2, <2>1 DEF Indices, Readers
    <3> QED
      BY <1>1, <1>2, <3>1 DEF Indices
  <2>6. PICK n \in 1 .. Loads(i) : LastStore(k, i, Op(i).loads[n])
    BY <1>1, <1>2, <2>1 DEF Readers
  <2>7. DOMAIN Op(k).stores = 1 .. Stores(k) /\ Stores(k) = Len(Op(k).stores)
    BY <2>1, OpTypes
  <2>8. LastStore(k, i, a)
    <3>1. Writes(k, a)
      BY <2>4, <2>7 DEF Writes
    <3>2. PICK b : b = Op(i).loads[n]
      OBVIOUS
    <3> QED
      BY <2>4, <2>5, <2>6, <3>1, <3>2, LastToBoth
  <2>9. Unstored(sq, k, a)
    <3>1. ASSUME NEW p \in SqIndex, Used(sq, p), sq[p].rob_index = k, StoreAddr(sq[p]) = a
          PROVE  p = q
      <4>1. PICK z \in 1 .. Stores(k) : z = sq[p].data_index /\ rob[k].sq_index[z] = p
        BY <1>1, <3>1 DEF StoreLinks
      <4>2. a = Op(k).stores[z]
        BY <3>1, <4>1 DEF StoreAddr
      <4>3. rob[k].id \in 1 .. Len(program)
        <5>1. rob[k].id \in 0 .. Len(program) /\ Len(program) \in Nat /\ rob[k].id # 0
          BY <2>1, IdBounds DEF Busy
        <5> QED
          BY <5>1 DEF CInv, Types
      <4>4. z = x
        BY <2>4, <2>7, <4>2, <4>3 DEF Uncrossed, Op
      <4> QED
        BY <2>2, <4>1, <4>4
    <3> QED
      BY <1>2, <3>1 DEF Unstored
  <2>10. PICK y : y = rob[i].lq_index[j]
    OBVIOUS
  <2>11. y \in LqIndex
    BY <1>1, <1>2, <2>5, <2>10 DEF Indices
  <2>12. Entry(lq[y], i, j)
    BY <1>1, <1>2, <2>4, <2>5, <2>8, <2>9, <2>10 DEF Held
  <2>13. Used(lq, y) /\ lq[y].rob_index = i /\ LoadAddr(lq[y]) = a
    BY <2>4, <2>5, <2>12, UsedIndex DEF Entry, Used, LoadAddr
  <2>14. PICK id : id = lq[y].producer_id
    OBVIOUS
  <2>15. Follows(rob, sq, i, a, id)
    BY <1>1, <2>5, <2>11, <2>13, <2>14 DEF LoadWaits
  <2>16. id = rob[k].id
    BY <2>8, <2>15 DEF Follows
  <2> QED
    BY <2>1, <2>10, <2>12, <2>14, <2>16 DEF Entry, StoreId
<1>3. ASSUME NEW q \in SqIndex, Used(sq, q), sq[q].fetched # "COMPLETED",
             NEW d \in Dependents(q)
      PROVE  LET y == LqOf(d)
             IN /\ lq[y].producer_id = StoreId(sq[q])
                /\ lq[y].rob_index = d[1] /\ lq[y].data_index = d[2]
  <2>1. PICK i \in rob[sq[q].rob_index].mem_depend_on_me :
          \E j \in DOMAIN rob[i].lq_index : /\ rob[i].lq_index[j] # NoIndex
                                            /\ Op(i).loads[j] = StoreAddr(sq[q])
                                            /\ d = <<i, j>>
    BY <1>3 DEF Dependents
  <2>2. PICK j \in DOMAIN rob[i].lq_index : /\ rob[i].lq_index[j] # NoIndex
                                            /\ Op(i).loads[j] = StoreAddr(sq[q])
                                            /\ d = <<i, j>>
    BY <2>1
  <2> QED
    BY <1>2, <1>3, <2>1, <2>2 DEF LqOf
<1> QED
  BY <1>3 DEF ForwardingMatches, Used

\* A step that leaves the instructions where they are keeps what was read, and
\* what it reads must be right.
LEMMA ValuesStep ==
  ASSUME SameOrder, memory' = memory, NEW r, NEW l, Values(r, l, memory), Gots(rob)',
         \A i \in RobIndex : \A j \in 1 .. Loads(i) : \A a, v :
           j \notin WaitingLoads(rob, lq, i)' /\ a = Op(i).loads[j] /\ v = rob'[i].got[j]
           => \/ j \notin WaitingLoads(r, l, i) /\ v = r[i].got[j]
              \/ Holds(memory, i, a, v)
  PROVE  Right'
<1>1. /\ \A i \in RobIndex : Op(i)' = Op(i) /\ Loads(i)' = Loads(i)
      /\ \A k, i \in RobIndex : \A a : LastStore(k, i, a)' <=> LastStore(k, i, a)
      /\ \A i \in RobIndex : \A a : StoresTo(i, a)' = StoresTo(i, a)
  BY SameProgram
<1>2. \A k \in RobIndex : rob'[k].id = rob[k].id
  BY DEF SameOrder, SameId
<1>3. ASSUME NEW i \in RobIndex, NEW j \in 1 .. Loads(i)', NEW a, NEW v,
             j \notin WaitingLoads(rob, lq, i)', a = Op(i)'.loads[j], v = rob'[i].got[j]
      PROVE  Holds(memory, i, a, v)'
  <2>1. j \in 1 .. Loads(i) /\ a = Op(i).loads[j]
    BY <1>1, <1>3
  <2>2. Holds(memory, i, a, v)
    BY <1>3, <2>1 DEF Values
  <2> QED
    BY <1>1, <1>2, <2>2 DEF Holds
<1> QED
  BY <1>3 DEF Right, Values

\* The loads that are done stay those.
LEMMA WaitingKept ==
  ASSUME SameOrder, Indices(rob), NEW i \in RobIndex, rob'[i].lq_index = rob[i].lq_index,
         \A q \in LqIndex : KeepsLoad(q)
  PROVE  WaitingLoads(rob, lq, i)' = WaitingLoads(rob, lq, i)
<1>1. Loads(i)' = Loads(i)
  BY SameProgram
<1>2. \A j \in 1 .. Loads(i) : rob[i].lq_index[j] # NoIndex => rob[i].lq_index[j] \in LqIndex
  BY DEF Indices
<1> QED
  BY <1>1, <1>2 DEF WaitingLoads, KeepsLoad

LEMMA OutsideRight ==
  ASSUME Indices(rob), Right, SameOrder, memory' = memory, \A q \in LqIndex : KeepsLoad(q),
         \A k \in RobIndex : /\ rob'[k].lq_index = rob[k].lq_index
                             /\ rob'[k].got = rob[k].got
  PROVE  Right'
<1>1. \A i \in RobIndex : WaitingLoads(rob, lq, i)' = WaitingLoads(rob, lq, i)
  BY WaitingKept
<1>2. Gots(rob)'
  <2>1. \A k \in RobIndex : Loads(k)' = Loads(k)
    BY SameProgram
  <2> QED
    BY <2>1 DEF Right, Gots
<1>3. Values(rob, lq, memory)
  BY DEF Right
<1> QED
  BY <1>1, <1>2, <1>3, ValuesStep

\* The loads of the queue entries F are done: they are in D, and v is right for
\* all that are in D.
LEMMA DoneRight ==
  ASSUME CInv, MInv, Right, NEW C, NEW D, NEW v, NEW F, Without(C, D, v),
         UNCHANGED <<program, head, memory>>,
         \A p \in LqIndex : p \notin F => lq'[p] = lq[p],
         \A p \in F : <<lq[p].rob_index, lq[p].data_index>> \in D,
         \A i \in RobIndex : \A j \in 1 .. Loads(i) : \A a :
           <<i, j>> \in D /\ a = Op(i).loads[j] => Holds(memory, i, a, v)
  PROVE  Right'
<1>1. /\ SameOrder
      /\ \A k \in RobIndex :
           /\ SameQueues(rob'[k], rob[k])
           /\ rob'[k].got = GotOf(rob[k].got, k, D, v)
           /\ Loads(k)' = Loads(k)
  BY DoneRob
<1>2. Indices(rob) /\ Gots(rob) /\ Values(rob, lq, memory)
  BY DEF MInv, MemTypes, Right
<1>3. \A k \in RobIndex :
        /\ Tuple(rob'[k].got, Loads(k)')
        /\ \A j \in 1 .. Loads(k) :
             rob'[k].got[j] = IF <<k, j>> \in D THEN v ELSE rob[k].got[j]
  <2>1. ASSUME NEW k \in RobIndex
        PROVE  /\ Tuple(rob'[k].got, Loads(k)')
               /\ \A j \in 1 .. Loads(k) :
                    rob'[k].got[j] = IF <<k, j>> \in D THEN v ELSE rob[k].got[j]
    <3>1. PICK g, h, n : g = rob[k].got /\ h = rob'[k].got /\ n = Loads(k)
      OBVIOUS
    <3>2. Tuple(g, n) /\ h = GotOf(g, k, D, v) /\ Loads(k)' = n
      BY <1>1, <1>2, <3>1 DEF Gots
    <3>3. /\ Tuple(h, n)
          /\ \A j \in 1 .. n : h[j] = IF <<k, j>> \in D THEN v ELSE g[j]
      BY <3>2, GotIs
    <3> QED
      BY <3>1, <3>2, <3>3
  <2> QED
    BY <2>1
<1>4. Gots(rob)'
  BY <1>3 DEF Gots
<1>5. ASSUME NEW i \in RobIndex, NEW j \in 1 .. Loads(i), NEW a, NEW w,
             j \notin WaitingLoads(rob, lq, i)', a = Op(i).loads[j], w = rob'[i].got[j]
      PROVE  \/ j \notin WaitingLoads(rob, lq, i) /\ w = rob[i].got[j]
             \/ Holds(memory, i, a, w)
  <2>1. CASE <<i, j>> \in D
    BY <1>3, <1>5, <2>1
  <2>2. CASE <<i, j>> \notin D
    <3>1. w = rob[i].got[j]
      BY <1>3, <1>5, <2>2
    <3>2. j \notin WaitingLoads(rob, lq, i)
      <4>1. PICK p : p = rob[i].lq_index[j]
        OBVIOUS
      <4>2. rob'[i].lq_index[j] = p /\ Loads(i)' = Loads(i)
        BY <1>1, <4>1 DEF SameQueues
      <4>3. p # NoIndex /\ ~(lq'[p].rob_index = i /\ lq'[p].data_index = j)
        BY <1>5, <4>2 DEF WaitingLoads
      <4>4. p \in LqIndex
        BY <1>2, <4>1, <4>3 DEF Indices
      <4>5. ~(lq[p].rob_index = i /\ lq[p].data_index = j)
        BY <2>2, <4>3, <4>4
      <4> QED
        BY <4>1, <4>3, <4>5 DEF WaitingLoads
    <3> QED
      BY <3>1, <3>2
  <2> QED
    BY <2>1, <2>2
<1> QED
  BY <1>1, <1>2, <1>4, <1>5, ValuesStep

LEMMA LoadDoneRight ==
  ASSUME CInv, MInv, Right, NEW q \in LqIndex, LoadDone(q)
  PROVE  Right'
<1>1. PICK d : d = <<lq[q].rob_index, lq[q].data_index>>
  OBVIOUS
<1>2. PICK b : b = LoadAddr(lq[q])
  OBVIOUS
<1>3. PICK v : v = memory[b]
  OBVIOUS
<1>4. /\ lq[q].fetched = "INFLIGHT"
      /\ Without({d}, {d}, v)
      /\ lq' = [lq EXCEPT ![q] = EmptyLsq]
      /\ UNCHANGED <<program, head, memory>>
  BY <1>1, <1>2, <1>3 DEF LoadDone, Without, history
<1>5. lq \in [LqIndex -> LsqType(LqIndex)] /\ LoadLinks(rob, lq)
  BY DEF MInv, MemTypes, LoadSide
<1>6. Used(lq, q)
  BY <1>4 DEF Used, EmptyLsq
<1>7. \A p \in LqIndex : p \notin {q} => lq'[p] = lq[p]
  BY <1>4, <1>5
<1>8. ASSUME NEW i \in RobIndex, NEW j \in 1 .. Loads(i), NEW a,
             <<i, j>> \in {d}, a = Op(i).loads[j]
      PROVE  Holds(memory, i, a, v)
  <2>1. i = lq[q].rob_index /\ j = lq[q].data_index
    BY <1>1, <1>8
  <2>2. a = b
    BY <1>2, <1>8, <2>1 DEF LoadAddr
  <2>3. \A k \in RobIndex : ~LastStore(k, i, a)
    BY <1>2, <1>4, <1>6, <2>1, <2>2, LoadAlone
  <2> QED
    BY <1>3, <2>2, <2>3 DEF Holds
<1>9. PICK D, F : D = {d} /\ F = {q}
  OBVIOUS
<1>10. \A p \in F : <<lq[p].rob_index, lq[p].data_index>> \in D
  BY <1>1, <1>9
<1>11. /\ Without(D, D, v)
       /\ \A p \in LqIndex : p \notin F => lq'[p] = lq[p]
       /\ \A i \in RobIndex : \A j \in 1 .. Loads(i) : \A a :
            <<i, j>> \in D /\ a = Op(i).loads[j] => Holds(memory, i, a, v)
  BY <1>4, <1>7, <1>8, <1>9
<1> QED
  BY <1>4, <1>10, <1>11, DoneRight

LEMMA ExecuteStoreRight ==
  ASSUME CInv, MInv, Right, ExecuteStore
  PROVE  Right'
<1>q. PICK q : q = Head(rts[2])
  OBVIOUS
<1>k. PICK k : k = sq[q].rob_index
  OBVIOUS
<1>D. PICK D : D = Dependents(q)
  OBVIOUS
<1>E. PICK E : E = Forwarded(q)
  OBVIOUS
<1>v. PICK v : v = StoreId(sq[q])
  OBVIOUS
<1>F. PICK F : F = {l \in LqIndex : \E d \in D : LqOf(d) = l}
  OBVIOUS
<1>1. /\ rts[2] # <<>> /\ Matched(q)
      /\ Without(E \cup {<<k, 0>>}, E, v)
      /\ lq' = [l \in LqIndex |-> IF \E d \in D : LqOf(d) = l THEN EmptyLsq ELSE lq[l]]
      /\ UNCHANGED <<program, head, memory>>
  BY <1>q, <1>k, <1>D, <1>E, <1>v DEF ExecuteStore, Without, history
<1>2. /\ LoadWaits(rob, lq, sq) /\ StoreLinks(rob, sq) /\ Indices(rob)
      /\ rts[2] \in Seq(SqIndex) /\ Enumerates(rts[2], Reading(sq, SqIndex))
  BY DEF MInv, MemTypes, LoadSide, StoreSide
<1>3. q \in Reading(sq, SqIndex) /\ q \in SqIndex
  BY <1>1, <1>2, <1>q, EnumTail
<1>4. Used(sq, q) /\ k \in RobIndex /\ Busy(k)
  BY <1>2, <1>3, <1>k DEF Reading, StoreLinks
<1>5. ASSUME NEW d \in D
      PROVE  LqOf(d) \in LqIndex /\ lq[LqOf(d)].producer_id = v
  <2>1. PICK i \in rob[k].mem_depend_on_me :
          \E j \in DOMAIN rob[i].lq_index : d = <<i, j>> /\ rob[i].lq_index[j] # NoIndex
    BY <1>5, <1>D, <1>k DEF Dependents
  <2>2. PICK j \in DOMAIN rob[i].lq_index : d = <<i, j>> /\ rob[i].lq_index[j] # NoIndex
    BY <2>1
  <2>3. i \in RobIndex
    BY <1>2, <1>4 DEF Indices
  <2>4. rob[i].lq_index[j] \in LqIndex
    BY <1>2, <2>2, <2>3 DEF Indices
  <2>5. LqOf(d) \in LqIndex
    BY <2>2, <2>4 DEF LqOf
  <2>6. lq[LqOf(d)].producer_id = v
    BY <1>1, <1>5, <1>D, <1>v DEF Matched
  <2> QED
    BY <2>5, <2>6
<1>6. \A p \in LqIndex : p \notin F => lq'[p] = lq[p]
  BY <1>1, <1>F
<1>7. \A p \in F : <<lq[p].rob_index, lq[p].data_index>> \in E
  BY <1>D, <1>E, <1>F DEF Forwarded
<1>8. ASSUME NEW i \in RobIndex, NEW j \in 1 .. Loads(i), NEW a,
             <<i, j>> \in E, a = Op(i).loads[j]
      PROVE  Holds(memory, i, a, v)
  <2>1. PICK d \in D : <<i, j>> = <<lq[LqOf(d)].rob_index, lq[LqOf(d)].data_index>>
    BY <1>8, <1>D, <1>E DEF Forwarded
  <2>2. PICK p : p = LqOf(d)
    OBVIOUS
  <2>3. p \in LqIndex /\ lq[p].producer_id = v /\ lq[p].rob_index = i /\ lq[p].data_index = j
    BY <1>5, <2>1, <2>2
  <2>4. Used(lq, p) /\ a = LoadAddr(lq[p])
    BY <1>8, <2>3, UsedIndex DEF Used, LoadAddr
  <2>5. Follows(rob, sq, i, a, v)
    BY <1>2, <2>3, <2>4 DEF LoadWaits
  <2>6. v # NoProducer
    BY <1>4, <1>k, <1>v DEF StoreId, Busy, NoProducer
  <2> QED
    BY <2>5, <2>6 DEF Follows, Holds
<1> QED
  BY <1>1, <1>6, <1>7, <1>8, DoneRight

LEMMA ScheduleMemoryRight ==
  ASSUME CInv, MInv, Right, NEW i \in RobIndex, ScheduleMemory(i)
  PROVE  Right'
<1>1. PICK L : L = AddLoads(i)
  OBVIOUS
<1>2. PICK r, l : r = L.rob /\ l = L.lq
  OBVIOUS
<1>3. /\ SameOrder /\ memory' = memory /\ lq' = l
      /\ \A k \in RobIndex : rob'[k].lq_index = r[k].lq_index /\ rob'[k].got = r[k].got
      /\ RightIn(L)
  BY <1>1, <1>2, ScheduledQueues
<1>4. Gots(r) /\ Values(r, l, memory)
  BY <1>2, <1>3 DEF RightIn
<1>5. \A k \in RobIndex : Loads(k)' = Loads(k)
  BY <1>3, SameProgram
<1>6. Gots(rob)'
  BY <1>3, <1>4, <1>5 DEF Gots
<1>7. \A k \in RobIndex : WaitingLoads(rob, lq, k)' = WaitingLoads(r, l, k)
  BY <1>3, <1>5 DEF WaitingLoads
<1> QED
  BY <1>3, <1>4, <1>6, <1>7, ValuesStep

LEMMA InitRight ==
  ASSUME Init
  PROVE  Right
<1>1. \A k \in RobIndex : rob[k].got = <<>> /\ Loads(k) = 0
  BY DEF Init, EmptyInstr, Loads, Busy
<1>2. Tuple(<<>>, 0)
  <2>1. <<>> \in [1 .. 0 -> {}]
    BY EmptyOn
  <2> QED
    BY <2>1 DEF Tuple
<1>3. Gots(rob)
  BY <1>1, <1>2 DEF Gots
<1>4. Values(rob, lq, memory)
  <2>1. \A k \in RobIndex : 1 .. Loads(k) = {}
    BY <1>1
  <2> QED
    BY <2>1 DEF Values
<1> QED
  BY <1>3, <1>4 DEF Right

LEMMA BranchRight ==
  ASSUME CInv, MInv, Right, HandleBranch
  PROVE  Right'
<1>1. /\ tail \in RobIndex /\ ~Busy(tail)
      /\ \A k \in RobIndex : k # tail => rob'[k] = rob[k]
  BY BranchFacts
<1>2. UNCHANGED <<program, head, lq, memory>>
  BY DEF HandleBranch, history
<1>3. PICK h : h = tail
  OBVIOUS
<1>4. /\ \A k \in RobIndex : k # h => /\ Op(k)' = Op(k) /\ Loads(k)' = Loads(k)
                                      /\ rob'[k] = rob[k]
      /\ h \in RobIndex
  BY <1>1, <1>2, <1>3 DEF Busy, Op, Loads
<1>5. /\ \A j \in 1 .. Loads(h)' : rob'[h].lq_index[j] = NoIndex
      /\ Tuple(rob'[h].got, Loads(h)')
  <2>1. PICK miss \in BOOLEAN : rob'[tail] = Decoded(instr_unique_id, miss)
    BY BranchFacts
  <2>2. PICK id : id = instr_unique_id
    OBVIOUS
  <2>3. PICK r : r = Decoded(id, miss)
    OBVIOUS
  <2>4. /\ r.lq_index = [j \in DOMAIN program[id].loads |-> NoIndex]
        /\ r.got = [j \in DOMAIN program[id].loads |-> NoValue]
    BY <2>3, DecodedQueues
  <2>5. r.id = id
    BY <2>3, DecodedFields
  <2>6. rob'[h] = r
    BY <1>3, <2>1, <2>2, <2>3
  <2>7. program[id] \in Instr /\ id \in Nat /\ id # 0
    BY <2>2, BranchFacts
  <2>8. DOMAIN program[id].loads = 1 .. Len(program[id].loads)
    BY <2>7, LenProperties DEF Instr
  <2>9. PICK n : n = Len(program[id].loads)
    OBVIOUS
  <2>10. Loads(h)' = n
    BY <1>2, <2>5, <2>6, <2>7, <2>9 DEF Loads, Busy, Op
  <2>11. PICK g : g = r.got
    OBVIOUS
  <2>12. g = [j \in 1 .. n |-> NoValue]
    BY <2>4, <2>8, <2>9, <2>11
  <2>13. Tuple(g, n)
    BY <2>12 DEF Tuple
  <2>14. \A j \in 1 .. n : r.lq_index[j] = NoIndex
    BY <2>4, <2>8, <2>9
  <2> QED
    BY <2>6, <2>10, <2>11, <2>13, <2>14
<1>6. Gots(rob) /\ Values(rob, lq, memory)
  BY DEF Right
<1>7. Gots(rob)'
  BY <1>4, <1>5, <1>6 DEF Gots
<1>8. ASSUME NEW i \in RobIndex, NEW j \in 1 .. Loads(i)', NEW a, NEW v,
             j \notin WaitingLoads(rob, lq, i)', a = Op(i)'.loads[j], v = rob'[i].got[j]
      PROVE  Holds(memory, i, a, v)'
  <2>1. i # h
    BY <1>5, <1>8 DEF WaitingLoads
  <2>2. j \in 1 .. Loads(i) /\ a = Op(i).loads[j] /\ v = rob[i].got[j]
    BY <1>4, <1>8, <2>1
  <2>3. j \notin WaitingLoads(rob, lq, i)
    BY <1>2, <1>4, <1>8, <2>1, <2>2 DEF WaitingLoads
  <2>4. Busy(i)
    <3>1. Loads(i) # 0
      BY <2>2
    <3> QED
      BY <3>1 DEF Loads
  <2>5. Holds(memory, i, a, v)
    BY <1>6, <2>2, <2>3 DEF Values
  <2>6. /\ StoresTo(i, a)' = StoresTo(i, a) /\ h \notin StoresTo(i, a)
        /\ \A k \in RobIndex : LastStore(k, i, a)' <=> LastStore(k, i, a)
    BY <1>3, <2>4, BranchStores
  <2>7. \A k \in RobIndex : LastStore(k, i, a) => rob'[k].id = rob[k].id
    BY <1>4, <2>6 DEF LastStore
  <2> QED
    BY <1>2, <2>5, <2>6, <2>7 DEF Holds
<1> QED
  BY <1>7, <1>8 DEF Right, Values

LEMMA RetireRight ==
  ASSUME CInv, MInv, Right, Retire
  PROVE  Right'
<1>1. PICK h : h = head
  OBVIOUS
<1>2. h \in RobIndex
  BY <1>1 DEF CInv, Types
<1>3. /\ \A k \in RobIndex : k # h => rob'[k] = rob[k] /\ Op(k)' = Op(k) /\ Loads(k)' = Loads(k)
      /\ rob'[h] = EmptyInstr /\ Loads(h)' = 0
  BY <1>1, <1>2, RetireRob
<1>4. /\ memory' = [a \in Addr |-> IF Writes(h, a) THEN rob[h].id ELSE memory[a]]
      /\ lq' = lq
  BY <1>1 DEF Retire
<1>5. Gots(rob) /\ Values(rob, lq, memory)
  BY DEF Right
<1>6. Gots(rob)'
  <2>1. <<>> \in [1 .. 0 -> {}]
    BY EmptyOn
  <2>2. Tuple(<<>>, 0) /\ EmptyInstr.got = <<>>
    BY <2>1 DEF Tuple, EmptyInstr
  <2> QED
    BY <1>3, <1>5, <2>2 DEF Gots
<1>7. ASSUME NEW i \in RobIndex, NEW j \in 1 .. Loads(i)', NEW a, NEW v,
             j \notin WaitingLoads(rob, lq, i)', a = Op(i)'.loads[j], v = rob'[i].got[j]
      PROVE  Holds(memory, i, a, v)'
  <2>1. i # h
    BY <1>3, <1>7
  <2>2. j \in 1 .. Loads(i) /\ a = Op(i).loads[j] /\ v = rob[i].got[j]
    BY <1>3, <1>7, <2>1
  <2>3. j \notin WaitingLoads(rob, lq, i)
    BY <1>3, <1>4, <1>7, <2>1, <2>2 DEF WaitingLoads
  <2>4. a \in Addr
    <3>1. Busy(i)
      <4>1. Loads(i) # 0
        BY <2>2
      <4> QED
        BY <4>1 DEF Loads
    <3>2. Loads(i) = Len(Op(i).loads) /\ Op(i).loads \in Seq(Addr)
      BY <3>1, OpTypes
    <3> QED
      BY <2>2, <3>2
  <2>5. Holds(memory, i, a, v)
    BY <1>5, <2>2, <2>3 DEF Values
  <2>6. /\ StoresTo(i, a)' = StoresTo(i, a) \ {h}
        /\ \A k \in RobIndex : LastStore(k, i, a)' <=> k # h /\ LastStore(k, i, a)
        /\ Age(h) < Age(i)
    BY <1>1, <1>2, <2>1, RetireStores
  <2>7. Writes(h, a) <=> h \in StoresTo(i, a)
    BY <1>2, <2>6 DEF StoresTo, Older
  <2>8. memory'[a] = IF h \in StoresTo(i, a) THEN rob[h].id ELSE memory[a]
    BY <1>4, <2>4, <2>7
  <2>9. \A k \in RobIndex : LastStore(k, i, a)' => v = rob'[k].id
    BY <1>3, <2>5, <2>6 DEF Holds
  <2>10. ASSUME StoresTo(i, a)' = {}
         PROVE  v = memory'[a]
    <3>1. CASE h \notin StoresTo(i, a)
      BY <2>5, <2>6, <2>8, <2>10, <3>1 DEF Holds
    <3>2. CASE h \in StoresTo(i, a)
      <4>1. StoresTo(i, a) = {h}
        BY <2>6, <2>10, <3>2
      <4>2. Age(h) <= Age(h)
        <5>1. Age(h) \in Nat
          BY <1>2, AgeValue DEF CInv, Types
        <5> QED
          BY <5>1
      <4>3. LastStore(h, i, a)
        BY <4>1, <4>2 DEF LastStore
      <4> QED
        BY <1>2, <2>5, <2>8, <3>2, <4>3 DEF Holds
    <3> QED
      BY <3>1, <3>2
  <2> QED
    BY <2>9, <2>10 DEF Holds
<1> QED
  BY <1>6, <1>7 DEF Right, Values

LEMMA NextRight ==
  ASSUME CInv, MInv, Right, [Next]_vars
  PROVE  Right'
<1>0. Indices(rob)
  BY DEF MInv, MemTypes
<1>1. CASE \/ Translate \/ Fetch \/ Schedule
           \/ \E i \in RobIndex :
                CompleteTranslation(i) \/ CompleteFetch(i) \/ CompleteExecution(i)
           \/ \E n \in 1 .. 2 : Execute(n)
  <2>1. memory' = memory
    BY <1>1 DEF Translate, Fetch, Schedule, CompleteTranslation, CompleteFetch,
                CompleteExecution, Execute, history
  <2>2. /\ SameOrder /\ lq' = lq
        /\ \A k \in RobIndex : SameQueues(rob'[k], rob[k]) /\ SameOps(rob'[k], rob[k])
    BY <1>1, OutsideQueues
  <2>3. \A k \in RobIndex : rob'[k].lq_index = rob[k].lq_index /\ rob'[k].got = rob[k].got
    BY <2>2 DEF SameQueues, SameOps
  <2>4. \A q \in LqIndex : KeepsLoad(q)
    BY <2>2 DEF KeepsLoad
  <2> QED
    BY <1>0, <2>1, <2>2, <2>3, <2>4, OutsideRight
<1>2. CASE \/ TranslateStore \/ TranslateLoad \/ ExecuteLoad
           \/ \E q \in SqIndex : StoreTranslated(q)
           \/ \E q \in LqIndex : LoadTranslated(q)
  <2>1. rob' = rob /\ memory' = memory
    BY <1>2 DEF TranslateStore, TranslateLoad, ExecuteLoad, StoreTranslated, LoadTranslated,
                history
  <2>2. SameOrder /\ \A q \in LqIndex : KeepsLoad(q)
    BY <1>2, <2>1, WithinQueues
  <2> QED
    BY <1>0, <2>1, <2>2, OutsideRight
<1>3. CASE HandleBranch \/ Retire \/ ExecuteStore
  BY <1>3, BranchRight, RetireRight, ExecuteStoreRight
<1>4. ASSUME NEW i \in RobIndex, ScheduleMemory(i)
      PROVE  Right'
  BY <1>4, ScheduleMemoryRight
<1>5. ASSUME NEW q \in LqIndex, LoadDone(q)
      PROVE  Right'
  BY <1>5, LoadDoneRight
<1>6. CASE UNCHANGED vars
  <2>1. UNCHANGED <<program, head, rob, lq, memory>>
    BY <1>6 DEF vars, history
  <2>2. SameOrder /\ \A q \in LqIndex : KeepsLoad(q)
    BY <2>1 DEF SameOrder, SameId, KeepsLoad
  <2> QED
    BY <1>0, <2>1, <2>2, OutsideRight
<1> QED
  BY <1>1, <1>2, <1>3, <1>4, <1>5, <1>6 DEF Next

\* A retirement is a step of the in-order machine.
LEMMA RetireExecutes ==
  ASSUME CInv, MInv, Right, Retire
  PROVE  Machine!Execute
<1>1. PICK h : h = head
  OBVIOUS
<1>2. h \in RobIndex /\ Busy(h) /\ rob[h].executed = "COMPLETED"
  BY <1>1 DEF Retire, CInv, Types
<1>3. PICK n : n = Len(seen) + 1
  OBVIOUS
<1>4. rob[h].id = n
  BY <1>1, <1>2, <1>3 DEF MInv, History
<1>5. n \in 1 .. Len(program) /\ Len(program) \in Nat
  <2>1. rob[h].id \in 0 .. Len(program) /\ Len(program) \in Nat /\ rob[h].id # 0
    BY <1>2, IdBounds DEF Busy
  <2> QED
    BY <1>4, <2>1
<1>6. Len(seen) < Len(program)
  <2>1. Len(seen) \in Nat
    BY LenProperties DEF MInv, History
  <2> QED
    BY <1>3, <1>5, <2>1
<1>7. PICK op : op = program[n]
  OBVIOUS
<1>8. /\ Op(h) = op /\ Loads(h) = Len(op.loads)
      /\ DOMAIN op.loads = 1 .. Loads(h) /\ DOMAIN op.stores = 1 .. Stores(h)
      /\ op.loads \in Seq(Addr)
  <2>1. Op(h) = op
    BY <1>4, <1>7 DEF Op
  <2> QED
    BY <1>2, <2>1, OpTypes DEF Loads, Stores
<1>9. WaitingLoads(rob, lq, h) = {}
  BY <1>2, HeadWaits
<1>10. \A a : StoresTo(h, a) = {}
  <2>1. \A k \in RobIndex : Age(k) \in 0 .. RobSize - 1 /\ (k # h <=> Age(k) # 0)
    BY <1>1, <1>2, RetireRob
  <2>2. \A k \in RobIndex : ~(Age(k) < Age(h))
    BY <1>2, <2>1, CoreSizes
  <2> QED
    BY <2>2 DEF StoresTo, Older
<1>11. rob[h].got = [j \in DOMAIN op.loads |-> memory[op.loads[j]]]
  <2>1. PICK g, m : g = rob[h].got /\ m = Loads(h)
    OBVIOUS
  <2>2. g = [j \in 1 .. m |-> g[j]]
    BY <1>2, <2>1 DEF Right, Gots, Tuple
  <2>3. \A j \in 1 .. m : g[j] = memory[op.loads[j]]
    <3>1. ASSUME NEW j \in 1 .. m
          PROVE  g[j] = memory[op.loads[j]]
      <4>1. PICK a, v : a = Op(h).loads[j] /\ v = g[j]
        OBVIOUS
      <4>2. Holds(memory, h, a, v)
        BY <1>2, <1>9, <2>1, <3>1, <4>1 DEF Right, Values
      <4>3. v = memory[a]
        BY <1>10, <4>2 DEF Holds
      <4> QED
        BY <1>8, <4>1, <4>3
    <3> QED
      BY <3>1
  <2>4. DOMAIN op.loads = 1 .. m
    BY <1>8, <2>1
  <2>5. g = [j \in DOMAIN op.loads |-> memory[op.loads[j]]]
    BY <2>2, <2>3, <2>4
  <2> QED
    BY <2>1, <2>5
<1>12. seen' = Append(seen, [j \in DOMAIN program[n].loads |-> memory[program[n].loads[j]]])
  BY <1>1, <1>7, <1>11 DEF Retire
<1>13. memory' = [a \in Addr |->
                   IF \E k \in DOMAIN program[n].stores : program[n].stores[k] = a
                   THEN n ELSE memory[a]]
  <2>1. \A a : Writes(h, a) <=> \E k \in DOMAIN program[n].stores : program[n].stores[k] = a
    BY <1>7, <1>8 DEF Writes
  <2> QED
    BY <1>1, <1>4, <2>1 DEF Retire
<1>14. program' = program
  BY DEF Retire
<1> QED
  BY <1>3, <1>6, <1>12, <1>13, <1>14 DEF Machine!Execute

LEMMA NextExecutes ==
  ASSUME CInv, MInv, Right, [Next]_vars
  PROVE  [Machine!Execute]_(Machine!vars)
<1>1. CASE Retire
  BY <1>1, RetireExecutes
<1>2. CASE [Next]_vars /\ ~Retire
  <2>1. UNCHANGED <<program, memory, seen>>
    BY <1>2 DEF Next, vars, HandleBranch, Translate, Fetch, CompleteTranslation,
                CompleteFetch, Schedule, Execute, CompleteExecution, ScheduleMemory,
                TranslateStore, TranslateLoad, ExecuteLoad, ExecuteStore, StoreTranslated,
                LoadTranslated, LoadDone, history
  <2> QED
    BY <2>1 DEF Machine!vars
<1> QED
  BY <1>1, <1>2

-----------------------------------------------------------------------------
(* The theorems.                                                           *)

LEMMA ProgramKept ==
  ASSUME [Next]_vars
  PROVE  program' = program
  BY DEF Next, vars, HandleBranch, Translate, Fetch, CompleteTranslation, CompleteFetch,
         Schedule, Execute, CompleteExecution, ScheduleMemory, TranslateStore, TranslateLoad,
         ExecuteLoad, ExecuteStore, StoreTranslated, LoadTranslated, LoadDone, Retire

LEMMA QueuesKept == Spec => [](CInv /\ MInv)
<1>1. Init => CInv /\ MInv
  BY CInvInit, MInvInit
<1>2. CInv /\ MInv /\ [Next]_vars => CInv' /\ MInv'
  BY CInvNext, MInvNext
<1> QED
  BY <1>1, <1>2, PTL DEF Spec

\* Types, for every size of the ROB and of the queues and every trace: no index
\* leaves its array and no counter becomes negative.
THEOREM CoreTypes == Spec => []TypeOK
<1>1. CInv /\ MInv => TypeOK
  BY TypesHold
<1> QED
  BY <1>1, QueuesKept, PTL

\* Every instruction ready to execute and every queue entry stands in exactly
\* one ready list or waits for exactly one answer, so no entry is lost, sent
\* twice or kept in RTE0, RTE1, RTL0, RTL1, RTS0 or RTS1 after its release.
THEOREM EveryEntryInOnePlace == Spec => []InOnePlace
<1>1. CInv /\ MInv => InOnePlace
  BY PlacesHold
<1> QED
  BY <1>1, QueuesKept, PTL

\* num_mem_ops counts the operations of an instruction that are not done, and
\* the two inflight counters the instructions that complete_execution must still
\* visit: no increment or decrement is lost between the functions that do them.
THEOREM CountersAreExact == Spec => []CountersMatch
<1>1. CInv /\ MInv => CountersMatch
  BY CountersHold
<1> QED
  BY <1>1, QueuesKept, PTL

\* What add_load_queue and add_store_queue record about each other, in an
\* uncrossed trace.
LEMMA TrackedKept == Spec => [](CInv /\ MInv /\ (Uncrossed(program) => Tracked))
<1>1. Init => CInv /\ MInv /\ (Uncrossed(program) => Tracked)
  BY CInvInit, MInvInit, TrackInit
<1>2. ASSUME CInv, MInv, Uncrossed(program) => Tracked, [Next]_vars
      PROVE  CInv' /\ MInv' /\ (Uncrossed(program) => Tracked)'
  <2>1. Uncrossed(program)' => Uncrossed(program)
    <3>1. program' = program
      BY <1>2, ProgramKept
    <3> QED
      BY <3>1
  <2>2. ASSUME Uncrossed(program)
        PROVE  Tracked'
    BY <1>2, <2>2, Matches, TrackNext
  <2> QED
    BY <1>2, <2>1, <2>2, CInvNext, MInvNext
<1> QED
  BY <1>1, <1>2, PTL DEF Spec

\* A load in the LQ waits for the youngest older store to its address, which
\* knows of it and has not executed, and for no other (add_load_queue).  In a
\* trace without crossed stores the assertion of execute_store never fails: a
\* store completes the loads that wait for it and nothing else.
THEOREM LoadsMeetStores == Spec => []LoadsMeetTheirStores
<1>1. CInv /\ MInv /\ (Uncrossed(program) => Tracked) => LoadsMeetTheirStores
  BY Matches, LoadsWait DEF LoadsMeetTheirStores
<1> QED
  BY <1>1, TrackedKept, PTL

LEMMA RightKept == Spec => [](CInv /\ MInv /\ Right)
<1>1. Init => CInv /\ MInv /\ Right
  BY CInvInit, MInvInit, InitRight
<1>2. CInv /\ MInv /\ Right /\ [Next]_vars => CInv' /\ MInv' /\ Right'
  BY CInvNext, MInvNext, NextRight
<1> QED
  BY <1>1, <1>2, PTL DEF Spec

\* The core implements the in-order machine: every load reads what the last
\* older store to its address wrote, whether add_load_queue forwarded it,
\* execute_store completed it or the L1D answered it before or after that store
\* retired, and instructions retire in the order of the trace.
THEOREM CoreRunsInOrder == Spec => RunsInOrder
<1>1. Init => Machine!Init
  BY DEF Init, Machine!Init
<1>2. CInv /\ MInv /\ Right /\ [Next]_vars => [Machine!Execute]_(Machine!vars)
  BY NextExecutes
<1> QED
  BY <1>1, <1>2, RightKept, PTL DEF Spec, RunsInOrder, Machine!Spec
=============================================================================
