------------------------ MODULE DramController_proofs ------------------------
(***************************************************************************)
(* Theorems about DramController for any number of banks and rows, any     *)
(* queue sizes and any addresses: the banks, the counters, the cached      *)
(* indices and the queues agree through every cycle and mode switch, and   *)
(* the controller implements MemoryPort.                                   *)
(***************************************************************************)
EXTENDS DramController, FiniteSetTheorems, SequenceTheorems, TLAPS

Kind(w) == IF w THEN "write" ELSE "read"
Size(w) == IF w THEN WqSize ELSE RqSize
Count(d, w) == IF w THEN d.writes ELSE d.reads

BankType == [Banks -> [request: Int, kind: {"idle", "read", "write"},
                       row: Rows \cup {NoRow}]]
DType == [rq: QueueType(RqSize), wq: QueueType(WqSize), bank: BankType,
          mode: BOOLEAN, reads: Nat, writes: Nat, waiting: SUBSET Addr]

\* The cached indices of one queue.
Fresh(q) ==
  /\ q.unscheduled = (Unscheduled(q) # {})
  /\ q.next = IF q.order = <<>> THEN NoSlot ELSE Head(q.order)

\* What is scheduled is in the queue, once; a block is in the queue once.
Distinct(q) ==
  /\ Scheduled(q) \subseteq Used(q)
  /\ \A j, k \in DOMAIN q.order : q.order[j] = q.order[k] => j = k
  /\ \A i, j \in Used(q) : q.entry[i] = q.entry[j] => i = j

\* The banks at work and the scheduled requests of q are in bijection.
Serves(bnk, q, w) ==
  /\ \A i \in Scheduled(q) : LET b == bnk[Bank[q.entry[i]]] IN
       b.request = i /\ b.kind = Kind(w)
  /\ \A b \in Banks : bnk[b].kind # "idle" =>
       \E i \in Scheduled(q) : Bank[q.entry[i]] = b

\* The inductive invariant, of a controller d between two of its steps.
DInv(d) ==
  /\ d \in DType
  /\ \A w \in BOOLEAN : /\ Distinct(Queue(d, w)) /\ Fresh(Queue(d, w))
                        /\ Count(d, w) = Cardinality(Scheduled(Queue(d, w)))
  /\ Serves(d.bank, Queue(d, d.mode), d.mode)
  /\ Queue(d, ~d.mode).order = <<>>
  /\ d.waiting = Blocks(d.rq)

IInv == DInv(State) /\ warm \in BOOLEAN
-----------------------------------------------------------------------------
(* One queue. *)

LEMMA QueueFields ==
  ASSUME NEW size \in Nat, NEW q \in QueueType(size)
  PROVE  /\ q.entry \in [Slots(size) -> Addr \cup {Free}]
         /\ q.order \in Seq(Slots(size))
         /\ q.unscheduled \in BOOLEAN
         /\ q.next \in Slots(size) \cup {NoSlot}
         /\ DOMAIN q.entry = Slots(size)
         /\ Used(q) \subseteq Slots(size)
         /\ Len(q.order) \in Nat
         /\ DOMAIN q.order = 1..Len(q.order)
         /\ Scheduled(q) \subseteq Slots(size)
<1>1. q.order \in Seq(Slots(size)) /\ q.entry \in [Slots(size) -> Addr \cup {Free}]
  BY DEF QueueType
<1>2. Len(q.order) \in Nat /\ DOMAIN q.order = 1..Len(q.order)
  BY <1>1, LenProperties
<1>3. \A i \in 1..Len(q.order) : q.order[i] \in Slots(size)
  BY <1>1, ElementOfSeq
<1> QED
  BY <1>1, <1>2, <1>3 DEF QueueType, Used, Scheduled

\* Refreshing the cached indices changes nothing else.
LEMMA Refreshed ==
  ASSUME NEW size \in Nat, NEW q \in QueueType(size)
  PROVE  LET r == UpdateProcess(UpdateSchedule(q)) IN
         /\ r \in QueueType(size) /\ Fresh(r)
         /\ r.entry = q.entry /\ r.order = q.order
         /\ Used(r) = Used(q) /\ Scheduled(r) = Scheduled(q) /\ Blocks(r) = Blocks(q)
<1> DEFINE s == UpdateSchedule(q)
           r == UpdateProcess(s)
<1>1. s \in QueueType(size) /\ s.entry = q.entry /\ s.order = q.order
      /\ s.unscheduled = (Unscheduled(q) # {})
  BY DEF QueueType, UpdateSchedule
<1>2. q.order # <<>> => Head(q.order) \in Slots(size)
  BY QueueFields, HeadTailProperties
<1>3. /\ r \in QueueType(size) /\ r.entry = q.entry /\ r.order = q.order
      /\ r.unscheduled = (Unscheduled(q) # {})
      /\ r.next = IF q.order = <<>> THEN NoSlot ELSE Head(q.order)
  BY <1>1, <1>2 DEF QueueType, UpdateProcess
<1> HIDE DEF r
<1>4. Used(r) = Used(q) /\ Scheduled(r) = Scheduled(q)
  BY <1>3 DEF Used, Scheduled
<1>5. Blocks(r) = Blocks(q) /\ Fresh(r)
  BY <1>3, <1>4 DEF Blocks, Fresh, Unscheduled
<1> QED
  BY <1>3, <1>4, <1>5 DEF r

\* Scheduling an unscheduled request.
LEMMA Appended ==
  ASSUME NEW size \in Nat, NEW q \in QueueType(size), Distinct(q),
         NEW i \in Unscheduled(q)
  PROVE  LET r == [q EXCEPT !.order = Append(@, i)] IN
         /\ r \in QueueType(size) /\ Distinct(r)
         /\ r.entry = q.entry /\ Used(r) = Used(q) /\ Blocks(r) = Blocks(q)
         /\ Scheduled(r) = Scheduled(q) \cup {i}
<1> DEFINE r == [q EXCEPT !.order = Append(@, i)]
           n == Len(q.order)
<1>1. i \in Slots(size) /\ i \in Used(q) /\ i \notin Scheduled(q)
  BY QueueFields DEF Unscheduled
<1>2. /\ q.order \in Seq(Slots(size)) /\ n \in Nat /\ DOMAIN q.order = 1..n
  BY QueueFields
<1>3. /\ Append(q.order, i) \in Seq(Slots(size))
      /\ Len(Append(q.order, i)) = n + 1
      /\ \A j \in 1..n : Append(q.order, i)[j] = q.order[j]
      /\ Append(q.order, i)[n + 1] = i
  BY <1>1, <1>2, AppendProperties
<1>4. r \in QueueType(size) /\ r.entry = q.entry /\ r.order = Append(q.order, i)
  BY <1>3 DEF QueueType
<1>5. DOMAIN r.order = 1..n + 1
  BY <1>3, <1>4, LenProperties
<1> HIDE DEF r
<1>6. Used(r) = Used(q) /\ Blocks(r) = Blocks(q)
  BY <1>4 DEF Used, Blocks
<1>7. Scheduled(r) = Scheduled(q) \cup {i}
  BY <1>2, <1>3, <1>4, <1>5 DEF Scheduled
<1>8. ASSUME NEW j \in DOMAIN r.order, NEW k \in DOMAIN r.order, r.order[j] = r.order[k]
      PROVE  j = k
  BY <1>1, <1>2, <1>3, <1>4, <1>5, <1>8 DEF Distinct, Scheduled
<1>9. Distinct(r)
  BY <1>1, <1>4, <1>6, <1>7, <1>8 DEF Distinct
<1> QED
  BY <1>4, <1>6, <1>7, <1>9 DEF r

\* Completing the request at the head of the schedule.
LEMMA Completed ==
  ASSUME NEW size \in Nat, NEW q \in QueueType(size), Distinct(q), Fresh(q),
         q.next # NoSlot
  PROVE  LET r == [q EXCEPT !.entry[q.next] = Free, !.order = Without(@, q.next)] IN
         /\ q.next \in Scheduled(q) /\ q.next \in Used(q)
         /\ r \in QueueType(size) /\ Distinct(r)
         /\ \A i \in Slots(size) \ {q.next} : r.entry[i] = q.entry[i]
         /\ Used(r) = Used(q) \ {q.next}
         /\ Blocks(r) = Blocks(q) \ {q.entry[q.next]}
         /\ Scheduled(r) = Scheduled(q) \ {q.next}
<1> DEFINE r == [q EXCEPT !.entry[q.next] = Free, !.order = Without(@, q.next)]
           n == Len(q.order)
<1>1. /\ q.order \in Seq(Slots(size)) /\ n \in Nat /\ DOMAIN q.order = 1..n
      /\ q.entry \in [Slots(size) -> Addr \cup {Free}] /\ DOMAIN q.entry = Slots(size)
  BY QueueFields
<1>2. q.order # <<>> /\ q.next = Head(q.order)
  BY DEF Fresh
<1>3. n \in Nat \ {0} /\ q.next = q.order[1]
  BY <1>1, <1>2, EmptySeq, HeadTailProperties
<1>4. 1 \in DOMAIN q.order /\ q.next \in Scheduled(q) /\ q.next \in Used(q)
      /\ q.next \in Slots(size)
  BY <1>1, <1>3, QueueFields DEF Scheduled, Distinct
<1>5. (CHOOSE j \in DOMAIN q.order : q.order[j] = q.next) = 1
  BY <1>3, <1>4 DEF Distinct
<1>6. /\ Without(q.order, q.next) \in [1..n - 1 -> Slots(size)]
      /\ \A j \in 1..n - 1 : Without(q.order, q.next)[j] = q.order[j + 1]
  <2>1. \A j \in 1..n : q.order[j] \in Slots(size)
    BY <1>1, ElementOfSeq
  <2> QED
    <3>1. Without(q.order, q.next) =
            [j \in 1..Len(q.order) - 1 |-> IF j < 1 THEN q.order[j] ELSE q.order[j + 1]]
      BY <1>5 DEF Without
    <3> QED
      BY <1>3, <2>1, <3>1
<1>7. Without(q.order, q.next) \in Seq(Slots(size))
  <2>1. n - 1 \in Nat
    BY <1>3
  <2> QED
    BY <1>6, <2>1, SeqDef
<1>8. /\ r \in QueueType(size)
      /\ r.entry = [q.entry EXCEPT ![q.next] = Free]
      /\ r.order = Without(q.order, q.next)
  BY <1>1, <1>7 DEF QueueType
<1>9. DOMAIN r.order = 1..n - 1
  BY <1>6, <1>8
<1> HIDE DEF r
<1>10. \A i \in Slots(size) \ {q.next} : r.entry[i] = q.entry[i]
  BY <1>1, <1>8
<1>11. Used(r) = Used(q) \ {q.next}
  BY <1>1, <1>4, <1>8 DEF Used
<1>12. Scheduled(r) = Scheduled(q) \ {q.next}
  <2>1. ASSUME NEW j \in 1..n - 1 PROVE r.order[j] \in Scheduled(q) \ {q.next}
    <3>1. j + 1 \in 1..n /\ 1 \in 1..n /\ j + 1 # 1 /\ r.order[j] = q.order[j + 1]
      BY <1>3, <1>6, <1>8
    <3>2. q.order[j + 1] # q.order[1]
      BY <1>1, <3>1 DEF Distinct
    <3> QED
      BY <1>1, <1>3, <3>1, <3>2 DEF Scheduled
  <2>2. ASSUME NEW i \in Scheduled(q) \ {q.next} PROVE i \in Scheduled(r)
    <3>1. PICK j \in 1..n : q.order[j] = i
      BY <1>1 DEF Scheduled
    <3>2. j - 1 \in 1..n - 1 /\ r.order[j - 1] = i
      BY <1>3, <1>6, <1>8, <3>1
    <3> QED
      BY <1>9, <3>2 DEF Scheduled
  <2> QED
    BY <1>9, <2>1, <2>2 DEF Scheduled
<1>13. Blocks(r) = Blocks(q) \ {q.entry[q.next]}
  BY <1>4, <1>10, <1>11, QueueFields DEF Blocks, Distinct
<1>14. ASSUME NEW j \in DOMAIN r.order, NEW k \in DOMAIN r.order, r.order[j] = r.order[k]
       PROVE  j = k
  <2>1. j \in 1..n - 1 /\ k \in 1..n - 1 /\ j + 1 \in 1..n /\ k + 1 \in 1..n
    BY <1>3, <1>9
  <2>2. q.order[j + 1] = q.order[k + 1]
    BY <1>6, <1>8, <1>14, <2>1
  <2>3. j + 1 = k + 1
    BY <1>1, <2>1, <2>2 DEF Distinct
  <2> QED
    BY <2>1, <2>3
<1>15. Distinct(r)
  <2>1. Scheduled(r) \subseteq Used(r)
    BY <1>11, <1>12 DEF Distinct
  <2>2. \A i, j \in Used(r) : r.entry[i] = r.entry[j] => i = j
    BY <1>10, <1>11, QueueFields DEF Distinct
  <2> QED
    BY <1>14, <2>1, <2>2 DEF Distinct
<1> QED
  BY <1>4, <1>8, <1>10, <1>11, <1>12, <1>13, <1>15 DEF r

\* Undoing the schedule of a queue.
LEMMA Unscheduling ==
  ASSUME NEW size \in Nat, NEW q \in QueueType(size), Distinct(q)
  PROVE  LET r == [q EXCEPT !.order = <<>>] IN
         /\ r \in QueueType(size) /\ Distinct(r)
         /\ r.entry = q.entry /\ Used(r) = Used(q) /\ Blocks(r) = Blocks(q)
         /\ Scheduled(r) = {}
<1> DEFINE r == [q EXCEPT !.order = <<>>]
<1>1. r \in QueueType(size) /\ r.entry = q.entry /\ r.order = <<>>
  BY EmptySeq DEF QueueType
<1>2. DOMAIN r.order = {}
  BY <1>1
<1> HIDE DEF r
<1>3. Used(r) = Used(q) /\ Scheduled(r) = {} /\ Blocks(r) = Blocks(q)
  BY <1>1, <1>2 DEF Used, Scheduled, Blocks
<1> QED
  BY <1>1, <1>2, <1>3 DEF Distinct, r

\* A set of natural numbers has a smallest element.
LEMMA Smallest ==
  ASSUME NEW T \in SUBSET Nat, T # {}
  PROVE  \E x \in T : \A y \in T : x <= y
<1>1. PICK x \in T : \A y \in T : <<y, x>> \notin OpToRel(<, Nat)
  BY NatLessThanWellFounded, WFMin
<1>2. \A y \in T : ~(y < x)
  BY <1>1 DEF OpToRel
<1> QED
  BY <1>2

\* A new request takes an empty entry.
LEMMA Inserted ==
  ASSUME NEW size \in Nat, NEW q \in QueueType(size), Distinct(q), Fresh(q),
         ~Full(q), NEW a \in Addr, a \notin Blocks(q)
  PROVE  LET r == Insert(q, a) IN
         /\ r \in QueueType(size) /\ Distinct(r) /\ Fresh(r)
         /\ r.order = q.order /\ Scheduled(r) = Scheduled(q)
         /\ \A i \in Used(q) : r.entry[i] = q.entry[i]
         /\ Blocks(r) = Blocks(q) \cup {a}
<1> DEFINE empty == DOMAIN q.entry \ Used(q)
           i == CHOOSE j \in empty : \A k \in empty : j <= k
           s == [q EXCEPT !.entry[i] = a]
           r == UpdateSchedule(s)
<1>1. empty # {} /\ empty \subseteq Slots(size) /\ empty \subseteq Nat
  <2>1. Used(q) \subseteq DOMAIN q.entry /\ DOMAIN q.entry = Slots(size)
    BY QueueFields
  <2>2. Slots(size) \subseteq Nat
    BY DEF Slots
  <2> QED
    BY <2>1, <2>2 DEF Full
<1>2. i \in empty
  BY <1>1, Smallest
<1> HIDE DEF i
<1>3. /\ s \in QueueType(size) /\ s.entry = [q.entry EXCEPT ![i] = a]
      /\ s.order = q.order /\ s.next = q.next
  BY <1>1, <1>2, QueueFields DEF QueueType
<1>4. /\ r \in QueueType(size) /\ r.entry = [q.entry EXCEPT ![i] = a]
      /\ r.order = q.order /\ r.next = q.next
      /\ r.unscheduled = (Unscheduled(s) # {})
  BY <1>3 DEF QueueType, UpdateSchedule
<1>5. Unscheduled(r) = Unscheduled(s)
  BY <1>3, <1>4 DEF Unscheduled, Used, Scheduled
<1> HIDE DEF r
<1>6. Scheduled(r) = Scheduled(q)
  BY <1>4 DEF Scheduled
<1>7. /\ Used(r) = Used(q) \cup {i} /\ r.entry[i] = a
      /\ \A j \in Slots(size) \ {i} : r.entry[j] = q.entry[j]
  BY <1>2, <1>4, QueueFields, DramAssumption DEF Used
<1>8. Blocks(r) = Blocks(q) \cup {a} /\ \A j \in Used(q) : r.entry[j] = q.entry[j]
  <2>1. \A j \in Used(q) : j # i /\ j \in Slots(size)
    BY <1>2, QueueFields
  <2>2. \A j \in Used(q) : r.entry[j] = q.entry[j]
    BY <1>7, <2>1
  <2>3. i \in Used(r) /\ Used(q) \subseteq Used(r)
    BY <1>7
  <2>4. ASSUME NEW b \in Blocks(r) PROVE b \in Blocks(q) \cup {a}
    <3>1. PICK j \in Used(r) : b = r.entry[j]
      BY DEF Blocks
    <3>2. j = i \/ j \in Used(q)
      BY <1>7
    <3>3. CASE j = i
      BY <1>7, <3>1, <3>3
    <3>4. CASE j \in Used(q)
      BY <2>2, <3>1, <3>4 DEF Blocks
    <3> QED
      BY <3>2, <3>3, <3>4
  <2>5. ASSUME NEW b \in Blocks(q) \cup {a} PROVE b \in Blocks(r)
    <3>1. CASE b = a
      BY <1>7, <2>3, <3>1 DEF Blocks
    <3>2. CASE b \in Blocks(q)
      <4>1. PICK j \in Used(q) : b = q.entry[j]
        BY <3>2 DEF Blocks
      <4> QED
        BY <2>2, <2>3, <4>1 DEF Blocks
    <3> QED
      BY <3>1, <3>2
  <2> QED
    BY <2>2, <2>4, <2>5
<1>9. \A j, k \in Used(r) : r.entry[j] = r.entry[k] => j = k
  BY <1>7, <1>8 DEF Distinct, Blocks
<1>10. Distinct(r)
  BY <1>4, <1>6, <1>7, <1>9 DEF Distinct
<1>11. Fresh(r)
  BY <1>4, <1>5 DEF Fresh
<1>12. Insert(q, a) = r
  BY DEF Insert, r, i
<1> QED
  BY <1>4, <1>6, <1>8, <1>10, <1>11, <1>12
-----------------------------------------------------------------------------
(* The steps of one cycle, as functions of the controller d. *)

LEMMA SlotsFinite ==
  ASSUME NEW size \in Nat, NEW T \in SUBSET Slots(size)
  PROVE  IsFiniteSet(T) /\ Cardinality(T) \in 0..size
<1>1. IsFiniteSet(Slots(size)) /\ Cardinality(Slots(size)) = size
  BY FS_Interval DEF Slots
<1>2. IsFiniteSet(T) /\ Cardinality(T) <= size
  BY <1>1, FS_Subset
<1> QED
  BY <1>2, FS_CardinalityType

LEMMA Sizes == RqSize \in Nat /\ WqSize \in Nat /\ \A w \in BOOLEAN : Size(w) \in Nat
BY DramAssumption DEF Size

LEMMA DFields ==
  ASSUME NEW d \in DType
  PROVE  /\ \A w \in BOOLEAN : Queue(d, w) \in QueueType(Size(w)) /\ Count(d, w) \in Nat
         /\ d.bank \in BankType /\ d.mode \in BOOLEAN /\ d.waiting \in SUBSET Addr
         /\ d.rq = Queue(d, FALSE) /\ d.wq = Queue(d, TRUE)
BY DEF DType, Queue, Size, Count

\* Every scheduled slot holds a block, whose bank is one of Banks.
LEMMA ScheduledBanks ==
  ASSUME NEW size \in Nat, NEW q \in QueueType(size), Distinct(q), NEW i \in Scheduled(q)
  PROVE  i \in Slots(size) /\ q.entry[i] \in Addr /\ Bank[q.entry[i]] \in Banks
<1>1. i \in Used(q) /\ i \in Slots(size)
  BY QueueFields DEF Distinct
<1>2. q.entry[i] \in Addr
  BY <1>1, QueueFields DEF Used
<1> QED
  BY <1>1, <1>2, DramAssumption

\* Each request that is scheduled has a bank of its own, and no other works.
LEMMA Serving ==
  ASSUME NEW size \in Nat, NEW q \in QueueType(size), Distinct(q),
         NEW bnk \in BankType, NEW w \in BOOLEAN, Serves(bnk, q, w)
  PROVE  /\ BanksOf(q) = {b \in Banks : bnk[b].kind # "idle"}
         /\ IsFiniteSet(BanksOf(q))
         /\ Cardinality(BanksOf(q)) = Cardinality(Scheduled(q))
         /\ \A b \in BanksOf(q) : bnk[b].kind = Kind(w)
<1>1. BanksOf(q) = {b \in Banks : bnk[b].kind # "idle"}
      /\ \A b \in BanksOf(q) : bnk[b].kind = Kind(w)
  BY ScheduledBanks DEF BanksOf, Serves, Kind
<1> DEFINE f == [i \in Scheduled(q) |-> Bank[q.entry[i]]]
<1>2. f \in [Scheduled(q) -> BanksOf(q)]
  BY DEF BanksOf
<1>3. \A i, j \in Scheduled(q) : f[i] = f[j] => i = j
  BY DEF Serves
<1>4. \A b \in BanksOf(q) : \E i \in Scheduled(q) : f[i] = b
  BY DEF BanksOf
<1>5. ExistsBijection(Scheduled(q), BanksOf(q))
  <2>1. f \in Bijection(Scheduled(q), BanksOf(q))
    BY <1>2, <1>3, <1>4 DEF Bijection, Injection, Surjection, IsInjective
  <2> QED
    BY <2>1 DEF ExistsBijection
<1>6. IsFiniteSet(Scheduled(q))
  BY SlotsFinite, QueueFields
<1> QED
  BY <1>1, <1>5, <1>6, FS_Bijection

\* What a step may not change, apart from DInv.
Keeps(d, e) == Blocks(e.rq) = Blocks(d.rq) /\ Blocks(e.wq) = Blocks(d.wq)

\* reset_remain_requests, field by field.
LEMMA ResetFields ==
  ASSUME NEW d \in DType, NEW w \in BOOLEAN, NEW e \in ResetRemaining(d, w),
         Distinct(Queue(d, w))
  PROVE  LET q == Queue(d, w)
             Reset(r) == UpdateProcess(UpdateSchedule(r))
             Busy(kind) == Cardinality({b \in BanksOf(q) : d.bank[b].kind = kind})
         IN /\ e = [rq |-> e.rq, wq |-> e.wq, bank |-> e.bank, mode |-> e.mode,
                    reads |-> e.reads, writes |-> e.writes, waiting |-> e.waiting]
            /\ e.mode = d.mode /\ e.waiting = d.waiting
            /\ Queue(e, w) = Reset([q EXCEPT !.order = <<>>])
            /\ Queue(e, ~w) = Reset(Queue(d, ~w))
            /\ e.reads = d.reads - Busy("read")
            /\ e.writes = d.writes - Busy("write")
            /\ \E closed \in SUBSET BanksOf(q) :
                 e.bank = [b \in Banks |-> IF b \notin BanksOf(q) THEN d.bank[b]
                           ELSE IdleBank(IF b \in closed THEN NoRow ELSE d.bank[b].row)]
<1> DEFINE q == Queue(d, w)
           r == [q EXCEPT !.order = <<>>]
           c == SetQueue(d, w, r)
           Reset(x) == UpdateProcess(UpdateSchedule(x))
           reads == Cardinality({b \in BanksOf(q) : d.bank[b].kind = "read"})
           writes == Cardinality({b \in BanksOf(q) : d.bank[b].kind = "write"})
           Now(closed) ==
             [b \in Banks |-> IF b \notin BanksOf(q) THEN d.bank[b]
              ELSE IdleBank(IF b \in closed THEN NoRow ELSE d.bank[b].row)]
<1>1. r \in QueueType(Size(w))
  BY Unscheduling, DFields, Sizes
<1>2. /\ c \in DType /\ Queue(c, w) = r /\ Queue(c, ~w) = Queue(d, ~w)
      /\ c.bank = d.bank /\ c.mode = d.mode /\ c.waiting = d.waiting
      /\ c.reads = d.reads /\ c.writes = d.writes
  <2> HIDE DEF r
  <2> QED
    BY <1>1 DEF DType, SetQueue, Queue, Size
<1>3. PICK closed \in SUBSET BanksOf(q) :
        e = [c EXCEPT !.rq = Reset(@), !.wq = Reset(@),
                      !.reads = @ - reads, !.writes = @ - writes,
                      !.bank = Now(closed)]
  BY DEF ResetRemaining
<1> HIDE DEF c, reads, writes, Now, r, q, Reset
<1>4. e = [rq |-> Reset(c.rq), wq |-> Reset(c.wq), bank |-> Now(closed),
           mode |-> c.mode, reads |-> c.reads - reads, writes |-> c.writes - writes,
           waiting |-> c.waiting]
  BY <1>2, <1>3 DEF DType
<1>5. Queue(e, w) = Reset(Queue(c, w)) /\ Queue(e, ~w) = Reset(Queue(c, ~w))
  BY <1>4 DEF Queue
<1>6. Queue(e, w) = Reset(r) /\ Queue(e, ~w) = Reset(Queue(d, ~w))
  BY <1>2, <1>5
<1>7. /\ e = [rq |-> e.rq, wq |-> e.wq, bank |-> e.bank, mode |-> e.mode,
              reads |-> e.reads, writes |-> e.writes, waiting |-> e.waiting]
      /\ e.mode = d.mode /\ e.waiting = d.waiting
      /\ e.reads = d.reads - reads /\ e.writes = d.writes - writes
      /\ e.bank = Now(closed)
  BY <1>2, <1>4
<1> QED
  BY <1>6, <1>7 DEF reads, writes, Now, r, q, Reset

\* reset_remain_requests(w), once the mode is no longer w: what was scheduled no
\* longer is, its banks are idle and the counters are back to zero.
LEMMA ResetInv ==
  ASSUME NEW d \in DType, NEW w \in BOOLEAN, NEW e \in ResetRemaining(d, w),
         \A v \in BOOLEAN : /\ Distinct(Queue(d, v)) /\ Fresh(Queue(d, v))
                            /\ Count(d, v) = Cardinality(Scheduled(Queue(d, v))),
         Serves(d.bank, Queue(d, w), w), Queue(d, ~w).order = <<>>,
         d.mode = ~w, d.waiting = Blocks(d.rq)
  PROVE  DInv(e) /\ Keeps(d, e)
<1> DEFINE q == Queue(d, w)
           r == [q EXCEPT !.order = <<>>]
           p == Queue(d, ~w)
           Reset(x) == UpdateProcess(UpdateSchedule(x))
           R == {b \in BanksOf(q) : d.bank[b].kind = "read"}
           W == {b \in BanksOf(q) : d.bank[b].kind = "write"}
<1>1. /\ e = [rq |-> e.rq, wq |-> e.wq, bank |-> e.bank, mode |-> e.mode,
              reads |-> e.reads, writes |-> e.writes, waiting |-> e.waiting]
      /\ e.mode = d.mode /\ e.waiting = d.waiting
      /\ Queue(e, w) = Reset(r)
      /\ Queue(e, ~w) = Reset(p)
      /\ e.reads = d.reads - Cardinality(R)
      /\ e.writes = d.writes - Cardinality(W)
      /\ \E closed \in SUBSET BanksOf(q) :
           e.bank = [b \in Banks |-> IF b \notin BanksOf(q) THEN d.bank[b]
                     ELSE IdleBank(IF b \in closed THEN NoRow ELSE d.bank[b].row)]
  BY ResetFields
<1>2. q \in QueueType(Size(w)) /\ p \in QueueType(Size(~w)) /\ d.bank \in BankType
  BY DFields
<1>3. /\ BanksOf(q) = {b \in Banks : d.bank[b].kind # "idle"}
      /\ Cardinality(BanksOf(q)) = Cardinality(Scheduled(q))
      /\ \A b \in BanksOf(q) : d.bank[b].kind = Kind(w)
  BY <1>2, Serving, Sizes
<1>4. /\ \A b \in Banks : e.bank[b].kind = "idle"
      /\ e.bank \in BankType
  <2> HIDE DEF q
  <2>1. PICK closed \in SUBSET BanksOf(q) :
           e.bank = [b \in Banks |-> IF b \notin BanksOf(q) THEN d.bank[b]
                     ELSE IdleBank(IF b \in closed THEN NoRow ELSE d.bank[b].row)]
    BY <1>1
  <2> QED
    BY <1>2, <1>3, <2>1 DEF IdleBank, BankType, NoSlot
<1>5. /\ r \in QueueType(Size(w)) /\ Distinct(r) /\ r.order = <<>>
      /\ Scheduled(r) = {} /\ Blocks(r) = Blocks(q)
  BY <1>2, Unscheduling, Sizes DEF QueueType
<1>6. /\ Distinct(p) /\ p.order = <<>> /\ Scheduled(p) = {}
  <2>1. (~w) \in BOOLEAN
    OBVIOUS
  <2>2. Distinct(p)
    BY <2>1
  <2>3. p.order = <<>> /\ DOMAIN p.order = {}
    <3>1. p.order = <<>>
      OBVIOUS
    <3> HIDE DEF p
    <3> QED
      BY <3>1
  <2> QED
    BY <2>2, <2>3 DEF Scheduled
<1> HIDE DEF q, r, p, R, W
<1>7. /\ Queue(e, w) \in QueueType(Size(w)) /\ Distinct(Queue(e, w))
      /\ Fresh(Queue(e, w)) /\ Queue(e, w).order = <<>>
      /\ Scheduled(Queue(e, w)) = {} /\ Blocks(Queue(e, w)) = Blocks(q)
  BY <1>1, <1>5, Refreshed, Sizes DEF Distinct
<1>8. /\ Queue(e, ~w) \in QueueType(Size(~w)) /\ Distinct(Queue(e, ~w))
      /\ Fresh(Queue(e, ~w)) /\ Queue(e, ~w).order = <<>>
      /\ Scheduled(Queue(e, ~w)) = {} /\ Blocks(Queue(e, ~w)) = Blocks(p)
  <2>1. Size(~w) \in Nat
    BY Sizes
  <2> QED
    BY <1>1, <1>2, <1>6, <2>1, Refreshed DEF Distinct
<1>9. e.reads = 0 /\ e.writes = 0
  <2>1. Cardinality(Scheduled(p)) = 0 /\ Cardinality({}) = 0
    BY <1>6, FS_EmptySet
  <2>2. CASE w = TRUE
    <3>1. R = {} /\ W = BanksOf(q)
      BY <1>3, <2>2 DEF Kind, R, W
    <3>2. d.reads = 0 /\ d.writes = Cardinality(Scheduled(q)) /\ d.writes \in Nat
      BY <2>1, <2>2 DEF Count, p, q, DType
    <3> QED
      BY <1>1, <1>3, <2>1, <3>1, <3>2
  <2>3. CASE w = FALSE
    <3>1. W = {} /\ R = BanksOf(q)
      BY <1>3, <2>3 DEF Kind, R, W
    <3>2. d.writes = 0 /\ d.reads = Cardinality(Scheduled(q)) /\ d.reads \in Nat
      BY <2>1, <2>3 DEF Count, p, q, DType
    <3> QED
      BY <1>1, <1>3, <2>1, <3>1, <3>2
  <2> QED
    BY <2>2, <2>3
<1>10. /\ \A v \in BOOLEAN : /\ Queue(e, v) \in QueueType(Size(v))
                             /\ Distinct(Queue(e, v)) /\ Fresh(Queue(e, v))
                             /\ Queue(e, v).order = <<>> /\ Scheduled(Queue(e, v)) = {}
                             /\ Blocks(Queue(e, v)) = Blocks(Queue(d, v))
  BY <1>7, <1>8 DEF p, q
<1>11. Keeps(d, e)
  <2>1. Blocks(Queue(e, TRUE)) = Blocks(Queue(d, TRUE))
        /\ Blocks(Queue(e, FALSE)) = Blocks(Queue(d, FALSE))
    BY <1>10
  <2> QED
    BY <2>1 DEF Keeps, Queue
<1>12. e \in DType
  <2>1. Queue(e, TRUE) \in QueueType(WqSize) /\ Queue(e, FALSE) \in QueueType(RqSize)
    BY <1>10 DEF Size
  <2>2. e.wq \in QueueType(WqSize) /\ e.rq \in QueueType(RqSize)
    BY <2>1 DEF Queue
  <2>3. e.mode \in BOOLEAN /\ e.waiting \in SUBSET Addr
    BY <1>1, DFields
  <2> QED
    BY <1>1, <1>4, <1>9, <2>2, <2>3 DEF DType
<1>13. Serves(e.bank, Queue(e, e.mode), e.mode)
  BY <1>1, <1>4, <1>10 DEF Serves
<1>14. \A v \in BOOLEAN : Count(e, v) = Cardinality(Scheduled(Queue(e, v)))
  BY <1>9, <1>10, FS_EmptySet DEF Count
<1>15. Queue(e, ~e.mode).order = <<>> /\ e.waiting = Blocks(e.rq)
  BY <1>1, <1>10, <1>11 DEF Keeps
<1> QED
  BY <1>10, <1>11, <1>12, <1>13, <1>14, <1>15 DEF DInv

\* A mode switch, when there is one, leaves nothing scheduled.
LEMMA SwitchInv ==
  ASSUME NEW d, DInv(d), NEW e \in Switch(d)
  PROVE  DInv(e) /\ Keeps(d, e)
<1> DEFINE w == d.mode
           c == [d EXCEPT !.mode = ~w]
<1>1. CASE e = d
  BY <1>1 DEF Keeps
<1>2. CASE e # d
  <2>1. d \in DType /\ w \in BOOLEAN
    BY DFields DEF DInv
  <2>2. e \in ResetRemaining(c, w)
    BY <1>2, <2>1 DEF Switch
  <2>3. /\ c \in DType /\ c.bank = d.bank /\ c.mode = ~w /\ c.waiting = d.waiting
        /\ c.reads = d.reads /\ c.writes = d.writes /\ c.rq = d.rq /\ c.wq = d.wq
    BY <2>1 DEF DType
  <2> HIDE DEF c
  <2>4. \A v \in BOOLEAN : Queue(c, v) = Queue(d, v) /\ Count(c, v) = Count(d, v)
    BY <2>3 DEF Queue, Count
  <2>5. \A v \in BOOLEAN : /\ Distinct(Queue(c, v)) /\ Fresh(Queue(c, v))
                           /\ Count(c, v) = Cardinality(Scheduled(Queue(c, v)))
    BY <2>4 DEF DInv
  <2>6. /\ Serves(c.bank, Queue(c, w), w) /\ Queue(c, ~w).order = <<>>
        /\ c.waiting = Blocks(c.rq)
    BY <2>1, <2>3, <2>4 DEF DInv
  <2>7. DInv(e) /\ Keeps(c, e)
    BY <2>1, <2>2, <2>3, <2>5, <2>6, ResetInv
  <2> QED
    BY <2>3, <2>7 DEF Keeps
<1> QED
  BY <1>1, <1>2
-----------------------------------------------------------------------------
\* A controller whose fields are those of d but for one queue, its counter, the
\* banks and the waiting blocks.
Changed(d, w, f) ==
  /\ f \in DType /\ f.mode = d.mode
  /\ Queue(f, ~w) = Queue(d, ~w) /\ Count(f, ~w) = Count(d, ~w)

\* schedule, field by field.
LEMMA AssignFields ==
  ASSUME NEW d \in DType, NEW w \in BOOLEAN, Distinct(Queue(d, w)),
         NEW i \in Ready(d, Queue(d, w))
  PROVE  LET q == Queue(d, w)
             f == Assign(d, w, i)
             a == q.entry[i]
         IN /\ Changed(d, w, f) /\ f.waiting = d.waiting
            /\ Queue(f, w) = UpdateProcess(UpdateSchedule([q EXCEPT !.order = Append(@, i)]))
            /\ Count(f, w) = Count(d, w) + 1
            /\ f.bank = [d.bank EXCEPT ![Bank[a]] = [request |-> i, row |-> Row[a],
                                                     kind |-> Kind(w)]]
<1> DEFINE q == Queue(d, w)
           a == q.entry[i]
           p == [q EXCEPT !.order = Append(@, i)]
           r == UpdateProcess(UpdateSchedule(p))
           bnk == [d.bank EXCEPT ![Bank[a]] = [request |-> i, row |-> Row[a],
                                               kind |-> Kind(w)]]
           n == IF w THEN d.reads ELSE d.reads + 1
           m == IF w THEN d.writes + 1 ELSE d.writes
           c == [d EXCEPT !.bank = bnk, !.writes = m, !.reads = n]
           f == Assign(d, w, i)
<1>1. i \in Unscheduled(q) /\ q \in QueueType(Size(w)) /\ Size(w) \in Nat
  BY DFields, Sizes DEF Ready
<1>2. r \in QueueType(Size(w))
  BY <1>1, Appended, Refreshed
<1>3. bnk \in BankType
  <2>1. i \in Slots(Size(w)) /\ a \in Addr /\ Bank[a] \in Banks /\ Row[a] \in Rows
    BY <1>1, QueueFields, DramAssumption DEF Unscheduled, Used
  <2>2. i \in Int
    BY <1>1, <2>1 DEF Slots
  <2> QED
    BY <2>1, <2>2, DFields DEF BankType, Kind
<1>4. f = SetQueue(c, w, r)
  BY DEF Assign, Kind
<1> HIDE DEF bnk, r, q, f, m, n
<1>5. c = [rq |-> d.rq, wq |-> d.wq, bank |-> bnk, mode |-> d.mode,
           reads |-> n, writes |-> m, waiting |-> d.waiting]
  <2>1. d = [rq |-> d.rq, wq |-> d.wq, bank |-> d.bank, mode |-> d.mode,
             reads |-> d.reads, writes |-> d.writes, waiting |-> d.waiting]
    BY DEF DType
  <2>2. c = [[rq |-> d.rq, wq |-> d.wq, bank |-> d.bank, mode |-> d.mode,
              reads |-> d.reads, writes |-> d.writes, waiting |-> d.waiting]
             EXCEPT !.bank = bnk, !.writes = m, !.reads = n]
    BY <2>1
  <2> HIDE DEF c
  <2> QED
    BY <2>2
<1> HIDE DEF c
<1>6. CASE w = TRUE
  <2>1. f = [rq |-> d.rq, wq |-> r, bank |-> bnk, mode |-> d.mode,
             reads |-> d.reads, writes |-> d.writes + 1, waiting |-> d.waiting]
    BY <1>4, <1>5, <1>6 DEF SetQueue, m, n
  <2>2. f \in DType
    BY <1>2, <1>3, <1>6, <2>1 DEF DType, Size
  <2> QED
    BY <1>6, <2>1, <2>2 DEF Changed, Queue, Count, bnk, r, q, f
<1>7. CASE w = FALSE
  <2>1. f = [rq |-> r, wq |-> d.wq, bank |-> bnk, mode |-> d.mode,
             reads |-> d.reads + 1, writes |-> d.writes, waiting |-> d.waiting]
    BY <1>4, <1>5, <1>7 DEF SetQueue, m, n
  <2>2. f \in DType
    BY <1>2, <1>3, <1>7, <2>1 DEF DType, Size
  <2> QED
    BY <1>7, <2>1, <2>2 DEF Changed, Queue, Count, bnk, r, q, f
<1> QED
  BY <1>6, <1>7

\* What remains to be shown of DInv when only the queue that is served changes.
LEMMA ChangedInv ==
  ASSUME NEW d, DInv(d), NEW f, Changed(d, d.mode, f),
         LET q == Queue(f, d.mode) IN
           /\ Distinct(q) /\ Fresh(q) /\ Serves(f.bank, q, d.mode)
           /\ Count(f, d.mode) = Cardinality(Scheduled(q)),
         f.waiting = Blocks(f.rq)
  PROVE  DInv(f)
<1>1. d.mode \in BOOLEAN /\ f \in DType /\ f.mode = d.mode
  BY DFields DEF Changed, DInv
<1>2. ASSUME NEW w \in BOOLEAN
      PROVE  /\ Distinct(Queue(f, w)) /\ Fresh(Queue(f, w))
             /\ Count(f, w) = Cardinality(Scheduled(Queue(f, w)))
  <2>1. CASE w = d.mode
    BY <2>1
  <2>2. CASE w = ~d.mode
    BY <2>2 DEF Changed, DInv
  <2> QED
    BY <1>1, <2>1, <2>2
<1>3. Serves(f.bank, Queue(f, f.mode), f.mode) /\ Queue(f, ~f.mode).order = <<>>
  BY <1>1 DEF Changed, DInv
<1> QED
  BY <1>1, <1>2, <1>3 DEF DInv

\* schedule: the bank was idle, so it works for no other scheduled request.
LEMMA ScheduleInv ==
  ASSUME NEW d, DInv(d), NEW f \in Schedule(d, d.mode)
  PROVE  DInv(f) /\ Keeps(d, f) /\ f.mode = d.mode
<1> DEFINE w == d.mode
           q == Queue(d, w)
<1>1. CASE f = d
  BY <1>1 DEF Keeps
<1>2. CASE f # d
  <2>1. /\ d \in DType /\ w \in BOOLEAN /\ q \in QueueType(Size(w)) /\ Size(w) \in Nat
        /\ d.bank \in BankType
    BY DFields, Sizes DEF DInv
  <2>2. /\ Distinct(q) /\ Fresh(q) /\ Count(d, w) = Cardinality(Scheduled(q))
        /\ Serves(d.bank, q, w) /\ d.waiting = Blocks(d.rq)
    BY <2>1 DEF DInv
  <2>3. PICK i \in Ready(d, q) : f = Assign(d, w, i)
    BY <1>2 DEF Schedule, OpenRow
  <2> DEFINE a == q.entry[i]
             p == [q EXCEPT !.order = Append(@, i)]
             g == Queue(f, w)
  <2>4. /\ Changed(d, w, f) /\ f.waiting = d.waiting
        /\ g = UpdateProcess(UpdateSchedule(p))
        /\ Count(f, w) = Count(d, w) + 1
        /\ f.bank = [d.bank EXCEPT ![Bank[a]] = [request |-> i, row |-> Row[a],
                                                 kind |-> Kind(w)]]
    BY <2>1, <2>2, <2>3, AssignFields
  <2>5. i \in Unscheduled(q) /\ d.bank[Bank[a]].kind = "idle"
    BY DEF Ready
  <2>6. /\ p \in QueueType(Size(w)) /\ Distinct(p) /\ p.entry = q.entry
        /\ Blocks(p) = Blocks(q) /\ Scheduled(p) = Scheduled(q) \cup {i}
        /\ Used(p) = Used(q)
    BY <2>1, <2>2, <2>5, Appended
  <2> HIDE DEF p, q, g
  <2>7. /\ Fresh(g) /\ g.entry = q.entry /\ g.order = p.order
        /\ Blocks(g) = Blocks(q) /\ Scheduled(g) = Scheduled(q) \cup {i}
        /\ Used(g) = Used(q)
    BY <2>1, <2>4, <2>6, Refreshed
  <2>8. Distinct(g)
    BY <2>6, <2>7 DEF Distinct
  <2>9. i \notin Scheduled(q) /\ a \in Addr /\ Bank[a] \in Banks /\ i \in Used(q)
    BY <2>1, <2>5, QueueFields, DramAssumption DEF Unscheduled, Used
  <2>10. Count(f, w) = Cardinality(Scheduled(g))
    <3>1. IsFiniteSet(Scheduled(q))
      BY <2>1, SlotsFinite, QueueFields
    <3>2. Cardinality(Scheduled(q) \cup {i}) = Cardinality(Scheduled(q)) + 1
      BY <2>9, <3>1, FS_AddElement
    <3>3. Count(f, w) = Count(d, w) + 1 /\ Scheduled(g) = Scheduled(q) \cup {i}
      BY <2>4, <2>7
    <3> QED
      BY <2>2, <3>2, <3>3
  <2>11. Serves(f.bank, g, w)
    <3>1. \A j \in Scheduled(q) : Bank[q.entry[j]] # Bank[a] /\ Bank[q.entry[j]] \in Banks
      BY <2>1, <2>2, <2>5, ScheduledBanks DEF Serves, Kind
    <3>2. f.bank[Bank[a]] = [request |-> i, row |-> Row[a], kind |-> Kind(w)]
          /\ \A b \in Banks \ {Bank[a]} : f.bank[b] = d.bank[b]
      BY <2>1, <2>4, <2>9 DEF BankType
    <3>3. ASSUME NEW j \in Scheduled(g)
          PROVE  /\ f.bank[Bank[g.entry[j]]].request = j
                 /\ f.bank[Bank[g.entry[j]]].kind = Kind(w)
      BY <2>2, <2>7, <3>1, <3>2 DEF Serves
    <3>4. ASSUME NEW b \in Banks, f.bank[b].kind # "idle"
          PROVE  \E j \in Scheduled(g) : Bank[g.entry[j]] = b
      BY <2>2, <2>7, <3>2, <3>4 DEF Serves
    <3> QED
      BY <3>3, <3>4 DEF Serves
  <2>12. Keeps(d, f)
    BY <2>1, <2>4, <2>7 DEF Keeps, Changed, Queue, g, q
  <2>13. DInv(f)
    BY <2>2, <2>4, <2>7, <2>8, <2>10, <2>11, <2>12, ChangedInv DEF Keeps, g
  <2> QED
    BY <2>4, <2>12, <2>13 DEF Changed
<1> QED
  BY <1>1, <1>2

\* process, field by field.
LEMMA CompleteFields ==
  ASSUME NEW d \in DType, NEW w \in BOOLEAN,
         Distinct(Queue(d, w)), Fresh(Queue(d, w)), Queue(d, w).next # NoSlot,
         Count(d, w) = Cardinality(Scheduled(Queue(d, w)))
  PROVE  LET q == Queue(d, w)
             f == Complete(d, w)
             a == q.entry[q.next]
         IN /\ Changed(d, w, f)
            /\ f.waiting = IF w THEN d.waiting ELSE d.waiting \ {a}
            /\ Queue(f, w) = UpdateProcess([q EXCEPT !.entry[q.next] = Free,
                                                     !.order = Without(@, q.next)])
            /\ Count(f, w) = Cardinality(Scheduled(q) \ {q.next})
            /\ f.bank = [d.bank EXCEPT ![Bank[a]] = IdleBank(@.row)]
<1> DEFINE q == Queue(d, w)
           a == q.entry[q.next]
           p == [q EXCEPT !.entry[q.next] = Free, !.order = Without(@, q.next)]
           r == UpdateProcess(p)
           bnk == [d.bank EXCEPT ![Bank[a]] = IdleBank(@.row)]
           n == IF w THEN d.reads ELSE d.reads - 1
           m == IF w THEN d.writes - 1 ELSE d.writes
           x == Answered(d, w, a)
           c == [d EXCEPT !.bank = bnk, !.writes = m, !.reads = n, !.waiting = x]
           f == Complete(d, w)
<1>1. /\ q \in QueueType(Size(w)) /\ Size(w) \in Nat
      /\ q.next \in Scheduled(q) /\ q.next \in Slots(Size(w))
      /\ IsFiniteSet(Scheduled(q))
  <2>1. q \in QueueType(Size(w)) /\ Size(w) \in Nat
    BY DFields, Sizes
  <2>2. q.next \in Scheduled(q) /\ Scheduled(q) \subseteq Slots(Size(w))
    BY <2>1, Completed, QueueFields
  <2> QED
    BY <2>1, <2>2, SlotsFinite
<1>2. r \in QueueType(Size(w))
  <2>1. p \in QueueType(Size(w))
    BY <1>1, Completed
  <2>2. p.order # <<>> => Head(p.order) \in Slots(Size(w))
    BY <2>1, <1>1, QueueFields, HeadTailProperties
  <2> HIDE DEF p
  <2> QED
    BY <2>1, <2>2 DEF QueueType, UpdateProcess
<1>3. bnk \in BankType /\ a \in Addr /\ x \in SUBSET Addr
  <2>1. a \in Addr /\ Bank[a] \in Banks
    BY <1>1, ScheduledBanks
  <2>2. IdleBank(d.bank[Bank[a]].row)
          \in [request: Int, kind: {"idle", "read", "write"}, row: Rows \cup {NoRow}]
    <3>1. d.bank[Bank[a]].row \in Rows \cup {NoRow}
      BY <2>1, DFields DEF BankType
    <3>2. NoSlot \in Int
      BY DEF NoSlot
    <3> QED
      BY <3>1, <3>2 DEF IdleBank
  <2> QED
    BY <2>1, <2>2, DFields DEF BankType, Answered
<1>4. Count(d, w) \in Nat \ {0} /\ Count(d, w) - 1 = Cardinality(Scheduled(q) \ {q.next})
  <2>1. Cardinality(Scheduled(q) \ {q.next}) = Cardinality(Scheduled(q)) - 1
    BY <1>1, FS_RemoveElement
  <2>2. Cardinality(Scheduled(q) \ {q.next}) \in Nat /\ Cardinality(Scheduled(q)) \in Nat
    BY <1>1, FS_RemoveElement, FS_CardinalityType
  <2> QED
    BY <2>1, <2>2
<1>5. f = SetQueue(c, w, r)
  BY DEF Complete
<1> HIDE DEF bnk, r, q, f, m, n, x
<1>6. c = [rq |-> d.rq, wq |-> d.wq, bank |-> bnk, mode |-> d.mode,
           reads |-> n, writes |-> m, waiting |-> x]
  <2>1. d = [rq |-> d.rq, wq |-> d.wq, bank |-> d.bank, mode |-> d.mode,
             reads |-> d.reads, writes |-> d.writes, waiting |-> d.waiting]
    BY DEF DType
  <2>2. c = [[rq |-> d.rq, wq |-> d.wq, bank |-> d.bank, mode |-> d.mode,
              reads |-> d.reads, writes |-> d.writes, waiting |-> d.waiting]
             EXCEPT !.bank = bnk, !.writes = m, !.reads = n, !.waiting = x]
    BY <2>1
  <2> HIDE DEF c
  <2> QED
    BY <2>2
<1> HIDE DEF c
<1>7. CASE w = TRUE
  <2>1. f = [rq |-> d.rq, wq |-> r, bank |-> bnk, mode |-> d.mode,
             reads |-> d.reads, writes |-> d.writes - 1, waiting |-> d.waiting]
    BY <1>5, <1>6, <1>7 DEF SetQueue, m, n, x, Answered
  <2>2. d.writes - 1 \in Nat
    BY <1>4, <1>7 DEF Count
  <2>3. f \in DType
    BY <1>2, <1>3, <1>7, <2>1, <2>2 DEF DType, Size
  <2>4. Changed(d, w, f) /\ Queue(f, w) = r /\ f.bank = bnk /\ f.waiting = d.waiting
        /\ Count(f, w) = Count(d, w) - 1
    BY <1>7, <2>1, <2>3 DEF Changed, Queue, Count
  <2> QED
    BY <1>4, <1>7, <2>4 DEF bnk, r, q, f
<1>8. CASE w = FALSE
  <2>1. f = [rq |-> r, wq |-> d.wq, bank |-> bnk, mode |-> d.mode,
             reads |-> d.reads - 1, writes |-> d.writes, waiting |-> d.waiting \ {a}]
    BY <1>5, <1>6, <1>8 DEF SetQueue, m, n, x, Answered
  <2>2. d.reads - 1 \in Nat
    BY <1>4, <1>8 DEF Count
  <2>3. f \in DType
    BY <1>2, <1>3, <1>8, <2>1, <2>2 DEF DType, Size
  <2>4. Changed(d, w, f) /\ Queue(f, w) = r /\ f.bank = bnk
        /\ f.waiting = d.waiting \ {a} /\ Count(f, w) = Count(d, w) - 1
    BY <1>8, <2>1, <2>3 DEF Changed, Queue, Count
  <2> QED
    BY <1>4, <1>8, <2>4 DEF bnk, r, q, f
<1> QED
  BY <1>7, <1>8

\* process: one request leaves its queue and frees its bank; a read is answered.
LEMMA ProcessInv ==
  ASSUME NEW d, DInv(d), NEW f \in Process(d, d.mode)
  PROVE  /\ DInv(f)
         /\ \/ Keeps(d, f)
            \/ \E a \in Addr :
                 IF d.mode
                 THEN /\ a \in Blocks(d.wq) /\ Blocks(f.wq) = Blocks(d.wq) \ {a}
                      /\ Blocks(f.rq) = Blocks(d.rq)
                 ELSE /\ a \in Blocks(d.rq) /\ Blocks(f.rq) = Blocks(d.rq) \ {a}
                      /\ Blocks(f.wq) = Blocks(d.wq)
<1> DEFINE w == d.mode
           q == Queue(d, w)
           a == q.entry[q.next]
           p == [q EXCEPT !.entry[q.next] = Free, !.order = Without(@, q.next)]
           g == Queue(f, w)
<1>1. CASE f = d
  BY <1>1 DEF Keeps
<1>2. CASE f # d
  <2>1. /\ d \in DType /\ w \in BOOLEAN /\ q \in QueueType(Size(w)) /\ Size(w) \in Nat
        /\ d.bank \in BankType
    BY DFields, Sizes DEF DInv
  <2>2. /\ Distinct(q) /\ Fresh(q) /\ Count(d, w) = Cardinality(Scheduled(q))
        /\ Serves(d.bank, q, w) /\ d.waiting = Blocks(d.rq)
    BY <2>1 DEF DInv
  <2>3. q.next # NoSlot /\ f = Complete(d, w)
    BY <1>2 DEF Process
  <2>4. /\ Changed(d, w, f)
        /\ f.waiting = IF w THEN d.waiting ELSE d.waiting \ {a}
        /\ g = UpdateProcess(p)
        /\ Count(f, w) = Cardinality(Scheduled(q) \ {q.next})
        /\ f.bank = [d.bank EXCEPT ![Bank[a]] = IdleBank(@.row)]
    BY <2>1, <2>2, <2>3, CompleteFields
  <2>5. /\ q.next \in Scheduled(q) /\ q.next \in Used(q)
        /\ p \in QueueType(Size(w)) /\ Distinct(p) /\ p.unscheduled = q.unscheduled
        /\ \A i \in Slots(Size(w)) \ {q.next} : p.entry[i] = q.entry[i]
        /\ Used(p) = Used(q) \ {q.next} /\ Blocks(p) = Blocks(q) \ {a}
        /\ Scheduled(p) = Scheduled(q) \ {q.next}
    BY <2>1, <2>2, <2>3, Completed DEF QueueType
  <2> HIDE DEF p, q, g
  <2>6. /\ g.entry = p.entry /\ g.order = p.order /\ g.unscheduled = p.unscheduled
        /\ g.next = IF p.order = <<>> THEN NoSlot ELSE Head(p.order)
    BY <2>4, <2>5 DEF UpdateProcess, QueueType
  <2>7. /\ Used(g) = Used(p) /\ Scheduled(g) = Scheduled(p) /\ Blocks(g) = Blocks(p)
    BY <2>6 DEF Used, Scheduled, Blocks
  <2>8. Unscheduled(g) = Unscheduled(q)
    BY <2>5, <2>7 DEF Unscheduled
  <2>9. Fresh(g) /\ Distinct(g)
    BY <2>2, <2>5, <2>6, <2>7, <2>8 DEF Fresh, Distinct
  <2>10. Count(f, w) = Cardinality(Scheduled(g))
    BY <2>4, <2>5, <2>7
  <2>11. a \in Addr /\ Bank[a] \in Banks /\ a \in Blocks(q)
    BY <2>1, <2>2, <2>5, ScheduledBanks DEF Blocks
  <2>12. Serves(f.bank, g, w)
    <3>1. /\ f.bank[Bank[a]].kind = "idle"
          /\ \A b \in Banks \ {Bank[a]} : f.bank[b] = d.bank[b]
      <4>1. /\ f.bank[Bank[a]] = IdleBank(d.bank[Bank[a]].row)
            /\ \A b \in Banks \ {Bank[a]} : f.bank[b] = d.bank[b]
        BY <2>1, <2>4, <2>11 DEF BankType
      <4> QED
        BY <4>1 DEF IdleBank
    <3>2. ASSUME NEW i \in Scheduled(q) \ {q.next}
          PROVE  Bank[q.entry[i]] # Bank[a] /\ Bank[q.entry[i]] \in Banks
                 /\ g.entry[i] = q.entry[i]
      BY <2>1, <2>2, <2>5, <2>6, ScheduledBanks DEF Serves
    <3>3. ASSUME NEW i \in Scheduled(g)
          PROVE  /\ f.bank[Bank[g.entry[i]]].request = i
                 /\ f.bank[Bank[g.entry[i]]].kind = Kind(w)
      BY <2>2, <2>5, <2>7, <3>1, <3>2 DEF Serves
    <3>4. ASSUME NEW b \in Banks, f.bank[b].kind # "idle"
          PROVE  \E i \in Scheduled(g) : Bank[g.entry[i]] = b
      <4>1. PICK i \in Scheduled(q) : Bank[q.entry[i]] = b
        BY <2>2, <3>1, <3>4 DEF Serves
      <4>2. i # q.next
        BY <3>1, <3>4, <4>1
      <4> QED
        BY <2>5, <2>7, <3>2, <4>1, <4>2
    <3> QED
      BY <3>3, <3>4 DEF Serves
  <2>13. IF w THEN Blocks(f.wq) = Blocks(d.wq) \ {a} /\ Blocks(f.rq) = Blocks(d.rq)
                   /\ a \in Blocks(d.wq)
         ELSE Blocks(f.rq) = Blocks(d.rq) \ {a} /\ Blocks(f.wq) = Blocks(d.wq)
              /\ a \in Blocks(d.rq)
    BY <2>1, <2>4, <2>5, <2>7, <2>11 DEF Changed, Queue, g, q
  <2>14. f.waiting = Blocks(f.rq)
    BY <2>1, <2>2, <2>4, <2>13
  <2>15. DInv(f)
    BY <2>4, <2>9, <2>10, <2>12, <2>14, ChangedInv DEF g
  <2> QED
    BY <2>1, <2>11, <2>13, <2>15
<1> QED
  BY <1>1, <1>2
-----------------------------------------------------------------------------
(* The steps of the controller. *)

LEMMA InitInv == Init => IInv
<1> SUFFICES ASSUME Init PROVE IInv
  OBVIOUS
<1>1. ASSUME NEW size \in Nat
      PROVE  LET q == EmptyQueue(size) IN
             /\ q \in QueueType(size) /\ q.order = <<>> /\ q.unscheduled = FALSE
             /\ q.next = NoSlot /\ Used(q) = {} /\ Scheduled(q) = {}
  <2> DEFINE q == EmptyQueue(size)
  <2>1. /\ q \in QueueType(size) /\ q.order = <<>> /\ q.unscheduled = FALSE
        /\ q.next = NoSlot
        /\ q.entry = [i \in Slots(size) |-> Free]
    BY EmptySeq DEF EmptyQueue, QueueType, Slots
  <2>2. DOMAIN q.order = {}
    BY <2>1
  <2> HIDE DEF q
  <2>3. Used(q) = {} /\ Scheduled(q) = {}
    BY <2>1, <2>2 DEF Used, Scheduled
  <2> QED
    BY <2>1, <2>3 DEF q
<1>2. \A size \in Nat : /\ Distinct(EmptyQueue(size)) /\ Fresh(EmptyQueue(size))
                        /\ Blocks(EmptyQueue(size)) = {}
                        /\ EmptyQueue(size) \in QueueType(size)
                        /\ EmptyQueue(size).order = <<>>
                        /\ Scheduled(EmptyQueue(size)) = {}
  <2> SUFFICES ASSUME NEW size \in Nat
               PROVE  /\ Distinct(EmptyQueue(size)) /\ Fresh(EmptyQueue(size))
                      /\ Blocks(EmptyQueue(size)) = {}
    BY <1>1
  <2> DEFINE q == EmptyQueue(size)
  <2>1. /\ q.order = <<>> /\ q.unscheduled = FALSE
        /\ q.next = NoSlot /\ Used(q) = {} /\ Scheduled(q) = {}
    BY <1>1
  <2> HIDE DEF q
  <2>2. DOMAIN q.order = {}
    BY <2>1
  <2>3. Distinct(q) /\ Fresh(q) /\ Blocks(q) = {}
    BY <2>1, <2>2 DEF Distinct, Fresh, Unscheduled, Blocks
  <2> QED
    BY <2>3 DEF q
<1> DEFINE d == State
<1>3. /\ d.rq = EmptyQueue(RqSize) /\ d.wq = EmptyQueue(WqSize)
      /\ d.mode = FALSE /\ d.reads = 0 /\ d.writes = 0 /\ d.waiting = {}
      /\ d.bank = [b \in Banks |-> IdleBank(NoRow)]
      /\ d = [rq |-> d.rq, wq |-> d.wq, bank |-> d.bank, mode |-> d.mode,
              reads |-> d.reads, writes |-> d.writes, waiting |-> d.waiting]
  BY DEF Init, State
<1> HIDE DEF d
<1>4. d.bank \in BankType /\ \A b \in Banks : d.bank[b].kind = "idle"
  <2>1. NoSlot \in Int
    BY DEF NoSlot
  <2> QED
    BY <1>3, <2>1 DEF BankType, IdleBank
<1>5. d \in DType
  <2>1. /\ d.rq \in QueueType(RqSize) /\ d.wq \in QueueType(WqSize) /\ d.mode \in BOOLEAN
        /\ d.reads \in Nat /\ d.writes \in Nat /\ d.waiting \in SUBSET Addr
    <3>1. /\ EmptyQueue(RqSize) \in QueueType(RqSize)
          /\ EmptyQueue(WqSize) \in QueueType(WqSize)
      BY <1>2, Sizes
    <3>2. d.rq = EmptyQueue(RqSize) /\ d.wq = EmptyQueue(WqSize) /\ d.mode = FALSE
          /\ d.reads = 0 /\ d.writes = 0 /\ d.waiting = {}
      BY <1>3
    <3>3. d.rq \in QueueType(RqSize) /\ d.wq \in QueueType(WqSize)
      BY <3>1, <3>2
    <3>4. d.mode \in BOOLEAN
      BY <3>2
    <3>5. d.reads \in Nat /\ d.writes \in Nat
      BY <3>2
    <3>6. d.waiting \in SUBSET Addr
      BY <3>2
    <3> QED
      BY <3>3, <3>4, <3>5, <3>6
  <2>2. d = [rq |-> d.rq, wq |-> d.wq, bank |-> d.bank, mode |-> d.mode,
             reads |-> d.reads, writes |-> d.writes, waiting |-> d.waiting]
    BY <1>3
  <2> QED
    BY <1>4, <2>1, <2>2 DEF DType
<1>6. ASSUME NEW w \in BOOLEAN
      PROVE  /\ Distinct(Queue(d, w)) /\ Fresh(Queue(d, w)) /\ Queue(d, w).order = <<>>
             /\ Count(d, w) = Cardinality(Scheduled(Queue(d, w)))
             /\ Scheduled(Queue(d, w)) = {}
  BY <1>2, <1>3, Sizes, FS_EmptySet DEF Queue, Count
<1>7. Serves(d.bank, Queue(d, d.mode), d.mode) /\ d.waiting = Blocks(d.rq)
      /\ Queue(d, ~d.mode).order = <<>>
  BY <1>2, <1>3, <1>4, <1>6, Sizes DEF Serves
<1>8. DInv(d)
  BY <1>5, <1>6, <1>7 DEF DInv
<1> QED
  BY <1>8 DEF IInv, d, Init

\* A queue that takes one more request: what the other parts of the state rely
\* on stays true.
LEMMA InsertInv ==
  ASSUME NEW d, DInv(d), NEW w \in BOOLEAN, ~Full(Queue(d, w)),
         NEW a \in Addr, a \notin Blocks(Queue(d, w)),
         NEW f \in DType, f.bank = d.bank, f.mode = d.mode,
         f.reads = d.reads, f.writes = d.writes,
         Queue(f, w) = Insert(Queue(d, w), a), Queue(f, ~w) = Queue(d, ~w),
         f.waiting = IF w THEN d.waiting ELSE d.waiting \cup {a}
  PROVE  DInv(f) /\ Blocks(Queue(f, w)) = Blocks(Queue(d, w)) \cup {a}
<1> DEFINE q == Queue(d, w)
           g == Queue(f, w)
<1>1. /\ d \in DType /\ q \in QueueType(Size(w)) /\ Size(w) \in Nat /\ d.mode \in BOOLEAN
      /\ d.bank \in BankType
  BY DFields, Sizes DEF DInv
<1>2. Distinct(q) /\ Fresh(q)
  BY DEF DInv
<1> HIDE DEF q, g
<1>3. /\ Distinct(g) /\ Fresh(g) /\ g.order = q.order /\ Scheduled(g) = Scheduled(q)
      /\ \A i \in Used(q) : g.entry[i] = q.entry[i]
      /\ Blocks(g) = Blocks(q) \cup {a}
  BY <1>1, <1>2, Inserted DEF q, g
<1>4. ASSUME NEW v \in BOOLEAN
      PROVE  /\ Distinct(Queue(f, v)) /\ Fresh(Queue(f, v))
             /\ Count(f, v) = Cardinality(Scheduled(Queue(f, v)))
             /\ Queue(f, v).order = Queue(d, v).order
             /\ Scheduled(Queue(f, v)) = Scheduled(Queue(d, v))
             /\ \A i \in Scheduled(Queue(d, v)) : Queue(f, v).entry[i] = Queue(d, v).entry[i]
  <2>1. CASE v = w
    BY <1>2, <1>3, <2>1 DEF DInv, Count, Distinct, q, g
  <2>2. CASE v = ~w
    BY <2>2 DEF DInv, Count
  <2> QED
    BY <2>1, <2>2
<1>5. Serves(f.bank, Queue(f, f.mode), f.mode) /\ Queue(f, ~f.mode).order = <<>>
  BY <1>1, <1>4 DEF DInv, Serves
<1>6. f.waiting = Blocks(f.rq)
  BY <1>3 DEF DInv, Queue, q, g
<1> QED
  BY <1>3, <1>4, <1>5, <1>6 DEF DInv, q, g

LEMMA StateFields ==
  /\ State = [rq |-> rq, wq |-> wq, bank |-> bank, mode |-> writeMode,
              reads |-> scheduledReads, writes |-> scheduledWrites, waiting |-> waiting]
  /\ State.rq = rq /\ State.wq = wq /\ State.bank = bank /\ State.mode = writeMode
  /\ State.reads = scheduledReads /\ State.writes = scheduledWrites
  /\ State.waiting = waiting
BY DEF State

\* One step of the controller, in terms of State: what it does to the queues and
\* that it keeps the invariant.
LEMMA OperateStep ==
  ASSUME DInv(State), Operate
  PROVE  /\ DInv(State') /\ warm' = warm
         /\ \/ Blocks(rq)' = Blocks(rq) /\ Blocks(wq)' = Blocks(wq)
            \/ \E a \in Addr : P!Return(a) \/ P!Drain(a)
<1> DEFINE Becomes(f) ==
             /\ rq' = f.rq /\ wq' = f.wq /\ bank' = f.bank /\ writeMode' = f.mode
             /\ scheduledReads' = f.reads /\ scheduledWrites' = f.writes
             /\ waiting' = f.waiting
<1>a. PICK d \in Switch(State) :
        \E e \in Schedule(d, d.mode) : \E f \in Process(e, e.mode) : Becomes(f)
  BY DEF Operate
<1>b. PICK e \in Schedule(d, d.mode) : \E f \in Process(e, e.mode) : Becomes(f)
  BY <1>a
<1>1. PICK f \in Process(e, e.mode) : Becomes(f)
  BY <1>b
<1>2. DInv(d) /\ Keeps(State, d)
  BY SwitchInv
<1>3. DInv(e) /\ Keeps(d, e)
  BY <1>2, ScheduleInv
<1>4. /\ DInv(f)
      /\ \/ Keeps(e, f)
         \/ \E a \in Addr :
              IF e.mode
              THEN /\ a \in Blocks(e.wq) /\ Blocks(f.wq) = Blocks(e.wq) \ {a}
                   /\ Blocks(f.rq) = Blocks(e.rq)
              ELSE /\ a \in Blocks(e.rq) /\ Blocks(f.rq) = Blocks(e.rq) \ {a}
                   /\ Blocks(f.wq) = Blocks(e.wq)
  BY <1>3, ProcessInv
<1>5. State' = f
  <2>1. f = [rq |-> f.rq, wq |-> f.wq, bank |-> f.bank, mode |-> f.mode,
             reads |-> f.reads, writes |-> f.writes, waiting |-> f.waiting]
    BY <1>4 DEF DInv, DType
  <2> QED
    BY <1>1, <2>1 DEF State
<1>6. Blocks(e.rq) = Blocks(rq) /\ Blocks(e.wq) = Blocks(wq)
  BY <1>2, <1>3, StateFields DEF Keeps
<1>7. Blocks(rq)' = Blocks(f.rq) /\ Blocks(wq)' = Blocks(f.wq)
  BY <1>1 DEF Blocks, Used
<1>8. \/ Blocks(rq)' = Blocks(rq) /\ Blocks(wq)' = Blocks(wq)
      \/ \E a \in Addr : P!Return(a) \/ P!Drain(a)
  BY <1>4, <1>6, <1>7 DEF Keeps, P!Return, P!Drain
<1> QED
  BY <1>4, <1>5, <1>8 DEF Operate

LEMMA AddRqStep ==
  ASSUME DInv(State), NEW a \in Addr, AddRq(a)
  PROVE  /\ DInv(State') /\ warm' = warm
         /\ \/ Blocks(rq)' = Blocks(rq) /\ Blocks(wq)' = Blocks(wq)
            \/ P!Read(a)
<1>1. /\ wq' = wq /\ bank' = bank /\ writeMode' = writeMode
      /\ scheduledReads' = scheduledReads /\ scheduledWrites' = scheduledWrites
      /\ warm' = warm /\ a \notin waiting /\ ~Full(rq)
  BY DEF AddRq
<1>2. CASE rq' = rq /\ waiting' = waiting
  <2>1. State' = State
    BY <1>1, <1>2 DEF State
  <2> QED
    BY <1>1, <1>2, <2>1 DEF Blocks, Used
<1>3. CASE ~Forwarded(a)
  <2>1. waiting' = waiting \cup {a} /\ a \notin Blocks(wq) /\ waiting = Blocks(rq)
    BY <1>3, StateFields DEF AddRq, Forwarded, DInv
  <2>2. rq' = Insert(rq, a) /\ a \notin Blocks(rq)
    BY <1>1, <1>3, <2>1 DEF AddRq
  <2> DEFINE f == State'
  <2>3. /\ f.rq = Insert(rq, a) /\ f.wq = wq /\ f.bank = bank /\ f.mode = writeMode
        /\ f.reads = scheduledReads /\ f.writes = scheduledWrites
        /\ f.waiting = waiting \cup {a}
        /\ f = [rq |-> f.rq, wq |-> f.wq, bank |-> f.bank, mode |-> f.mode,
                reads |-> f.reads, writes |-> f.writes, waiting |-> f.waiting]
    BY <1>1, <2>1, <2>2 DEF State
  <2> HIDE DEF f
  <2>4. State \in DType /\ rq \in QueueType(RqSize) /\ Distinct(rq) /\ Fresh(rq)
    BY StateFields, DFields DEF DInv, Queue, DType
  <2>5. f \in DType
    <3>1. Insert(rq, a) \in QueueType(RqSize)
      BY <1>1, <2>2, <2>4, Inserted, Sizes
    <3> QED
      BY <2>3, <2>4, <3>1, StateFields DEF DType
  <2>6. /\ Queue(f, FALSE) = Insert(Queue(State, FALSE), a)
        /\ Queue(f, ~FALSE) = Queue(State, ~FALSE)
        /\ Queue(State, FALSE) = rq
    BY <2>3, StateFields DEF Queue
  <2>7. DInv(f) /\ Blocks(Queue(f, FALSE)) = Blocks(rq) \cup {a}
    <3>1. /\ ~Full(Queue(State, FALSE)) /\ a \notin Blocks(Queue(State, FALSE))
          /\ f.bank = State.bank /\ f.mode = State.mode /\ f.reads = State.reads
          /\ f.writes = State.writes
          /\ f.waiting = IF FALSE THEN State.waiting ELSE State.waiting \cup {a}
      BY <1>1, <2>2, <2>3, <2>6, StateFields
    <3>2. DInv(f) /\ Blocks(Queue(f, FALSE)) = Blocks(Queue(State, FALSE)) \cup {a}
      BY <2>5, <2>6, <3>1, InsertInv
    <3> QED
      BY <2>6, <3>2
  <2>8. Blocks(rq)' = Blocks(rq) \cup {a} /\ Blocks(wq)' = Blocks(wq)
    <3>1. rq' = Queue(f, FALSE) /\ wq' = wq
      BY <1>1, <2>2, <2>6
    <3>2. Blocks(rq)' = Blocks(Queue(f, FALSE)) /\ Blocks(wq)' = Blocks(wq)
      BY <3>1 DEF Blocks, Used
    <3> QED
      BY <2>7, <3>2
  <2> QED
    BY <1>1, <2>1, <2>7, <2>8 DEF f, P!Read
<1> QED
  BY <1>2, <1>3 DEF AddRq

LEMMA AddWqStep ==
  ASSUME DInv(State), NEW a \in Addr, AddWq(a)
  PROVE  /\ DInv(State') /\ warm' = warm
         /\ \/ Blocks(rq)' = Blocks(rq) /\ Blocks(wq)' = Blocks(wq)
            \/ P!Write(a)
<1>1. /\ rq' = rq /\ bank' = bank /\ writeMode' = writeMode
      /\ scheduledReads' = scheduledReads /\ scheduledWrites' = scheduledWrites
      /\ warm' = warm /\ waiting' = waiting /\ ~Full(wq)
  BY DEF AddWq
<1>2. CASE wq' = wq
  <2>1. State' = State
    BY <1>1, <1>2 DEF State
  <2> QED
    BY <1>1, <1>2, <2>1 DEF Blocks, Used
<1>3. CASE wq' # wq
  <2>1. wq' = Insert(wq, a) /\ a \notin Blocks(wq)
    BY <1>3 DEF AddWq
  <2> DEFINE f == State'
  <2>2. /\ f.wq = Insert(wq, a) /\ f.rq = rq /\ f.bank = bank /\ f.mode = writeMode
        /\ f.reads = scheduledReads /\ f.writes = scheduledWrites
        /\ f.waiting = waiting
        /\ f = [rq |-> f.rq, wq |-> f.wq, bank |-> f.bank, mode |-> f.mode,
                reads |-> f.reads, writes |-> f.writes, waiting |-> f.waiting]
    BY <1>1, <2>1 DEF State
  <2> HIDE DEF f
  <2>3. State \in DType /\ wq \in QueueType(WqSize) /\ Distinct(wq) /\ Fresh(wq)
    BY StateFields, DFields DEF DInv, Queue, DType
  <2>4. f \in DType
    <3>1. Insert(wq, a) \in QueueType(WqSize)
      BY <1>1, <2>1, <2>3, Inserted, Sizes
    <3> QED
      BY <2>2, <2>3, <3>1, StateFields DEF DType
  <2>5. /\ Queue(f, TRUE) = Insert(Queue(State, TRUE), a)
        /\ Queue(f, ~TRUE) = Queue(State, ~TRUE)
        /\ Queue(State, TRUE) = wq
    BY <2>2, StateFields DEF Queue
  <2>6. DInv(f) /\ Blocks(Queue(f, TRUE)) = Blocks(wq) \cup {a}
    <3>1. /\ ~Full(Queue(State, TRUE)) /\ a \notin Blocks(Queue(State, TRUE))
          /\ f.bank = State.bank /\ f.mode = State.mode /\ f.reads = State.reads
          /\ f.writes = State.writes
          /\ f.waiting = IF TRUE THEN State.waiting ELSE State.waiting \cup {a}
      BY <1>1, <2>1, <2>2, <2>5, StateFields
    <3>2. DInv(f) /\ Blocks(Queue(f, TRUE)) = Blocks(Queue(State, TRUE)) \cup {a}
      BY <2>4, <2>5, <3>1, InsertInv
    <3> QED
      BY <2>5, <3>2
  <2>7. Blocks(wq)' = Blocks(wq) \cup {a} /\ Blocks(rq)' = Blocks(rq)
    <3>1. wq' = Queue(f, TRUE) /\ rq' = rq
      BY <1>1, <2>1, <2>5
    <3>2. Blocks(wq)' = Blocks(Queue(f, TRUE)) /\ Blocks(rq)' = Blocks(rq)
      BY <3>1 DEF Blocks, Used
    <3> QED
      BY <2>6, <3>2
  <2> QED
    BY <1>1, <2>6, <2>7 DEF f, P!Write
<1> QED
  BY <1>2, <1>3

\* Every step keeps the invariant and is a step of MemoryPort or leaves the
\* queued blocks alone.
LEMMA NextStep ==
  ASSUME IInv, [Next]_vars
  PROVE  IInv' /\ [P!Next]_<<Blocks(rq), Blocks(wq)>>
<1> DEFINE Queued == Blocks(rq)' = Blocks(rq) /\ Blocks(wq)' = Blocks(wq)
<1>1. DInv(State) /\ warm \in BOOLEAN
  BY DEF IInv
<1>2. CASE UNCHANGED vars \/ WarmupComplete
  <2>1. State' = State /\ warm' \in BOOLEAN /\ Queued
    BY <1>1, <1>2 DEF State, vars, WarmupComplete, Blocks, Used
  <2> QED
    BY <1>1, <2>1 DEF IInv
<1>3. CASE Operate
  BY <1>1, <1>3, OperateStep DEF IInv, P!Next
<1>4. ASSUME NEW a \in Addr, AddRq(a) PROVE IInv' /\ [P!Next]_<<Blocks(rq), Blocks(wq)>>
  BY <1>1, <1>4, AddRqStep DEF IInv, P!Next
<1>5. ASSUME NEW a \in Addr, AddWq(a) PROVE IInv' /\ [P!Next]_<<Blocks(rq), Blocks(wq)>>
  BY <1>1, <1>5, AddWqStep DEF IInv, P!Next
<1> QED
  BY <1>2, <1>3, <1>4, <1>5 DEF Next, Request
-----------------------------------------------------------------------------
(* The theorems. *)

LEMMA Invariance == Spec => []IInv
<1> QED
  BY InitInv, NextStep, PTL DEF Spec

\* The queues of a controller that satisfies the invariant.
LEMMA Queues ==
  ASSUME IInv
  PROVE  /\ rq \in QueueType(RqSize) /\ wq \in QueueType(WqSize)
         /\ Distinct(rq) /\ Distinct(wq) /\ Fresh(rq) /\ Fresh(wq)
         /\ bank \in BankType /\ writeMode \in BOOLEAN /\ warm \in BOOLEAN
         /\ waiting \in SUBSET Addr /\ waiting = Blocks(rq)
         /\ scheduledReads = Cardinality(Scheduled(rq))
         /\ scheduledWrites = Cardinality(Scheduled(wq))
         /\ IF writeMode THEN rq.order = <<>> /\ Serves(bank, wq, TRUE)
            ELSE wq.order = <<>> /\ Serves(bank, rq, FALSE)
<1>1. Queue(State, TRUE) = wq /\ Queue(State, FALSE) = rq
      /\ Count(State, TRUE) = scheduledWrites /\ Count(State, FALSE) = scheduledReads
  BY StateFields DEF Queue, Count
<1>2. State \in DType /\ warm \in BOOLEAN
  BY DEF IInv, DInv
<1>3. /\ rq \in QueueType(RqSize) /\ wq \in QueueType(WqSize)
      /\ bank \in BankType /\ writeMode \in BOOLEAN /\ waiting \in SUBSET Addr
  BY <1>2, StateFields DEF DType
<1>4. \A w \in BOOLEAN : /\ Distinct(Queue(State, w)) /\ Fresh(Queue(State, w))
                         /\ Count(State, w) = Cardinality(Scheduled(Queue(State, w)))
  BY DEF IInv, DInv
<1>5. /\ Distinct(rq) /\ Distinct(wq) /\ Fresh(rq) /\ Fresh(wq)
      /\ scheduledReads = Cardinality(Scheduled(rq))
      /\ scheduledWrites = Cardinality(Scheduled(wq))
  BY <1>1, <1>4
<1>6. /\ Serves(bank, Queue(State, writeMode), writeMode)
      /\ Queue(State, ~writeMode).order = <<>> /\ waiting = Blocks(rq)
  BY StateFields DEF IInv, DInv
<1>7. CASE writeMode = TRUE
  BY <1>1, <1>2, <1>3, <1>5, <1>6, <1>7
<1>8. CASE writeMode = FALSE
  BY <1>1, <1>2, <1>3, <1>5, <1>6, <1>8
<1> QED
  BY <1>3, <1>7, <1>8

\* The counters of scheduled requests, which the code keeps by hand, count what
\* the queues hold as scheduled for every queue size: the assertions at the end
\* of reset_remain_requests hold and the unsigned counters never wrap.
THEOREM CountersCorrect == Spec => []CountersMatch
<1>1. IInv => CountersMatch
  <2> SUFFICES ASSUME IInv PROVE CountersMatch
    OBVIOUS
  <2>1. /\ Scheduled(rq) \in SUBSET Slots(RqSize) /\ Scheduled(wq) \in SUBSET Slots(WqSize)
    BY Queues, QueueFields, Sizes
  <2>2. Cardinality(Scheduled(rq)) \in 0..RqSize /\ Cardinality(Scheduled(wq)) \in 0..WqSize
    BY <2>1, SlotsFinite, Sizes
  <2> QED
    BY <2>2, Queues DEF CountersMatch, TypeOK, BankType
<1> QED
  BY <1>1, Invariance, PTL

\* A bank works for exactly one scheduled request and holds its slot, for any
\* number of banks: the assertion of process on request_index holds.
THEOREM BanksCorrect == Spec => []BanksMatchQueues
<1>1. IInv => BanksMatchQueues
  <2> SUFFICES ASSUME IInv PROVE BanksMatchQueues
    OBVIOUS
  <2> DEFINE busy == {b \in Banks : bank[b].kind # "idle"}
  <2>1. Queue(State, TRUE) = wq /\ Queue(State, FALSE) = rq
    BY StateFields DEF Queue
  <2>2. \A q : q.order = <<>> => Scheduled(q) = {}
    BY DEF Scheduled
  <2>3. Cardinality({}) = 0
    BY FS_EmptySet
  <2>4. ASSUME NEW w \in BOOLEAN, NEW q \in QueueType(Size(w)), Distinct(q), Serves(bank, q, w)
        PROVE  /\ \A i \in Scheduled(q) : /\ bank[Bank[q.entry[i]]].request = i
                                          /\ bank[Bank[q.entry[i]]].kind = Kind(w)
               /\ Cardinality(busy) = Cardinality(Scheduled(q))
               /\ Cardinality(Scheduled(q)) \in Nat
    <3>1. Cardinality(Scheduled(q)) \in Nat
      BY <2>4, SlotsFinite, QueueFields, Sizes
    <3>2. Cardinality(busy) = Cardinality(Scheduled(q))
      BY <2>4, Queues, Serving, Sizes
    <3> QED
      BY <2>4, <3>1, <3>2 DEF Serves
  <2>5. CASE writeMode = TRUE
    <3>1. /\ \A i \in Scheduled(wq) : /\ bank[Bank[wq.entry[i]]].request = i
                                      /\ bank[Bank[wq.entry[i]]].kind = "write"
          /\ Cardinality(busy) = Cardinality(Scheduled(wq))
          /\ Cardinality(Scheduled(wq)) \in Nat
      BY <2>4, <2>5, Queues DEF Size, Kind
    <3>2. Scheduled(rq) = {}
      BY <2>2, <2>5, Queues
    <3>3. ASSUME NEW w \in BOOLEAN, NEW i \in Scheduled(Queue(State, w))
          PROVE  /\ bank[Bank[Queue(State, w).entry[i]]].request = i
                 /\ bank[Bank[Queue(State, w).entry[i]]].kind = Kind(w)
      <4>1. w = TRUE
        BY <2>1, <3>2
      <4> QED
        BY <2>1, <3>1, <4>1 DEF Kind
    <3>4. Cardinality(busy) = Cardinality(Scheduled(rq)) + Cardinality(Scheduled(wq))
      BY <2>3, <3>1, <3>2
    <3> QED
      BY <3>3, <3>4 DEF BanksMatchQueues, Kind
  <2>6. CASE writeMode = FALSE
    <3>1. /\ \A i \in Scheduled(rq) : /\ bank[Bank[rq.entry[i]]].request = i
                                      /\ bank[Bank[rq.entry[i]]].kind = "read"
          /\ Cardinality(busy) = Cardinality(Scheduled(rq))
          /\ Cardinality(Scheduled(rq)) \in Nat
      BY <2>4, <2>6, Queues DEF Size, Kind
    <3>2. Scheduled(wq) = {}
      BY <2>2, <2>6, Queues
    <3>3. ASSUME NEW w \in BOOLEAN, NEW i \in Scheduled(Queue(State, w))
          PROVE  /\ bank[Bank[Queue(State, w).entry[i]]].request = i
                 /\ bank[Bank[Queue(State, w).entry[i]]].kind = Kind(w)
      <4>1. w = FALSE
        BY <2>1, <3>2
      <4> QED
        BY <2>1, <3>1, <4>1 DEF Kind
    <3>4. Cardinality(busy) = Cardinality(Scheduled(rq)) + Cardinality(Scheduled(wq))
      BY <2>3, <3>1, <3>2
    <3> QED
      BY <3>3, <3>4 DEF BanksMatchQueues, Kind
  <2> QED
    BY <2>5, <2>6, Queues
<1> QED
  BY <1>1, Invariance, PTL

\* Between cycles only the queue of the current mode has scheduled requests.
THEOREM OneDirectionHolds == Spec => []OneDirection
<1>1. IInv => OneDirection
  BY Queues DEF OneDirection
<1> QED
  BY <1>1, Invariance, PTL

\* next_schedule_index and next_process_index, which the code refreshes by hand,
\* are what a scan of the queue would find, whatever the queue sizes.
THEOREM CachesFresh == Spec => []CachesAreFresh
<1>1. IInv => CachesAreFresh
  BY Queues DEF CachesAreFresh, Fresh
<1> QED
  BY <1>1, Invariance, PTL

\* The LLC waits for exactly the blocks in the read queue, through every mode
\* switch and forwarded read.
THEOREM WaitsQueued == Spec => []WaitsAreQueued
<1>1. IInv => WaitsAreQueued
  BY Queues DEF WaitsAreQueued
<1> QED
  BY <1>1, Invariance, PTL

\* The controller implements the port the LLC relies on: one cycle completes at
\* most one request, and none is lost, invented or answered twice.
THEOREM PortImplemented == Spec => ImplementsPort
<1>1. Init => P!Init
  <2> SUFFICES ASSUME Init PROVE P!Init
    OBVIOUS
  <2>1. \A size : Used(EmptyQueue(size)) = {}
    BY DEF Used, EmptyQueue
  <2> QED
    BY <2>1 DEF Init, P!Init, Blocks
<1>2. IInv /\ [Next]_vars => [P!Next]_<<Blocks(rq), Blocks(wq)>>
  BY NextStep
<1> QED
  BY <1>1, <1>2, Invariance, PTL DEF Spec, ImplementsPort, P!Spec, P!vars
=============================================================================
