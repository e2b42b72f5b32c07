------------------------ MODULE OutOfOrderCore_proofs ------------------------
(***************************************************************************)
(* Theorems about OutOfOrderCore for every size of the reorder buffer and   *)
(* of the load and store queues and for every trace: fetch runs in order    *)
(* and no instruction starts before its register operands are ready.  Then  *)
(* the invariant of the load and store queues, and the steps that leave     *)
(* them alone or move one entry on; MemoryQueues_proofs has the others.     *)
(***************************************************************************)
EXTENDS OutOfOrderCore, SequenceTheorems, FiniteSetTheorems,
        WellFoundedInduction, TLAPS

-----------------------------------------------------------------------------
(* The inductive invariant, in parts.                                      *)

\* An entry of the ROB is a record with these fields.
Fields(r) ==
  [id |-> r.id, mispredicted |-> r.mispredicted, translated |-> r.translated,
   fetched |-> r.fetched, scheduled |-> r.scheduled, executed |-> r.executed,
   reg_ready |-> r.reg_ready, num_reg_dependent |-> r.num_reg_dependent,
   num_mem_ops |-> r.num_mem_ops, regs_depend_on_me |-> r.regs_depend_on_me,
   mem_depend_on_me |-> r.mem_depend_on_me, lq_index |-> r.lq_index,
   sq_index |-> r.sq_index, got |-> r.got]
Shaped(r) == r = [k \in RobIndex |-> Fields(r[k])]

Types ==
  /\ program \in Programs
  /\ instr_unique_id \in 1 .. Len(program) + 1
  /\ head \in RobIndex /\ tail \in RobIndex
  /\ last_read \in RobIndex /\ last_fetch \in RobIndex
  /\ fetch_stall \in BOOLEAN
  /\ itlb \subseteq RobIndex
  /\ Shaped(rob)
  /\ rte = <<rte[1], rte[2]>>
  /\ \A n \in 1 .. 2 : rte[n] \in Seq(RobIndex)

\* The age of the entry after the x-th one of the ROB: the pointers wrap.
Wrap(x) == IF x = RobSize THEN 0 ELSE x

Sent(k) == rob[k].translated # "no" \/ k \in itlb

\* The n instructions in the ROB are consecutive ones of the trace, the first
\* t of them have been sent to the ITLB, the first f to the L1I.
Window(n, t, f) ==
  /\ n \in 0 .. RobSize /\ n < instr_unique_id /\ t \in 0 .. n /\ f \in 0 .. n
  /\ Age(tail) = Wrap(n)
  /\ Age(Next1(last_read, RobSize)) = Wrap(t)
  /\ Age(Next1(last_fetch, RobSize)) = Wrap(f)
  /\ \A k \in RobIndex :
       /\ rob[k].id = IF Age(k) < n THEN instr_unique_id - n + Age(k) ELSE 0
       /\ Sent(k) <=> Age(k) < t
       /\ rob[k].fetched # "no" <=> Age(k) < f
       /\ k \in itlb => rob[k].translated = "no"
  /\ n = RobSize => rob[head].translated = "COMPLETED"

FrontEnd == \E n, t, f \in 0 .. RobSize : Window(n, t, f)

\* Each stage of an instruction follows the one before it.
Stages ==
  \A k \in RobIndex :
    /\ rob[k].fetched # "no" => rob[k].translated = "COMPLETED"
    /\ rob[k].scheduled # "no" => rob[k].fetched = "COMPLETED"
    /\ rob[k].scheduled = "INFLIGHT" => rob[k].executed = "no"

Unresolved(k) == rob[k].mispredicted /\ rob[k].executed # "COMPLETED"

\* Reading stalls for one mispredicted branch at a time.
Stall ==
  /\ fetch_stall <=> \E k \in RobIndex : Unresolved(k)
  /\ \A k, l \in RobIndex : Unresolved(k) /\ Unresolved(l) => k = l
  /\ \A k \in RobIndex : ~Busy(k) => ~Unresolved(k)

\* A Ready-To-Execute list holds an instruction at most once, and only while
\* it has its operands and has not begun to execute.
Lists ==
  /\ \A n \in 1 .. 2 : \A x \in 1 .. Len(rte[n]) :
       LET k == rte[n][x] IN
       /\ Busy(k) /\ ~IsMemory(k)
       /\ rob[k].reg_ready /\ rob[k].scheduled = "COMPLETED" /\ rob[k].executed = "no"
  /\ \A n, m \in 1 .. 2 : \A x \in 1 .. Len(rte[n]), y \in 1 .. Len(rte[m]) :
       rte[n][x] = rte[m][y] => n = m /\ x = y

\* <<d, j>> in regs_depend_on_me of k: source j of d waits for k, an older
\* instruction; it waits for one at a time.
Deps ==
  /\ \A k \in RobIndex : \A e \in rob[k].regs_depend_on_me :
       /\ e = <<e[1], e[2]>>
       /\ e[1] \in RobIndex /\ Busy(e[1]) /\ rob[e[1]].scheduled # "no"
       /\ Busy(k) /\ Age(k) < Age(e[1])
       /\ e[2] \in 1 .. Len(Op(e[1]).src)
  /\ \A k, l \in RobIndex : \A e \in rob[k].regs_depend_on_me :
       /\ rob[k].executed # "COMPLETED" /\ rob[l].executed # "COMPLETED"
       /\ e \in rob[l].regs_depend_on_me
       => k = l

\* The sources of d that wait for an instruction.
Pending(d) ==
  {j \in 1 .. Len(Op(d).src) : \E k \in RobIndex :
     <<d, j>> \in rob[k].regs_depend_on_me /\ rob[k].executed # "COMPLETED"}

\* num_reg_dependent counts them, and reg_ready says that there are none.
Counts ==
  \A d \in RobIndex :
    /\ rob[d].scheduled = "no" => rob[d].num_reg_dependent = 0 /\ rob[d].reg_ready = FALSE
    /\ rob[d].scheduled # "no" =>
         /\ rob[d].num_reg_dependent = Cardinality(Pending(d))
         /\ rob[d].reg_ready = (Pending(d) = {})

Writers(i, j) == {k \in Older(i) : Op(i).src[j] \in Op(k).dst}

\* Source j of a scheduled instruction waits for the youngest older writer of
\* its register unless that one has executed.
Operands ==
  \A i \in RobIndex : rob[i].scheduled # "no" =>
    \A j \in 1 .. Len(Op(i).src) : \A k \in Writers(i, j) :
      (\A m \in Writers(i, j) : Age(m) <= Age(k)) =>
        rob[k].executed = "COMPLETED" \/ <<i, j>> \in rob[k].regs_depend_on_me

InQueues(i) == (Range(rob[i].lq_index) \cup Range(rob[i].sq_index)) \ {NoIndex} # {}

\* Only instructions with their operands execute or enter the queues.
Ready ==
  \A i \in RobIndex : rob[i].executed # "no" \/ InQueues(i) => rob[i].reg_ready

BackEnd == Stall /\ Lists /\ Deps /\ Counts /\ Operands /\ Ready
CInv == Types /\ FrontEnd /\ Stages /\ BackEnd

-----------------------------------------------------------------------------
(* Ages.                                                                   *)

\* The distance from h to i around the ROB.
LEMMA Distance ==
  ASSUME NEW h \in RobIndex, NEW i \in RobIndex
  PROVE  /\ (i - h + RobSize) % RobSize = IF i >= h THEN i - h ELSE i - h + RobSize
         /\ (i - h + RobSize) % RobSize \in 0 .. RobSize - 1
<1>1. RobSize \in Nat /\ RobSize >= 2 /\ h \in 0 .. RobSize - 1 /\ i \in 0 .. RobSize - 1
  BY CoreSizes DEF RobIndex
<1>2. CASE i >= h
  <2>1. (i - h + RobSize) = 1 * RobSize + (i - h) /\ i - h \in 0 .. RobSize - 1
    BY <1>1, <1>2
  <2>2. (i - h + RobSize) % RobSize = i - h
    BY <1>1, <2>1
  <2> QED
    BY <1>1, <1>2, <2>1, <2>2
<1>3. CASE i < h
  <2>1. i - h + RobSize \in 0 .. RobSize - 1
    BY <1>1, <1>3
  <2>2. (i - h + RobSize) % RobSize = i - h + RobSize
    BY <1>1, <2>1
  <2> QED
    BY <1>1, <1>3, <2>1, <2>2
<1> QED
  BY <1>1, <1>2, <1>3

LEMMA AgeValue ==
  ASSUME head \in RobIndex, NEW i \in RobIndex
  PROVE  /\ Age(i) = IF i >= head THEN i - head ELSE i - head + RobSize
         /\ Age(i) \in 0 .. RobSize - 1
BY Distance DEF Age

LEMMA AgeInjective ==
  ASSUME head \in RobIndex, NEW i \in RobIndex, NEW k \in RobIndex, Age(i) = Age(k)
  PROVE  i = k
BY AgeValue, CoreSizes DEF RobIndex

LEMMA HeadAge ==
  ASSUME head \in RobIndex
  PROVE  Age(head) = 0
BY AgeValue, CoreSizes DEF RobIndex

\* Next1 advances the age by one and wraps.
LEMMA NextValue ==
  ASSUME NEW i \in RobIndex
  PROVE  /\ Next1(i, RobSize) = IF i = RobSize - 1 THEN 0 ELSE i + 1
         /\ Next1(i, RobSize) \in RobIndex
<1>1. RobSize \in Nat /\ RobSize >= 2 /\ i \in 0 .. RobSize - 1
  BY CoreSizes DEF RobIndex
<1>2. CASE i = RobSize - 1
  <2>1. (i + 1) % RobSize = 0
    BY <1>1, <1>2
  <2> QED
    BY <1>1, <1>2, <2>1 DEF Next1, RobIndex
<1>3. CASE i < RobSize - 1
  <2>1. (i + 1) % RobSize = i + 1
    BY <1>1, <1>3
  <2> QED
    BY <1>1, <1>3, <2>1 DEF Next1, RobIndex
<1> QED
  BY <1>1, <1>2, <1>3

LEMMA NextAge ==
  ASSUME head \in RobIndex, NEW i \in RobIndex
  PROVE  Age(Next1(i, RobSize)) = Wrap(Age(i) + 1)
<1>1. Next1(i, RobSize) \in RobIndex
  BY NextValue
<1> QED
  BY <1>1, NextValue, AgeValue, CoreSizes DEF Wrap, RobIndex

\* When the head advances, everything is one younger and the old head last.
LEMMA RetireAge ==
  ASSUME head \in RobIndex, head' = Next1(head, RobSize), NEW i \in RobIndex
  PROVE  Age(i)' = IF Age(i) = 0 THEN RobSize - 1 ELSE Age(i) - 1
<1>1. head' \in RobIndex
  BY NextValue
<1>2. Age(i)' = IF i >= head' THEN i - head' ELSE i - head' + RobSize
  BY <1>1, Distance DEF Age
<1> QED
  BY <1>2, NextValue, AgeValue, CoreSizes DEF RobIndex
-----------------------------------------------------------------------------
(* Records of the ROB.                                                     *)

SameId(a, b) == a.id = b.id /\ a.mispredicted = b.mispredicted
SameFetch(a, b) == a.translated = b.translated /\ a.fetched = b.fetched
SameSched(a, b) ==
  /\ a.scheduled = b.scheduled /\ a.reg_ready = b.reg_ready
  /\ a.num_reg_dependent = b.num_reg_dependent
  /\ a.regs_depend_on_me = b.regs_depend_on_me
SameQueues(a, b) == a.lq_index = b.lq_index /\ a.sq_index = b.sq_index

\* Two records of the same shape with the same fields are equal; a record that
\* is built field by field has the shape.
LEMMA FieldsShape ==
  ASSUME NEW r, NEW s, s = [k \in RobIndex |-> Fields(r[k])]
  PROVE  Shaped(s) /\ \A k \in RobIndex : s[k] = Fields(r[k])
BY DEF Fields, Shaped

WithTranslated(r, i, v) == [r EXCEPT ![i].translated = v]
LEMMA SetTranslated ==
  ASSUME NEW r, Shaped(r), NEW i \in RobIndex, NEW v, NEW s,
         s = WithTranslated(r, i, v)
  PROVE  /\ Shaped(s)
         /\ \A k \in RobIndex :
              /\ SameId(s[k], r[k]) /\ SameSched(s[k], r[k]) /\ SameQueues(s[k], r[k])
              /\ s[k].executed = r[k].executed /\ s[k].fetched = r[k].fetched
              /\ s[k].translated = IF k = i THEN v ELSE r[k].translated
<1>1. \A k \in RobIndex : r[k] = Fields(r[k])
  BY DEF Shaped
<1>2. s = [k \in RobIndex |-> IF k = i THEN [Fields(r[i]) EXCEPT !.translated = v]
                              ELSE r[k]]
  BY <1>1 DEF Shaped, WithTranslated
<1>3. \A k \in RobIndex : s[k] = IF k = i THEN [Fields(r[i]) EXCEPT !.translated = v]
                                 ELSE Fields(r[k])
  BY <1>1, <1>2
<1>4. \A k \in RobIndex : s[k] = Fields(s[k])
  BY <1>3 DEF Fields
<1>5. Shaped(s)
  BY <1>2, <1>4 DEF Shaped
<1>6. ASSUME NEW k \in RobIndex
      PROVE  /\ SameId(s[k], r[k]) /\ SameSched(s[k], r[k]) /\ SameQueues(s[k], r[k])
             /\ s[k].executed = r[k].executed /\ s[k].fetched = r[k].fetched
             /\ s[k].translated = IF k = i THEN v ELSE r[k].translated
  <2>1. CASE k = i
    <3>1. s[k] = [Fields(r[k]) EXCEPT !.translated = v]
      BY <1>3, <2>1
    <3> QED
      BY <2>1, <3>1 DEF Fields, SameId, SameSched, SameQueues
  <2>2. CASE k # i
    <3>1. s[k] = r[k]
      BY <1>1, <1>3, <2>2
    <3> QED
      BY <2>2, <3>1 DEF SameId, SameSched, SameQueues
  <2> QED
    BY <2>1, <2>2
<1> QED
  BY <1>5, <1>6

WithFetched(r, i, v) == [r EXCEPT ![i].fetched = v]
LEMMA SetFetched ==
  ASSUME NEW r, Shaped(r), NEW i \in RobIndex, NEW v, NEW s,
         s = WithFetched(r, i, v)
  PROVE  /\ Shaped(s)
         /\ \A k \in RobIndex :
              /\ SameId(s[k], r[k]) /\ SameSched(s[k], r[k]) /\ SameQueues(s[k], r[k])
              /\ s[k].executed = r[k].executed /\ s[k].translated = r[k].translated
              /\ s[k].fetched = IF k = i THEN v ELSE r[k].fetched
<1>1. \A k \in RobIndex : r[k] = Fields(r[k])
  BY DEF Shaped
<1>2. s = [k \in RobIndex |-> IF k = i THEN [Fields(r[i]) EXCEPT !.fetched = v]
                              ELSE r[k]]
  BY <1>1 DEF Shaped, WithFetched
<1>3. \A k \in RobIndex : s[k] = IF k = i THEN [Fields(r[i]) EXCEPT !.fetched = v]
                                 ELSE Fields(r[k])
  BY <1>1, <1>2
<1>4. \A k \in RobIndex : s[k] = Fields(s[k])
  BY <1>3 DEF Fields
<1>5. Shaped(s)
  BY <1>2, <1>4 DEF Shaped
<1>6. ASSUME NEW k \in RobIndex
      PROVE  /\ SameId(s[k], r[k]) /\ SameSched(s[k], r[k]) /\ SameQueues(s[k], r[k])
             /\ s[k].executed = r[k].executed /\ s[k].translated = r[k].translated
             /\ s[k].fetched = IF k = i THEN v ELSE r[k].fetched
  <2>1. CASE k = i
    <3>1. s[k] = [Fields(r[k]) EXCEPT !.fetched = v]
      BY <1>3, <2>1
    <3> QED
      BY <2>1, <3>1 DEF Fields, SameId, SameSched, SameQueues
  <2>2. CASE k # i
    <3>1. s[k] = r[k]
      BY <1>1, <1>3, <2>2
    <3> QED
      BY <2>2, <3>1 DEF SameId, SameSched, SameQueues
  <2> QED
    BY <2>1, <2>2
<1> QED
  BY <1>5, <1>6

WithExecuted(r, i, v) == [r EXCEPT ![i].executed = v]
LEMMA SetExecuted ==
  ASSUME NEW r, Shaped(r), NEW i \in RobIndex, NEW v, NEW s,
         s = WithExecuted(r, i, v)
  PROVE  /\ Shaped(s)
         /\ \A k \in RobIndex :
              /\ SameId(s[k], r[k]) /\ SameFetch(s[k], r[k])
              /\ SameSched(s[k], r[k]) /\ SameQueues(s[k], r[k])
              /\ s[k].executed = IF k = i THEN v ELSE r[k].executed
<1>1. \A k \in RobIndex : r[k] = Fields(r[k])
  BY DEF Shaped
<1>2. s = [k \in RobIndex |-> IF k = i THEN [Fields(r[i]) EXCEPT !.executed = v]
                              ELSE r[k]]
  BY <1>1 DEF Shaped, WithExecuted
<1>3. \A k \in RobIndex : s[k] = IF k = i THEN [Fields(r[i]) EXCEPT !.executed = v]
                                 ELSE Fields(r[k])
  BY <1>1, <1>2
<1>4. \A k \in RobIndex : s[k] = Fields(s[k])
  BY <1>3 DEF Fields
<1>5. Shaped(s)
  BY <1>2, <1>4 DEF Shaped
<1>6. ASSUME NEW k \in RobIndex
      PROVE  /\ SameId(s[k], r[k]) /\ SameFetch(s[k], r[k])
             /\ SameSched(s[k], r[k]) /\ SameQueues(s[k], r[k])
             /\ s[k].executed = IF k = i THEN v ELSE r[k].executed
  <2>1. CASE k = i
    <3>1. s[k] = [Fields(r[k]) EXCEPT !.executed = v]
      BY <1>3, <2>1
    <3> QED
      BY <2>1, <3>1 DEF Fields, SameId, SameSched, SameQueues, SameFetch
  <2>2. CASE k # i
    <3>1. s[k] = r[k]
      BY <1>1, <1>3, <2>2
    <3> QED
      BY <2>2, <3>1 DEF SameId, SameSched, SameQueues, SameFetch
  <2> QED
    BY <2>1, <2>2
<1> QED
  BY <1>5, <1>6

-----------------------------------------------------------------------------
(* Steps that leave a part alone.                                          *)

LEMMA FrontFrame ==
  ASSUME head \in RobIndex, FrontEnd, UNCHANGED <<head, front>>,
         \A k \in RobIndex : SameId(rob'[k], rob[k]) /\ SameFetch(rob'[k], rob[k])
  PROVE  FrontEnd'
<1>1. PICK n \in 0 .. RobSize, t \in 0 .. RobSize, f \in 0 .. RobSize : Window(n, t, f)
  BY DEF FrontEnd
<1>2. \A k \in RobIndex : Age(k)' = Age(k)
  BY DEF Age
<1>3. Window(n, t, f)'
  BY <1>1, <1>2 DEF Window, front, Sent, SameId, SameFetch, Age
<1> QED
  BY <1>3 DEF FrontEnd

LEMMA StagesFrame ==
  ASSUME Stages,
         \A k \in RobIndex : /\ SameFetch(rob'[k], rob[k]) /\ SameSched(rob'[k], rob[k])
                             /\ rob'[k].executed = rob[k].executed
  PROVE  Stages'
BY DEF Stages, SameFetch, SameSched

LEMMA BackFrame ==
  ASSUME Types, BackEnd, UNCHANGED <<program, head, rte, fetch_stall>>,
         \A k \in RobIndex :
           /\ SameId(rob'[k], rob[k]) /\ SameSched(rob'[k], rob[k])
           /\ SameQueues(rob'[k], rob[k]) /\ rob'[k].executed = rob[k].executed
  PROVE  BackEnd'
<1> USE DEF SameId, SameSched, SameQueues
<1>1. \A k \in RobIndex : /\ Busy(k)' <=> Busy(k)
                          /\ Op(k)' = Op(k) /\ Age(k)' = Age(k)
                          /\ IsMemory(k)' <=> IsMemory(k)
                          /\ Unresolved(k)' <=> Unresolved(k)
                          /\ InQueues(k)' <=> InQueues(k)
  BY DEF Busy, Op, Age, IsMemory, Unresolved, InQueues
<1>2. Stall'
  BY <1>1 DEF BackEnd, Stall
<1>3. Lists'
  <2>1. \A n \in 1 .. 2 : \A x \in 1 .. Len(rte[n]) : rte[n][x] \in RobIndex
    BY ElementOfSeq DEF Types
  <2> QED
    BY <1>1, <2>1 DEF BackEnd, Lists
<1>4. Deps'
  BY <1>1 DEF BackEnd, Deps
<1>5. \A d \in RobIndex : Pending(d)' = Pending(d)
  BY <1>1 DEF Pending
<1>6. Counts'
  BY <1>5 DEF BackEnd, Counts
<1>7. \A i \in RobIndex : \A j : Writers(i, j)' = Writers(i, j)
  BY <1>1 DEF Writers, Older
<1>8. Operands'
  BY <1>1, <1>7 DEF BackEnd, Operands, Writers, Older
<1>9. Ready'
  BY <1>1 DEF BackEnd, Ready
<1> QED
  BY <1>2, <1>3, <1>4, <1>6, <1>8, <1>9 DEF BackEnd

\* The load and store queues do not touch what the invariant speaks of.
LEMMA MemorySide ==
  ASSUME CInv, UNCHANGED <<program, front, fetch_stall, head, rte>>, Shaped(rob'),
         \A k \in RobIndex :
           /\ SameId(rob'[k], rob[k]) /\ SameFetch(rob'[k], rob[k])
           /\ SameSched(rob'[k], rob[k]) /\ SameQueues(rob'[k], rob[k])
           /\ rob'[k].executed = rob[k].executed
  PROVE  CInv'
<1>1. Types'
  BY DEF CInv, Types, front
<1>2. FrontEnd'
  BY FrontFrame DEF CInv, Types
<1>3. Stages'
  BY StagesFrame DEF CInv
<1>4. BackEnd'
  BY BackFrame DEF CInv
<1> QED
  BY <1>1, <1>2, <1>3, <1>4 DEF CInv

LEMMA FinishedFields ==
  ASSUME NEW r, Shaped(r), NEW D
  PROVE  /\ Shaped(Finished(r, D))
         /\ \A k \in RobIndex : LET s == Finished(r, D)[k] IN
              /\ SameId(s, r[k]) /\ SameFetch(s, r[k])
              /\ SameSched(s, r[k]) /\ SameQueues(s, r[k]) /\ s.executed = r[k].executed
<1> DEFINE s == Finished(r, D)
           left(k) == Fields(r[k]).num_mem_ops - Cardinality({d \in D : d[1] = k})
<1>1. \A k \in RobIndex : r[k] = Fields(r[k])
  BY DEF Shaped
<1>2. s = [k \in RobIndex |-> [Fields(r[k]) EXCEPT !.num_mem_ops = left(k)]]
  BY <1>1 DEF Finished
<1> HIDE DEF left, s
<1>3. \A k \in RobIndex : s[k] = [Fields(r[k]) EXCEPT !.num_mem_ops = left(k)]
  BY <1>2
<1>4. \A k \in RobIndex : s[k] = Fields(s[k])
  BY <1>3 DEF Fields
<1>5. Shaped(s)
  BY <1>2, <1>4 DEF Shaped
<1>6. ASSUME NEW k \in RobIndex
      PROVE  /\ SameId(s[k], r[k]) /\ SameFetch(s[k], r[k])
             /\ SameSched(s[k], r[k]) /\ SameQueues(s[k], r[k])
             /\ s[k].executed = r[k].executed
  <2> DEFINE v == left(k)
  <2>1. s[k] = [Fields(r[k]) EXCEPT !.num_mem_ops = v]
    BY <1>3
  <2> HIDE DEF v
  <2> QED
    BY <2>1 DEF Fields, SameId, SameFetch, SameSched, SameQueues
<1> QED
  BY <1>5, <1>6 DEF s

LEMMA ReadFields ==
  ASSUME NEW r, Shaped(r), NEW D, NEW v
  PROVE  /\ Shaped(Read(r, D, v))
         /\ \A k \in RobIndex : LET s == Read(r, D, v)[k] IN
              /\ SameId(s, r[k]) /\ SameFetch(s, r[k])
              /\ SameSched(s, r[k]) /\ SameQueues(s, r[k]) /\ s.executed = r[k].executed
<1> DEFINE s == Read(r, D, v)
           new(k) == [j \in DOMAIN Fields(r[k]).got |->
                        IF <<k, j>> \in D THEN v ELSE Fields(r[k]).got[j]]
<1>1. \A k \in RobIndex : r[k] = Fields(r[k])
  BY DEF Shaped
<1>2. s = [k \in RobIndex |-> [Fields(r[k]) EXCEPT !.got = new(k)]]
  BY <1>1 DEF Read
<1> HIDE DEF new, s
<1>3. \A k \in RobIndex : s[k] = [Fields(r[k]) EXCEPT !.got = new(k)]
  BY <1>2
<1>4. \A k \in RobIndex : s[k] = Fields(s[k])
  BY <1>3 DEF Fields
<1>5. Shaped(s)
  BY <1>2, <1>4 DEF Shaped
<1>6. ASSUME NEW k \in RobIndex
      PROVE  /\ SameId(s[k], r[k]) /\ SameFetch(s[k], r[k])
             /\ SameSched(s[k], r[k]) /\ SameQueues(s[k], r[k])
             /\ s[k].executed = r[k].executed
  <2> DEFINE read == new(k)
  <2>1. s[k] = [Fields(r[k]) EXCEPT !.got = read]
    BY <1>3
  <2> HIDE DEF read
  <2> QED
    BY <2>1 DEF Fields, SameId, SameFetch, SameSched, SameQueues
<1> QED
  BY <1>5, <1>6 DEF s

\* A finished operation and the value it read: both at once.
LEMMA DoneFields ==
  ASSUME NEW r, Shaped(r), NEW C, NEW D, NEW v
  PROVE  /\ Shaped(Read(Finished(r, C), D, v))
         /\ \A k \in RobIndex : LET s == Read(Finished(r, C), D, v)[k] IN
              /\ SameId(s, r[k]) /\ SameFetch(s, r[k])
              /\ SameSched(s, r[k]) /\ SameQueues(s, r[k]) /\ s.executed = r[k].executed
<1> DEFINE f == Finished(r, C)
<1>1. /\ Shaped(f)
      /\ \A k \in RobIndex :
           /\ SameId(f[k], r[k]) /\ SameFetch(f[k], r[k])
           /\ SameSched(f[k], r[k]) /\ SameQueues(f[k], r[k]) /\ f[k].executed = r[k].executed
  BY FinishedFields
<1> HIDE DEF f
<1> DEFINE s == Read(f, D, v)
<1>2. /\ Shaped(s)
      /\ \A k \in RobIndex :
           /\ SameId(s[k], f[k]) /\ SameFetch(s[k], f[k])
           /\ SameSched(s[k], f[k]) /\ SameQueues(s[k], f[k]) /\ s[k].executed = f[k].executed
  BY <1>1, ReadFields
<1> HIDE DEF s
<1>3. Shaped(s) /\ \A k \in RobIndex :
        /\ SameId(s[k], r[k]) /\ SameFetch(s[k], r[k])
        /\ SameSched(s[k], r[k]) /\ SameQueues(s[k], r[k]) /\ s[k].executed = r[k].executed
  BY <1>1, <1>2 DEF SameId, SameFetch, SameSched, SameQueues
<1> QED
  BY <1>3 DEF s, f

LEMMA SameFields ==
  \A k : /\ SameId(rob[k], rob[k]) /\ SameFetch(rob[k], rob[k])
         /\ SameSched(rob[k], rob[k]) /\ SameQueues(rob[k], rob[k])
BY DEF SameId, SameFetch, SameSched, SameQueues

\* Steps of the lists and queues that leave the ROB alone, and those that mark
\* operations done.
LEMMA QueueSteps ==
  ASSUME CInv,
         \/ TranslateStore \/ TranslateLoad \/ ExecuteLoad \/ ExecuteStore
         \/ \E q \in SqIndex : StoreTranslated(q)
         \/ \E q \in LqIndex : LoadTranslated(q) \/ LoadDone(q)
  PROVE  CInv'
<1>1. UNCHANGED <<program, front, fetch_stall, head, rte>>
  BY DEF TranslateStore, TranslateLoad, ExecuteLoad, ExecuteStore, StoreTranslated,
         LoadTranslated, LoadDone, lists
<1>2. \/ rob' = rob
      \/ \E C, D, v : rob' = Read(Finished(rob, C), D, v)
  BY DEF TranslateStore, TranslateLoad, ExecuteLoad, ExecuteStore, StoreTranslated,
         LoadTranslated, LoadDone
<1>3. Shaped(rob)
  BY DEF CInv, Types
<1>4. CASE rob' = rob
  BY <1>1, <1>3, <1>4, SameFields, MemorySide
<1>5. ASSUME NEW C, NEW D, NEW v, rob' = Read(Finished(rob, C), D, v)
      PROVE  CInv'
  <2>1. Shaped(rob') /\ \A k \in RobIndex :
          /\ SameId(rob'[k], rob[k]) /\ SameFetch(rob'[k], rob[k])
          /\ SameSched(rob'[k], rob[k]) /\ SameQueues(rob'[k], rob[k])
          /\ rob'[k].executed = rob[k].executed
    BY <1>3, <1>5, DoneFields
  <2> QED
    BY <1>1, <2>1, MemorySide
<1> QED
  BY <1>2, <1>4, <1>5

-----------------------------------------------------------------------------
(* Translation and fetch.                                                  *)

LEMMA TranslateInv ==
  ASSUME CInv, Translate
  PROVE  CInv'
<1> DEFINE i == Next1(last_read, RobSize)
<1>1. i \in RobIndex /\ head \in RobIndex /\ RobSize \in Nat /\ RobSize >= 2
  BY NextValue, CoreSizes DEF CInv, Types
<1>2. /\ Busy(i) /\ rob[i].translated = "no" /\ itlb' = itlb \cup {i} /\ last_read' = i
      /\ UNCHANGED <<program, instr_unique_id, tail, last_fetch, fetch_stall, rob, head, rte>>
  BY DEF Translate, lists
<1> HIDE DEF i
<1>3. PICK n \in 0 .. RobSize, t \in 0 .. RobSize, f \in 0 .. RobSize : Window(n, t, f)
  BY DEF CInv, FrontEnd
<1>4. Age(i) = Wrap(t) /\ Age(i) \in 0 .. RobSize - 1
  BY <1>1, <1>3, AgeValue DEF Window, i
<1>5. t < n /\ Age(i) = t
  <2>1. t # RobSize
    <3>1. t = RobSize => i = head /\ n = RobSize
      BY <1>1, <1>3, <1>4, HeadAge, AgeInjective DEF Wrap, Window
    <3> QED
      BY <1>2, <1>3, <3>1 DEF Window
  <2>2. Age(i) = t
    BY <1>4, <2>1 DEF Wrap
  <2>3. Age(i) < n
    BY <1>1, <1>2, <1>3 DEF Window, Busy
  <2> QED
    BY <2>2, <2>3
<1>6. Window(n, t + 1, f)'
  <2>1. \A k \in RobIndex : Age(k)' = Age(k)
    BY <1>2 DEF Age
  <2>2. Age(Next1(last_read, RobSize))' = Wrap(t + 1)
    BY <1>1, <1>2, <1>5, <2>1, NextAge, NextValue
  <2>3. ASSUME NEW k \in RobIndex
        PROVE  Sent(k)' <=> Age(k) < t + 1
    <3>1. Sent(k)' <=> Sent(k) \/ k = i
      BY <1>2 DEF Sent
    <3>2. Sent(k) <=> Age(k) < t
      BY <1>3 DEF Window
    <3>3. k = i <=> Age(k) = t
      BY <1>1, <1>5, AgeInjective
    <3>4. Age(k) \in 0 .. RobSize - 1
      BY <1>1, AgeValue
    <3> QED
      BY <3>1, <3>2, <3>3, <3>4
  <2>4. Age(tail)' = Wrap(n) /\ Age(Next1(last_fetch, RobSize))' = Wrap(f)
    BY <1>2, <1>3 DEF Window, Age
  <2>5. \A k \in itlb' : rob'[k].translated = "no"
    BY <1>2, <1>3 DEF Window, CInv, Types
  <2>6. \A k \in RobIndex :
          /\ rob'[k].id = IF Age(k)' < n THEN instr_unique_id' - n + Age(k)' ELSE 0
          /\ Sent(k)' <=> Age(k)' < t + 1
          /\ rob'[k].fetched # "no" <=> Age(k)' < f
    BY <1>2, <1>3, <2>1, <2>3 DEF Window
  <2>7. /\ n \in 0 .. RobSize /\ n < instr_unique_id' /\ t + 1 \in 0 .. n /\ f \in 0 .. n
        /\ n = RobSize => rob'[head'].translated = "COMPLETED"
    BY <1>2, <1>3, <1>5 DEF Window
  <2> QED
    BY <2>2, <2>4, <2>5, <2>6, <2>7 DEF Window
<1>7. FrontEnd'
  <2>1. t + 1 \in 0 .. RobSize
    BY <1>1, <1>3, <1>5
  <2> QED
    BY <1>6, <2>1 DEF FrontEnd
<1>8. Types'
  BY <1>1, <1>2 DEF CInv, Types
<1>9. Stages' /\ BackEnd'
  BY <1>2, SameFields, StagesFrame, BackFrame DEF CInv
<1> QED
  BY <1>7, <1>8, <1>9 DEF CInv

LEMMA CompleteTranslationInv ==
  ASSUME CInv, NEW i \in RobIndex, CompleteTranslation(i)
  PROVE  CInv'
<1>1. /\ i \in itlb /\ itlb' = itlb \ {i}
      /\ rob' = WithTranslated(rob, i, "COMPLETED")
      /\ UNCHANGED <<program, instr_unique_id, tail, last_read, last_fetch, fetch_stall,
                     head, rte>>
  BY DEF CompleteTranslation, WithTranslated, lists
<1>2. /\ Shaped(rob')
      /\ \A k \in RobIndex :
           /\ SameId(rob'[k], rob[k]) /\ SameSched(rob'[k], rob[k])
           /\ SameQueues(rob'[k], rob[k])
           /\ rob'[k].executed = rob[k].executed /\ rob'[k].fetched = rob[k].fetched
           /\ rob'[k].translated = IF k = i THEN "COMPLETED" ELSE rob[k].translated
  <2>1. Shaped(rob)
    BY DEF CInv, Types
  <2> QED
    BY <1>1, <2>1, SetTranslated
<1>3. FrontEnd'
  <2>1. PICK n \in 0 .. RobSize, t \in 0 .. RobSize, f \in 0 .. RobSize : Window(n, t, f)
    BY DEF CInv, FrontEnd
  <2>2. \A k \in RobIndex : Age(k)' = Age(k) /\ (Sent(k)' <=> Sent(k))
    BY <1>1, <1>2 DEF Age, Sent
  <2>3. /\ Age(tail)' = Wrap(n) /\ Age(Next1(last_fetch, RobSize))' = Wrap(f)
        /\ Age(Next1(last_read, RobSize))' = Wrap(t)
    BY <1>1, <2>1 DEF Window, Age
  <2>4. \A k \in RobIndex : k \in itlb' => rob'[k].translated = "no"
    BY <1>1, <1>2, <2>1 DEF Window
  <2>5. n = RobSize => rob'[head'].translated = "COMPLETED"
    BY <1>1, <1>2, <2>1 DEF Window, CInv, Types
  <2>6. Window(n, t, f)'
    BY <1>1, <1>2, <2>1, <2>2, <2>3, <2>4, <2>5 DEF Window, SameId
  <2> QED
    BY <2>6 DEF FrontEnd
<1>4. Types'
  BY <1>1, <1>2 DEF CInv, Types
<1>5. Stages'
  BY <1>2 DEF CInv, Stages, SameSched
<1>6. BackEnd'
  BY <1>1, <1>2, BackFrame DEF CInv
<1> QED
  BY <1>3, <1>4, <1>5, <1>6 DEF CInv

LEMMA FetchInv ==
  ASSUME CInv, Fetch
  PROVE  CInv'
<1> DEFINE i == Next1(last_fetch, RobSize)
<1>1. i \in RobIndex /\ head \in RobIndex /\ RobSize \in Nat /\ RobSize >= 2
  BY NextValue, CoreSizes DEF CInv, Types
<1>2. /\ rob[i].translated = "COMPLETED" /\ rob[i].fetched = "no"
      /\ rob' = WithFetched(rob, i, "INFLIGHT") /\ last_fetch' = i
      /\ UNCHANGED <<program, instr_unique_id, tail, last_read, itlb, fetch_stall, head, rte>>
  BY DEF Fetch, WithFetched, lists
<1> HIDE DEF i
<1>3. /\ Shaped(rob')
      /\ \A k \in RobIndex :
           /\ SameId(rob'[k], rob[k]) /\ SameSched(rob'[k], rob[k])
           /\ SameQueues(rob'[k], rob[k])
           /\ rob'[k].executed = rob[k].executed /\ rob'[k].translated = rob[k].translated
           /\ rob'[k].fetched = IF k = i THEN "INFLIGHT" ELSE rob[k].fetched
  <2>1. Shaped(rob)
    BY DEF CInv, Types
  <2> QED
    BY <1>1, <1>2, <2>1, SetFetched
<1>4. PICK n \in 0 .. RobSize, t \in 0 .. RobSize, f \in 0 .. RobSize : Window(n, t, f)
  BY DEF CInv, FrontEnd
<1>5. f < n /\ Age(i) = f
  <2>1. Age(i) = Wrap(f) /\ Age(i) \in 0 .. RobSize - 1
    BY <1>1, <1>4, AgeValue DEF Window, i
  <2>2. ~(Age(i) < f) /\ Age(i) < t /\ t <= n
    BY <1>1, <1>2, <1>4 DEF Window, Sent
  <2> QED
    BY <1>1, <1>4, <2>1, <2>2 DEF Wrap
<1>6. Window(n, t, f + 1)'
  <2>1. \A k \in RobIndex : Age(k)' = Age(k) /\ (Sent(k)' <=> Sent(k))
    BY <1>2, <1>3 DEF Age, Sent
  <2>2. Age(Next1(last_fetch, RobSize))' = Wrap(f + 1)
    BY <1>1, <1>2, <1>5, <2>1, NextAge, NextValue
  <2>3. ASSUME NEW k \in RobIndex
        PROVE  rob'[k].fetched # "no" <=> Age(k) < f + 1
    <3>1. rob'[k].fetched # "no" <=> rob[k].fetched # "no" \/ k = i
      BY <1>3
    <3>2. rob[k].fetched # "no" <=> Age(k) < f
      BY <1>4 DEF Window
    <3>3. k = i <=> Age(k) = f
      BY <1>1, <1>5, AgeInjective
    <3>4. Age(k) \in 0 .. RobSize - 1
      BY <1>1, AgeValue
    <3> QED
      BY <3>1, <3>2, <3>3, <3>4
  <2>4. Age(tail)' = Wrap(n) /\ Age(Next1(last_read, RobSize))' = Wrap(t)
    BY <1>2, <1>4 DEF Window, Age
  <2>5. \A k \in RobIndex :
          /\ rob'[k].id = IF Age(k)' < n THEN instr_unique_id' - n + Age(k)' ELSE 0
          /\ Sent(k)' <=> Age(k)' < t
          /\ rob'[k].fetched # "no" <=> Age(k)' < f + 1
          /\ k \in itlb' => rob'[k].translated = "no"
    BY <1>2, <1>3, <1>4, <2>1, <2>3 DEF Window, SameId
  <2>6. /\ n \in 0 .. RobSize /\ n < instr_unique_id' /\ t \in 0 .. n /\ f + 1 \in 0 .. n
        /\ n = RobSize => rob'[head'].translated = "COMPLETED"
    BY <1>1, <1>2, <1>3, <1>4, <1>5 DEF Window
  <2> QED
    BY <2>2, <2>4, <2>5, <2>6 DEF Window
<1>7. FrontEnd'
  <2>1. f + 1 \in 0 .. RobSize
    BY <1>1, <1>4, <1>5
  <2> QED
    BY <1>6, <2>1 DEF FrontEnd
<1>8. Types'
  BY <1>1, <1>2, <1>3 DEF CInv, Types
<1>9. Stages'
  BY <1>2, <1>3 DEF CInv, Stages, SameSched
<1>10. BackEnd'
  BY <1>2, <1>3, BackFrame DEF CInv
<1> QED
  BY <1>7, <1>8, <1>9, <1>10 DEF CInv

LEMMA CompleteFetchInv ==
  ASSUME CInv, NEW i \in RobIndex, CompleteFetch(i)
  PROVE  CInv'
<1>1. /\ rob[i].fetched = "INFLIGHT"
      /\ rob' = WithFetched(rob, i, "COMPLETED")
      /\ UNCHANGED <<program, front, fetch_stall, head, rte>>
  BY DEF CompleteFetch, WithFetched, lists
<1>2. /\ Shaped(rob')
      /\ \A k \in RobIndex :
           /\ SameId(rob'[k], rob[k]) /\ SameSched(rob'[k], rob[k])
           /\ SameQueues(rob'[k], rob[k])
           /\ rob'[k].executed = rob[k].executed /\ rob'[k].translated = rob[k].translated
           /\ rob'[k].fetched = IF k = i THEN "COMPLETED" ELSE rob[k].fetched
  <2>1. Shaped(rob)
    BY DEF CInv, Types
  <2> QED
    BY <1>1, <2>1, SetFetched
<1>3. FrontEnd'
  <2>1. PICK n \in 0 .. RobSize, t \in 0 .. RobSize, f \in 0 .. RobSize : Window(n, t, f)
    BY DEF CInv, FrontEnd
  <2>2. \A k \in RobIndex : Age(k)' = Age(k) /\ (Sent(k)' <=> Sent(k))
    BY <1>1, <1>2 DEF Age, Sent, front
  <2>3. /\ Age(tail)' = Wrap(n) /\ Age(Next1(last_fetch, RobSize))' = Wrap(f)
        /\ Age(Next1(last_read, RobSize))' = Wrap(t)
    BY <1>1, <2>1 DEF Window, Age, front
  <2>4. n = RobSize => rob'[head'].translated = "COMPLETED"
    BY <1>1, <1>2, <2>1 DEF Window, CInv, Types
  <2>5. Window(n, t, f)'
    BY <1>1, <1>2, <2>1, <2>2, <2>3, <2>4 DEF Window, SameId, front
  <2> QED
    BY <2>5 DEF FrontEnd
<1>4. Types'
  BY <1>1, <1>2 DEF CInv, Types, front
<1>5. Stages'
  BY <1>1, <1>2 DEF CInv, Stages, SameSched
<1>6. BackEnd'
  BY <1>1, <1>2, BackFrame DEF CInv
<1> QED
  BY <1>3, <1>4, <1>5, <1>6 DEF CInv

-----------------------------------------------------------------------------
(* Reading the trace.                                                      *)

LEMMA DecodedFields ==
  ASSUME NEW id, NEW miss
  PROVE  LET r == Decoded(id, miss) IN
         /\ r = Fields(r)
         /\ r.id = id /\ r.mispredicted = miss
         /\ r.translated = "no" /\ r.fetched = "no"
         /\ r.scheduled = "no" /\ r.executed = "no"
         /\ r.reg_ready = FALSE /\ r.num_reg_dependent = 0 /\ r.regs_depend_on_me = {}
         /\ (Range(r.lq_index) \cup Range(r.sq_index)) \ {NoIndex} = {}
<1> DEFINE l == [j \in DOMAIN program[id].loads |-> NoIndex]
           s == [k \in DOMAIN program[id].stores |-> NoIndex]
           g == [j \in DOMAIN program[id].loads |-> NoValue]
           n == Len(program[id].loads) + Len(program[id].stores)
           r == Decoded(id, miss)
<1>1. Range(l) \subseteq {NoIndex} /\ Range(s) \subseteq {NoIndex}
  BY DEF Range
<1>2. r = [id |-> id, mispredicted |-> miss, translated |-> "no", fetched |-> "no",
           scheduled |-> "no", executed |-> "no", reg_ready |-> FALSE,
           num_reg_dependent |-> 0, num_mem_ops |-> n,
           regs_depend_on_me |-> {}, mem_depend_on_me |-> {},
           lq_index |-> l, sq_index |-> s, got |-> g]
  <2>1. r = [EmptyInstr EXCEPT
               !.id = id, !.mispredicted = miss, !.num_mem_ops = n,
               !.lq_index = l, !.sq_index = s, !.got = g]
    BY DEF Decoded
  <2> HIDE DEF l, s, g, n, r
  <2> QED
    BY <2>1 DEF EmptyInstr
<1> HIDE DEF l, s, g, n, r
<1>3. /\ r.id = id /\ r.mispredicted = miss
      /\ r.translated = "no" /\ r.fetched = "no"
      /\ r.scheduled = "no" /\ r.executed = "no"
      /\ r.reg_ready = FALSE /\ r.num_reg_dependent = 0 /\ r.regs_depend_on_me = {}
      /\ r.lq_index = l /\ r.sq_index = s
  BY <1>2
<1>4. r = Fields(r)
  BY <1>2 DEF Fields
<1>5. (Range(r.lq_index) \cup Range(r.sq_index)) \ {NoIndex} = {}
  BY <1>1, <1>3
<1> QED
  BY <1>3, <1>4, <1>5 DEF r

\* The ROB has room only while its window is shorter than it.
LEMMA RoomInWindow ==
  ASSUME head \in RobIndex, tail \in RobIndex, instr_unique_id \in Nat,
         NEW n \in 0 .. RobSize, NEW t, NEW f, Window(n, t, f), Occupancy < RobSize
  PROVE  /\ n < RobSize /\ Age(tail) = n
         /\ n + 1 = RobSize => Occupancy + 1 = RobSize
<1> DEFINE B == {i \in RobIndex : Busy(i)}
<1>1. RobSize \in Nat /\ RobSize >= 2
  BY CoreSizes
<1>2. IsFiniteSet(RobIndex) /\ Cardinality(RobIndex) = RobSize
  <2>1. 0 \in Int /\ RobSize - 1 \in Int /\ 0 <= RobSize - 1
    BY <1>1
  <2> QED
    BY <1>1, <2>1, FS_Interval DEF RobIndex
<1>3. \A k \in RobIndex : Age(k) \in 0 .. RobSize - 1 /\ (Busy(k) <=> Age(k) < n)
  BY <1>1, AgeValue DEF Window, Busy
<1>4. n < RobSize
  <2>1. n = RobSize => B = RobIndex
    BY <1>1, <1>3
  <2>2. Occupancy = Cardinality(B)
    BY DEF Occupancy
  <2> QED
    BY <1>1, <1>2, <2>1, <2>2
<1>5. Age(tail) = n
  BY <1>1, <1>4 DEF Window, Wrap
<1>6. ASSUME n + 1 = RobSize
      PROVE  Occupancy + 1 = RobSize
  <2>1. \A k \in RobIndex : Age(k) = n <=> k = tail
    BY <1>5, AgeInjective
  <2>2. B = RobIndex \ {tail}
    BY <1>1, <1>3, <1>6, <2>1
  <2>3. Cardinality(B) = RobSize - 1
    BY <1>2, <2>2, FS_RemoveElement
  <2> QED
    BY <1>1, <2>3 DEF Occupancy
<1> QED
  BY <1>4, <1>5, <1>6

LEMMA HandleBranchInv ==
  ASSUME CInv, HandleBranch
  PROVE  CInv'
<1> DEFINE id == instr_unique_id
<1>1. /\ head \in RobIndex /\ tail \in RobIndex /\ RobSize \in Nat /\ RobSize >= 2
      /\ id \in 1 .. Len(program) /\ Len(program) \in Nat
      /\ program[id].branch \in BOOLEAN
  <2>1. program \in Seq(Instr)
    BY ProgramsAreTraces DEF CInv, Types
  <2>2. Len(program) \in Nat
    BY <2>1, LenProperties
  <2>3. id \in 1 .. Len(program)
    BY <2>2 DEF HandleBranch, CInv, Types
  <2>4. program[id] \in Instr
    BY <2>1, <2>3, ElementOfSeq
  <2> QED
    BY <2>2, <2>3, <2>4, CoreSizes DEF CInv, Types, Instr
<1>2. /\ ~fetch_stall /\ Occupancy < RobSize
      /\ Occupancy + 1 = RobSize => rob[head].translated = "COMPLETED"
      /\ tail' = Next1(tail, RobSize) /\ id' = id + 1
      /\ UNCHANGED <<program, head, last_read, last_fetch, itlb, rte>>
  BY DEF HandleBranch, lists
<1>3. PICK miss \in BOOLEAN :
        rob' = [rob EXCEPT ![tail] = Decoded(id, miss)] /\ fetch_stall' = miss
  BY <1>1 DEF HandleBranch
<1> DEFINE new == Decoded(id, miss)
<1>4. /\ new = Fields(new)
      /\ new.id = id /\ new.mispredicted = miss
      /\ new.translated = "no" /\ new.fetched = "no"
      /\ new.scheduled = "no" /\ new.executed = "no"
      /\ new.reg_ready = FALSE /\ new.num_reg_dependent = 0 /\ new.regs_depend_on_me = {}
      /\ (Range(new.lq_index) \cup Range(new.sq_index)) \ {NoIndex} = {}
  BY DecodedFields
<1>5. rob' = [rob EXCEPT ![tail] = new]
  BY <1>3
<1> HIDE DEF new
<1>6. Shaped(rob') /\ \A k \in RobIndex : rob'[k] = IF k = tail THEN new ELSE rob[k]
  BY <1>1, <1>4, <1>5 DEF CInv, Types, Shaped
<1>7. PICK n \in 0 .. RobSize, t \in 0 .. RobSize, f \in 0 .. RobSize : Window(n, t, f)
  BY DEF CInv, FrontEnd
<1>8. /\ n < RobSize /\ Age(tail) = n
      /\ n + 1 = RobSize => rob[head].translated = "COMPLETED"
  <2>1. id \in Nat
    BY <1>1
  <2> QED
    BY <1>1, <1>2, <1>7, <2>1, RoomInWindow
<1>9. \A k \in RobIndex : /\ Age(k)' = Age(k) /\ Age(k) \in 0 .. RobSize - 1
                          /\ k = tail <=> Age(k) = n
                          /\ Busy(k) <=> Age(k) < n
                          /\ rob[k].scheduled # "no" => Busy(k)
  <2>1. \A k \in RobIndex : Age(k)' = Age(k) /\ Age(k) \in 0 .. RobSize - 1
    BY <1>1, <1>2, AgeValue DEF Age
  <2>2. \A k \in RobIndex : k = tail <=> Age(k) = n
    BY <1>1, <1>8, AgeInjective
  <2>3. \A k \in RobIndex : Busy(k) <=> Age(k) < n
    BY <1>1, <1>7, <2>1 DEF Window, Busy
  <2>4. \A k \in RobIndex : rob[k].scheduled # "no" => Busy(k)
    <3>1. \A k \in RobIndex : rob[k].scheduled # "no" => rob[k].fetched # "no"
      BY DEF CInv, Stages
    <3>2. \A k \in RobIndex : rob[k].fetched # "no" <=> Age(k) < f
      BY <1>7 DEF Window
    <3>3. f <= n
      BY <1>7 DEF Window
    <3> QED
      BY <2>1, <2>3, <3>1, <3>2, <3>3
  <2> QED
    BY <2>1, <2>2, <2>3, <2>4
<1>10. Types'
  BY <1>1, <1>2, <1>3, <1>6, NextValue DEF CInv, Types
<1>11. FrontEnd'
  <2>1. Window(n + 1, t, f)'
    <3>1. n + 1 \in 0 .. RobSize /\ n + 1 < id' /\ t \in 0 .. n + 1 /\ f \in 0 .. n + 1
      BY <1>1, <1>2, <1>7, <1>8 DEF Window
    <3>2. Age(tail)' = Wrap(n + 1)
      BY <1>1, <1>2, <1>8, <1>9, NextAge, NextValue
    <3>3. Age(Next1(last_read, RobSize))' = Wrap(t) /\ Age(Next1(last_fetch, RobSize))' = Wrap(f)
      BY <1>2, <1>7 DEF Window, Age
    <3>4. ASSUME NEW k \in RobIndex
          PROVE  /\ rob'[k].id = IF Age(k)' < n + 1 THEN id' - (n + 1) + Age(k)' ELSE 0
                 /\ Sent(k)' <=> Age(k)' < t
                 /\ rob'[k].fetched # "no" <=> Age(k)' < f
                 /\ k \in itlb' => rob'[k].translated = "no"
      <4>1. /\ rob[k].id = IF Age(k) < n THEN id - n + Age(k) ELSE 0
            /\ Sent(k) <=> Age(k) < t
            /\ rob[k].fetched # "no" <=> Age(k) < f
            /\ k \in itlb => rob[k].translated = "no"
            /\ t <= n /\ f <= n
        BY <1>7 DEF Window
      <4>2. CASE k = tail
        BY <1>1, <1>2, <1>4, <1>6, <1>7, <1>9, <4>1, <4>2 DEF Sent
      <4>3. CASE k # tail
        <5>1. rob'[k] = rob[k] /\ Age(k)' = Age(k) /\ itlb' = itlb /\ id' = id + 1
          BY <1>2, <1>6, <1>9, <4>3
        <5>2. Age(k) \in 0 .. RobSize - 1 /\ Age(k) # n
          BY <1>9, <4>3
        <5>3. Age(k) < n + 1 <=> Age(k) < n
          BY <5>2
        <5>4. id + 1 - (n + 1) + Age(k) = id - n + Age(k)
          BY <1>1, <5>2
        <5>5. rob'[k].id = IF Age(k) < n THEN id - n + Age(k) ELSE 0
          BY <4>1, <5>1, Zenon
        <5>6. rob'[k].id = IF Age(k) < n + 1 THEN id + 1 - (n + 1) + Age(k) ELSE 0
          BY <5>3, <5>4, <5>5, Zenon
        <5>7. rob'[k].id = IF Age(k)' < n + 1 THEN id' - (n + 1) + Age(k)' ELSE 0
          BY <1>1, <5>1, <5>2, <5>6
        <5> QED
          BY <4>1, <5>1, <5>7 DEF Sent
      <4> QED
        BY <4>2, <4>3
    <3>5. n + 1 = RobSize => rob'[head'].translated = "COMPLETED"
      BY <1>1, <1>2, <1>6, <1>8, HeadAge
    <3> QED
      BY <3>1, <3>2, <3>3, <3>4, <3>5 DEF Window
  <2>2. n + 1 \in 0 .. RobSize
    BY <1>1, <1>8
  <2> QED
    BY <1>7, <2>1, <2>2 DEF FrontEnd
<1>12. Stages'
  BY <1>4, <1>6 DEF CInv, Stages
<1>13. \A k \in RobIndex : k # tail =>
         /\ Busy(k)' <=> Busy(k)
         /\ Op(k)' = Op(k) /\ (IsMemory(k)' <=> IsMemory(k))
         /\ Unresolved(k)' <=> Unresolved(k)
         /\ InQueues(k)' <=> InQueues(k)
  BY <1>2, <1>6 DEF Busy, Op, IsMemory, Unresolved, InQueues
<1>14. \A k \in RobIndex : k = tail =>
         ~Busy(k) /\ Busy(k)' /\ (Unresolved(k)' <=> miss) /\ ~InQueues(k)'
  <2>1. rob'[tail] = new /\ ~Busy(tail) /\ id # 0
    BY <1>1, <1>6, <1>8, <1>9
  <2> QED
    BY <1>3, <1>4, <2>1 DEF Busy, Unresolved, InQueues
<1>15. Stall'
  <2>1. \A k \in RobIndex : ~Unresolved(k)
    BY <1>2 DEF CInv, BackEnd, Stall
  <2>2. \A k \in RobIndex : Unresolved(k)' <=> k = tail /\ miss
    BY <1>13, <1>14, <2>1
  <2> QED
    BY <1>1, <1>3, <1>14, <2>2 DEF Stall
<1>16. Lists'
  <2>1. \A m \in 1 .. 2 : \A x \in 1 .. Len(rte[m]) : rte[m][x] \in RobIndex
    BY ElementOfSeq DEF CInv, Types
  <2> QED
    <3>1. ASSUME NEW m \in 1 .. 2, NEW x \in 1 .. Len(rte[m]), NEW k, k = rte[m][x]
          PROVE  /\ Busy(k)' /\ ~IsMemory(k)'
                 /\ rob'[k].reg_ready /\ rob'[k].scheduled = "COMPLETED"
                 /\ rob'[k].executed = "no"
      <4>1. /\ k \in RobIndex /\ Busy(k) /\ ~IsMemory(k)
            /\ rob[k].reg_ready /\ rob[k].scheduled = "COMPLETED" /\ rob[k].executed = "no"
        BY <2>1, <3>1 DEF CInv, BackEnd, Lists
      <4> QED
        BY <1>6, <1>13, <1>14, <4>1
    <3> QED
      BY <1>2, <3>1 DEF CInv, BackEnd, Lists
<1>17. \A k \in RobIndex : rob[k].regs_depend_on_me # {} => k # tail
  BY <1>14 DEF CInv, BackEnd, Deps
<1>18. Deps'
  BY <1>4, <1>6, <1>9, <1>13, <1>14 DEF CInv, BackEnd, Deps
<1>19. \A d \in RobIndex : d # tail => Pending(d)' = Pending(d)
  BY <1>4, <1>6, <1>13, <1>17 DEF Pending
<1>20. Counts'
  BY <1>4, <1>6, <1>19 DEF CInv, BackEnd, Counts
<1>21. Operands'
  <2>1. ASSUME NEW i \in RobIndex, rob[i].scheduled # "no"
        PROVE  \A j : \A k \in Writers(i, j) : k # tail
    BY <1>8, <1>9, <2>1 DEF Writers, Older
  <2>2. ASSUME NEW i \in RobIndex, rob[i].scheduled # "no"
        PROVE  i # tail /\ \A j : Writers(i, j)' = Writers(i, j)
    <3>1. i # tail
      BY <1>9, <1>14, <2>2
    <3>2. Older(i)' = Older(i) /\ tail \notin Older(i)
      BY <1>8, <1>9, <2>2 DEF Older
    <3> QED
      BY <1>13, <3>1, <3>2 DEF Writers, Older
  <2>3. \A i \in RobIndex : rob'[i].scheduled # "no" => rob[i].scheduled # "no"
    BY <1>4, <1>6
  <2> QED
    BY <1>6, <1>9, <1>13, <2>1, <2>2, <2>3 DEF CInv, BackEnd, Operands, Writers, Older
<1>22. Ready'
  <2>1. \A i \in RobIndex : i # tail => rob'[i] = rob[i]
    BY <1>6
  <2>2. rob'[tail].executed = "no"
    BY <1>1, <1>4, <1>6
  <2>3. \A i \in RobIndex : rob[i].executed # "no" \/ InQueues(i) => rob[i].reg_ready
    BY DEF CInv, BackEnd, Ready
  <2> QED
    BY <1>13, <1>14, <2>1, <2>2, <2>3 DEF Ready
<1> QED
  BY <1>10, <1>11, <1>12, <1>15, <1>16, <1>18, <1>20, <1>21, <1>22 DEF CInv, BackEnd

-----------------------------------------------------------------------------
(* Facts about a state of the invariant.                                   *)

\* The instructions in the ROB are the youngest ones read from the trace.
LEMMA RobFacts ==
  ASSUME CInv, NEW k \in RobIndex
  PROVE  /\ Age(k) \in 0 .. RobSize - 1
         /\ Busy(k) => Op(k) \in Instr /\ DOMAIN Op(k).src = 1 .. Len(Op(k).src)
         /\ rob[k].fetched # "no" => Busy(k)
         /\ rob[k].scheduled # "no" => Busy(k)
         /\ Busy(k) => \A l \in Older(k) : l \in RobIndex /\ Busy(l) /\ Age(l) < Age(k)
<1>1. /\ head \in RobIndex /\ RobSize \in Nat /\ RobSize >= 2
      /\ program \in Seq(Instr) /\ Len(program) \in Nat
      /\ instr_unique_id \in 1 .. Len(program) + 1
  <2>1. program \in Seq(Instr)
    BY ProgramsAreTraces DEF CInv, Types
  <2> QED
    BY <2>1, LenProperties, CoreSizes DEF CInv, Types
<1>2. \A l \in RobIndex : Age(l) \in 0 .. RobSize - 1
  BY <1>1, AgeValue
<1>3. PICK n \in 0 .. RobSize, t \in 0 .. RobSize, f \in 0 .. RobSize : Window(n, t, f)
  BY DEF CInv, FrontEnd
<1>4. n < instr_unique_id /\ f <= n
  BY <1>3 DEF Window
<1>5. \A l \in RobIndex :
        /\ rob[l].id = IF Age(l) < n THEN instr_unique_id - n + Age(l) ELSE 0
        /\ rob[l].fetched # "no" <=> Age(l) < f
  BY <1>3 DEF Window
<1>6. \A l \in RobIndex : /\ Busy(l) <=> Age(l) < n
                          /\ Busy(l) => rob[l].id \in 1 .. Len(program)
  BY <1>1, <1>2, <1>4, <1>5 DEF Busy
<1>7. Busy(k) => Op(k) \in Instr
  BY <1>1, <1>6, ElementOfSeq DEF Op
<1>8. Busy(k) => DOMAIN Op(k).src = 1 .. Len(Op(k).src)
  <2>1. Busy(k) => Op(k).src \in Seq(Reg)
    BY <1>7 DEF Instr
  <2> QED
    BY <2>1, LenProperties
<1>9. rob[k].fetched # "no" => Busy(k)
  BY <1>1, <1>2, <1>4, <1>5, <1>6
<1>10. rob[k].scheduled # "no" => rob[k].fetched # "no"
  BY DEF CInv, Stages
<1>11. Busy(k) => \A l \in Older(k) : l \in RobIndex /\ Busy(l) /\ Age(l) < Age(k)
  BY <1>1, <1>2, <1>6 DEF Older
<1> QED
  BY <1>2, <1>7, <1>8, <1>9, <1>10, <1>11

\* An instruction not scheduled has not begun to execute.
LEMMA NotScheduled ==
  ASSUME CInv, NEW k \in RobIndex, rob[k].scheduled = "no"
  PROVE  /\ rob[k].executed = "no" /\ ~InQueues(k) /\ ~rob[k].reg_ready
         /\ rob[k].reg_ready = FALSE
         /\ \A l \in RobIndex : \A e \in rob[l].regs_depend_on_me : e[1] # k
<1>1. rob[k].reg_ready = FALSE
  BY DEF CInv, BackEnd, Counts
<1>2. rob[k].executed = "no" /\ ~InQueues(k)
  BY <1>1 DEF CInv, BackEnd, Ready
<1>3. \A l \in RobIndex : \A e \in rob[l].regs_depend_on_me : e[1] # k
  BY DEF CInv, BackEnd, Deps
<1> QED
  BY <1>1, <1>2, <1>3

\* The youngest of a set of instructions.
LEMMA YoungestIs ==
  ASSUME head \in RobIndex, NEW S \in SUBSET RobIndex, S # {}
  PROVE  Youngest(S) \in S /\ \A m \in S : Age(m) <= Age(Youngest(S))
<1> DEFINE T == {RobSize - 1 - Age(k) : k \in S}
<1>1. \A k \in S : Age(k) \in 0 .. RobSize - 1 /\ RobSize \in Nat
  BY AgeValue, CoreSizes
<1>2. T \subseteq Nat /\ T # {}
  BY <1>1
<1>3. PICK x \in T : \A y \in T : <<y, x>> \notin OpToRel(<, Nat)
  BY <1>2, NatLessThanWellFounded, WFMin
<1>4. \A y \in T : ~(y < x)
  BY <1>2, <1>3 DEF OpToRel
<1>5. PICK k \in S : x = RobSize - 1 - Age(k)
  BY <1>3
<1>6. \A m \in S : Age(m) <= Age(k)
  <2>1. \A m \in S : RobSize - 1 - Age(m) \in T
    OBVIOUS
  <2>2. \A m \in S : ~(RobSize - 1 - Age(m) < RobSize - 1 - Age(k))
    BY <1>4, <1>5, <2>1
  <2> QED
    BY <1>1, <2>2
<1> QED
  BY <1>5, <1>6 DEF Youngest

-----------------------------------------------------------------------------
(* Scheduling.                                                             *)

\* The parts of Schedule.
Waits(i) == {j \in DOMAIN Op(i).src : RegProducer(i, j) # NoIndex}
On(i, k) == {<<i, j>> : j \in {j \in Waits(i) : RegProducer(i, j) = k}}
Links(i) == [k \in RobIndex |-> [rob[k] EXCEPT !.regs_depend_on_me = @ \cup On(i, k)]]
StageOf(i) == IF IsMemory(i) THEN "INFLIGHT" ELSE "COMPLETED"
Linked(i) ==
  [Links(i) EXCEPT
     ![i].num_reg_dependent = Cardinality(Waits(i)),
     ![i].reg_ready = (Waits(i) = {}),
     ![i].scheduled = StageOf(i)]

LEMMA LinkedFields ==
  ASSUME Shaped(rob), NEW i \in RobIndex, NEW s, s = Linked(i)
  PROVE  /\ Shaped(s)
         /\ \A k \in RobIndex :
              /\ SameId(s[k], rob[k]) /\ SameFetch(s[k], rob[k])
              /\ SameQueues(s[k], rob[k]) /\ s[k].executed = rob[k].executed
              /\ s[k].regs_depend_on_me = rob[k].regs_depend_on_me \cup On(i, k)
              /\ s[k].num_reg_dependent =
                   IF k = i THEN Cardinality(Waits(i)) ELSE rob[k].num_reg_dependent
              /\ s[k].reg_ready = IF k = i THEN (Waits(i) = {}) ELSE rob[k].reg_ready
              /\ s[k].scheduled = IF k = i THEN StageOf(i) ELSE rob[k].scheduled
<1> DEFINE l == Links(i)
           c == Cardinality(Waits(i))
           b == (Waits(i) = {})
           v == StageOf(i)
<1>1. \A k \in RobIndex : rob[k] = Fields(rob[k])
  BY DEF Shaped
<1>2. ASSUME NEW k \in RobIndex
      PROVE  /\ l[k] = Fields(l[k])
             /\ SameId(l[k], rob[k]) /\ SameFetch(l[k], rob[k])
             /\ SameQueues(l[k], rob[k]) /\ l[k].executed = rob[k].executed
             /\ l[k].regs_depend_on_me = rob[k].regs_depend_on_me \cup On(i, k)
             /\ l[k].num_reg_dependent = rob[k].num_reg_dependent
             /\ l[k].reg_ready = rob[k].reg_ready /\ l[k].scheduled = rob[k].scheduled
  <2> DEFINE on == rob[k].regs_depend_on_me \cup On(i, k)
  <2>1. l[k] = [Fields(rob[k]) EXCEPT !.regs_depend_on_me = on]
    <3>1. l[k] = [rob[k] EXCEPT !.regs_depend_on_me = on]
      BY DEF Links
    <3> HIDE DEF on, l
    <3> QED
      BY <1>1, <3>1
  <2>2. on = rob[k].regs_depend_on_me \cup On(i, k)
    OBVIOUS
  <2> HIDE DEF on, l
  <2> QED
    BY <2>1, <2>2 DEF Fields, SameId, SameFetch, SameQueues
<1>3. l = [k \in RobIndex |-> l[k]]
  BY DEF Links
<1>4. s = [l EXCEPT ![i].num_reg_dependent = c, ![i].reg_ready = b, ![i].scheduled = v]
  BY DEF Linked
<1> HIDE DEF l, c, b, v
<1>5. s = [k \in RobIndex |-> IF k = i
             THEN [Fields(l[i]) EXCEPT !.num_reg_dependent = c, !.reg_ready = b,
                                       !.scheduled = v]
             ELSE l[k]]
  BY <1>2, <1>3, <1>4
<1>6. ASSUME NEW k \in RobIndex
      PROVE  /\ s[k] = Fields(s[k])
             /\ SameId(s[k], l[k]) /\ SameFetch(s[k], l[k])
             /\ SameQueues(s[k], l[k]) /\ s[k].executed = l[k].executed
             /\ s[k].regs_depend_on_me = l[k].regs_depend_on_me
             /\ s[k].num_reg_dependent = IF k = i THEN c ELSE l[k].num_reg_dependent
             /\ s[k].reg_ready = IF k = i THEN b ELSE l[k].reg_ready
             /\ s[k].scheduled = IF k = i THEN v ELSE l[k].scheduled
  <2>1. CASE k = i
    <3>1. s[k] = [Fields(l[i]) EXCEPT !.num_reg_dependent = c, !.reg_ready = b,
                                      !.scheduled = v]
      BY <1>5, <2>1
    <3> QED
      BY <2>1, <3>1 DEF Fields, SameId, SameFetch, SameQueues
  <2>2. CASE k # i
    <3>1. s[k] = l[k]
      BY <1>5, <2>2
    <3> QED
      BY <1>2, <2>2, <3>1 DEF SameId, SameFetch, SameQueues
  <2> QED
    BY <2>1, <2>2
<1>7. Shaped(s)
  BY <1>5, <1>6 DEF Shaped
<1>8. \A k \in RobIndex : /\ SameId(s[k], rob[k]) /\ SameFetch(s[k], rob[k])
                          /\ SameQueues(s[k], rob[k]) /\ s[k].executed = rob[k].executed
  BY <1>2, <1>6 DEF SameId, SameFetch, SameQueues
<1>9. \A k \in RobIndex :
         /\ s[k].regs_depend_on_me = rob[k].regs_depend_on_me \cup On(i, k)
         /\ s[k].num_reg_dependent = IF k = i THEN c ELSE rob[k].num_reg_dependent
         /\ s[k].reg_ready = IF k = i THEN b ELSE rob[k].reg_ready
         /\ s[k].scheduled = IF k = i THEN v ELSE rob[k].scheduled
  BY <1>2, <1>6
<1> QED
  BY <1>7, <1>8, <1>9 DEF c, b, v

\* The producer of a source is its youngest older writer that has not executed.
Unfinished(i, j) == {k \in Writers(i, j) : rob[k].executed # "COMPLETED"}

LEMMA ProducerIs ==
  ASSUME head \in RobIndex, NEW i, NEW j
  PROVE  /\ RegProducer(i, j) # NoIndex <=> Unfinished(i, j) # {}
         /\ RegProducer(i, j) # NoIndex =>
              /\ RegProducer(i, j) \in Unfinished(i, j)
              /\ \A m \in Unfinished(i, j) : Age(m) <= Age(RegProducer(i, j))
<1> DEFINE S == Unfinished(i, j)
<1>1. S \subseteq RobIndex /\ NoIndex \notin RobIndex
  BY CoreSizes DEF Unfinished, Writers, Older, RobIndex, NoIndex
<1>2. RegProducer(i, j) = IF S = {} THEN NoIndex ELSE Youngest(S)
  <2>1. S = {k \in Older(i) : rob[k].executed # "COMPLETED" /\ Op(i).src[j] \in Op(k).dst}
    BY DEF Unfinished, Writers
  <2> QED
    BY <2>1 DEF RegProducer
<1> HIDE DEF S
<1>3. S # {} => Youngest(S) \in S /\ \A m \in S : Age(m) <= Age(Youngest(S))
  BY <1>1, YoungestIs
<1>4. CASE S = {}
  BY <1>2, <1>4 DEF S
<1>5. CASE S # {}
  <2>1. RegProducer(i, j) = Youngest(S) /\ RegProducer(i, j) # NoIndex
    BY <1>1, <1>2, <1>3, <1>5
  <2> QED
    BY <1>3, <1>5, <2>1 DEF S
<1> QED
  BY <1>4, <1>5

\* The two lists of a Ready-To-Execute pair.
LEMMA TwoLists ==
  ASSUME NEW a \in Seq(RobIndex), NEW b \in Seq(RobIndex), NEW r, r = <<a, b>>
  PROVE  /\ r = <<r[1], r[2]>> /\ r[1] = a /\ r[2] = b
         /\ \A n \in 1 .. 2 : r[n] \in Seq(RobIndex)
<1>1. r[1] = a /\ r[2] = b /\ r = <<r[1], r[2]>>
  OBVIOUS
<1>2. \A n \in 1 .. 2 : n = 1 \/ n = 2
  OBVIOUS
<1> QED
  BY <1>1, <1>2

LEMMA ScheduleInv ==
  ASSUME CInv, Schedule
  PROVE  CInv'
<1>1. PICK i \in head .. RobSize - 1 :
        /\ rob[i].fetched = "COMPLETED" /\ rob[i].scheduled = "no"
        /\ rob' = Linked(i)
        /\ rte' = IF Waits(i) = {} /\ ~IsMemory(i)
                  THEN [rte EXCEPT ![2] = Append(@, i)] ELSE rte
  <2>1. head \in 0 .. RobSize - 1 /\ RobSize \in Nat
    BY CoreSizes DEF CInv, Types, RobIndex
  <2>2. \A i \in head .. RobSize - 1 : i \in head .. i
    BY <2>1
  <2> QED
    BY <2>2 DEF Schedule, Linked, Links, StageOf, On, Waits
<1>2. i \in RobIndex /\ head \in RobIndex
  BY <1>1, CoreSizes DEF CInv, Types, RobIndex
<1>3. UNCHANGED <<program, front, fetch_stall, head>>
  BY DEF Schedule
<1>4. /\ Shaped(rob')
      /\ \A k \in RobIndex :
           /\ SameId(rob'[k], rob[k]) /\ SameFetch(rob'[k], rob[k])
           /\ SameQueues(rob'[k], rob[k]) /\ rob'[k].executed = rob[k].executed
           /\ rob'[k].regs_depend_on_me = rob[k].regs_depend_on_me \cup On(i, k)
           /\ rob'[k].num_reg_dependent =
                IF k = i THEN Cardinality(Waits(i)) ELSE rob[k].num_reg_dependent
           /\ rob'[k].reg_ready = IF k = i THEN (Waits(i) = {}) ELSE rob[k].reg_ready
           /\ rob'[k].scheduled = IF k = i THEN StageOf(i) ELSE rob[k].scheduled
  <2>1. Shaped(rob)
    BY DEF CInv, Types
  <2> QED
    BY <1>1, <1>2, <2>1, LinkedFields
<1>5. \A k \in RobIndex : /\ Busy(k)' <=> Busy(k)
                          /\ Op(k)' = Op(k) /\ Age(k)' = Age(k)
                          /\ IsMemory(k)' <=> IsMemory(k)
                          /\ Unresolved(k)' <=> Unresolved(k)
                          /\ InQueues(k)' <=> InQueues(k)
  BY <1>3, <1>4 DEF Busy, Op, Age, IsMemory, Unresolved, InQueues, SameId, SameQueues
<1>6. /\ Busy(i) /\ rob[i].executed = "no" /\ ~InQueues(i)
      /\ \A l \in RobIndex : \A e \in rob[l].regs_depend_on_me : e[1] # i
      /\ DOMAIN Op(i).src = 1 .. Len(Op(i).src)
      /\ \A l \in Older(i) : l \in RobIndex /\ Busy(l) /\ Age(l) < Age(i)
  BY <1>1, <1>2, RobFacts, NotScheduled
<1>7. StageOf(i) \in {"INFLIGHT", "COMPLETED"}
  BY DEF StageOf
\* What the producers of the sources are.
<1>8. \A j \in Waits(i) : /\ RegProducer(i, j) \in Unfinished(i, j)
                          /\ \A m \in Unfinished(i, j) : Age(m) <= Age(RegProducer(i, j))
  BY <1>2, ProducerIs DEF Waits
<1>9. \A j \in 1 .. Len(Op(i).src) : Unfinished(i, j) # {} => j \in Waits(i)
  BY <1>2, <1>6, ProducerIs DEF Waits
<1>10. \A k : \A e : e \in On(i, k) <=>
         \E j \in Waits(i) : e = <<i, j>> /\ RegProducer(i, j) = k
  BY DEF On
<1>11. \A j : \A m \in Unfinished(i, j) : /\ m \in Older(i) /\ m \in RobIndex
                                          /\ rob[m].executed # "COMPLETED"
  BY <1>6 DEF Unfinished, Writers
<1>12. Types'
  <2>1. \A n \in 1 .. 2 : rte[n] \in Seq(RobIndex)
    BY DEF CInv, Types
  <2>2. Append(rte[2], i) \in Seq(RobIndex)
    BY <1>2, <2>1, AppendProperties
  <2>3. rte' = <<rte'[1], rte'[2]>> /\ \A n \in 1 .. 2 : rte'[n] \in Seq(RobIndex)
    <3>1. rte = <<rte[1], rte[2]>>
      BY DEF CInv, Types
    <3>2. rte' = rte \/ rte' = <<rte[1], Append(rte[2], i)>>
      BY <1>1, <3>1
    <3> QED
      BY <2>1, <2>2, <3>1, <3>2, TwoLists
  <2> QED
    BY <1>3, <1>4, <2>3 DEF CInv, Types, front
<1>13. FrontEnd'
  BY <1>2, <1>3, <1>4, FrontFrame DEF CInv
<1>14. Stages'
  <2>1. \A k \in RobIndex : rob'[k].fetched = rob[k].fetched /\ rob'[k].translated = rob[k].translated
    BY <1>4 DEF SameFetch
  <2> QED
    BY <1>1, <1>4, <1>6, <2>1 DEF CInv, Stages
<1>15. Stall'
  BY <1>3, <1>5 DEF CInv, BackEnd, Stall
<1>16. Lists'
  <2>1. /\ rte = <<rte[1], rte[2]>>
        /\ rte[1] \in Seq(RobIndex) /\ rte[2] \in Seq(RobIndex)
    BY DEF CInv, Types
  <2>2. \A n \in 1 .. 2 : \A x \in 1 .. Len(rte[n]) :
          /\ rte[n][x] \in RobIndex /\ rte[n][x] # i
          /\ Busy(rte[n][x]) /\ ~IsMemory(rte[n][x])
          /\ rob[rte[n][x]].reg_ready /\ rob[rte[n][x]].scheduled = "COMPLETED"
          /\ rob[rte[n][x]].executed = "no"
    <3>1. \A n \in 1 .. 2 : \A x \in 1 .. Len(rte[n]) : rte[n][x] \in RobIndex
      BY ElementOfSeq DEF CInv, Types
    <3> QED
      BY <1>1, <3>1 DEF CInv, BackEnd, Lists
  <2>3. \A k \in RobIndex :
          /\ Busy(k) /\ ~IsMemory(k) /\ k # i
          /\ rob[k].reg_ready /\ rob[k].scheduled = "COMPLETED" /\ rob[k].executed = "no"
          => /\ Busy(k)' /\ ~IsMemory(k)'
             /\ rob'[k].reg_ready /\ rob'[k].scheduled = "COMPLETED"
             /\ rob'[k].executed = "no"
    BY <1>4, <1>5
  <2>4. CASE rte' = rte
    BY <2>2, <2>3, <2>4 DEF CInv, BackEnd, Lists
  <2>5. CASE Waits(i) = {} /\ ~IsMemory(i) /\ rte' = [rte EXCEPT ![2] = Append(@, i)]
    <3>1. /\ rte'[1] = rte[1] /\ rte'[2] = Append(rte[2], i)
          /\ Len(rte[1]) \in Nat /\ Len(rte[2]) \in Nat
          /\ Len(rte'[2]) = Len(rte[2]) + 1
          /\ \A x \in 1 .. Len(rte[2]) : rte'[2][x] = rte[2][x]
          /\ rte'[2][Len(rte[2]) + 1] = i
      BY <1>2, <2>1, <2>5, AppendProperties, LenProperties
    <3>2. ASSUME NEW n \in 1 .. 2, NEW x \in 1 .. Len(rte'[n])
          PROVE  \/ x \in 1 .. Len(rte[n]) /\ rte'[n][x] = rte[n][x]
                 \/ n = 2 /\ x = Len(rte[2]) + 1 /\ rte'[n][x] = i
      <4>1. CASE n = 1
        BY <3>1, <3>2, <4>1
      <4>2. CASE n = 2
        BY <3>1, <3>2, <4>2
      <4> QED
        BY <4>1, <4>2
    <3>3. /\ Busy(i)' /\ ~IsMemory(i)'
          /\ rob'[i].reg_ready /\ rob'[i].scheduled = "COMPLETED" /\ rob'[i].executed = "no"
      BY <1>2, <1>4, <1>5, <1>6, <2>5 DEF StageOf
    <3>4. ASSUME NEW n \in 1 .. 2, NEW x \in 1 .. Len(rte'[n]), NEW k, k = rte'[n][x]
          PROVE  /\ Busy(k)' /\ ~IsMemory(k)'
                 /\ rob'[k].reg_ready /\ rob'[k].scheduled = "COMPLETED"
                 /\ rob'[k].executed = "no"
      <4>1. CASE x \in 1 .. Len(rte[n]) /\ k = rte[n][x]
        BY <2>2, <2>3, <4>1
      <4>2. CASE k = i
        BY <3>3, <4>2
      <4> QED
        BY <3>2, <3>4, <4>1, <4>2
    <3>5. \A n, m \in 1 .. 2 : \A x \in 1 .. Len(rte[n]), y \in 1 .. Len(rte[m]) :
            rte[n][x] = rte[m][y] => n = m /\ x = y
      BY DEF CInv, BackEnd, Lists
    <3>6. ASSUME NEW n \in 1 .. 2, NEW m \in 1 .. 2,
                 NEW x \in 1 .. Len(rte'[n]), NEW y \in 1 .. Len(rte'[m]),
                 rte'[n][x] = rte'[m][y]
          PROVE  n = m /\ x = y
      <4>1. \/ x \in 1 .. Len(rte[n]) /\ rte'[n][x] = rte[n][x] /\ rte'[n][x] # i
            \/ n = 2 /\ x = Len(rte[2]) + 1 /\ rte'[n][x] = i
        BY <2>2, <3>2
      <4>2. \/ y \in 1 .. Len(rte[m]) /\ rte'[m][y] = rte[m][y] /\ rte'[m][y] # i
            \/ m = 2 /\ y = Len(rte[2]) + 1 /\ rte'[m][y] = i
        BY <2>2, <3>2
      <4> QED
        BY <3>5, <3>6, <4>1, <4>2
    <3> QED
      BY <3>4, <3>6 DEF Lists
  <2> QED
    BY <1>1, <2>4, <2>5
<1>17. Deps'
  <2>1. ASSUME NEW k \in RobIndex, NEW e \in rob'[k].regs_depend_on_me
        PROVE  /\ e = <<e[1], e[2]>>
               /\ e[1] \in RobIndex /\ Busy(e[1])' /\ rob'[e[1]].scheduled # "no"
               /\ Busy(k)' /\ Age(k)' < Age(e[1])'
               /\ e[2] \in 1 .. Len(Op(e[1])'.src)
    <3>1. CASE e \in rob[k].regs_depend_on_me
      <4>1. /\ e = <<e[1], e[2]>>
            /\ e[1] \in RobIndex /\ Busy(e[1]) /\ rob[e[1]].scheduled # "no"
            /\ Busy(k) /\ Age(k) < Age(e[1])
            /\ e[2] \in 1 .. Len(Op(e[1]).src)
        BY <3>1 DEF CInv, BackEnd, Deps
      <4> QED
        BY <1>4, <1>5, <1>7, <4>1
    <3>2. CASE e \in On(i, k)
      <4>1. PICK j \in Waits(i) : e = <<i, j>> /\ RegProducer(i, j) = k
        BY <1>10, <3>2
      <4>2. k \in Older(i) /\ j \in 1 .. Len(Op(i).src)
        BY <1>6, <1>8, <1>11, <4>1 DEF Waits
      <4>3. Busy(k) /\ Age(k) < Age(i) /\ e[1] = i /\ e[2] = j
        BY <1>6, <4>1, <4>2
      <4>4. rob'[i].scheduled # "no" /\ Busy(i)' /\ Op(i)' = Op(i) /\ Age(i)' = Age(i)
        BY <1>2, <1>4, <1>5, <1>6, <1>7
      <4>5. Busy(k)' /\ Age(k)' = Age(k)
        BY <1>5, <4>3
      <4> QED
        BY <1>2, <4>1, <4>2, <4>3, <4>4, <4>5
    <3> QED
      BY <1>4, <2>1, <3>1, <3>2
  <2>2. ASSUME NEW k \in RobIndex, NEW l \in RobIndex,
               NEW e \in rob'[k].regs_depend_on_me, e \in rob'[l].regs_depend_on_me,
               rob'[k].executed # "COMPLETED", rob'[l].executed # "COMPLETED"
        PROVE  k = l
    <3>1. CASE e \in rob[k].regs_depend_on_me /\ e \in rob[l].regs_depend_on_me
      BY <1>4, <2>2, <3>1 DEF CInv, BackEnd, Deps
    <3>2. \A m : e \in On(i, m) => e[1] = i
      BY <1>10
    <3>3. CASE e \in On(i, k) /\ e \in On(i, l)
      BY <1>10, <3>3
    <3> QED
      BY <1>4, <1>6, <2>2, <3>1, <3>2, <3>3
  <2> QED
    BY <2>1, <2>2 DEF Deps
<1>18. Counts'
  <2>1. ASSUME NEW d \in RobIndex, d # i
        PROVE  Pending(d)' = Pending(d)
    <3>1. \A k, j : <<d, j>> \notin On(i, k)
      BY <1>10, <2>1
    <3> QED
      BY <1>4, <1>5, <3>1 DEF Pending
  <2>2. Pending(i)' = Waits(i)
    <3>1. \A j : \A k \in RobIndex :
            <<i, j>> \in rob'[k].regs_depend_on_me <=> j \in Waits(i) /\ RegProducer(i, j) = k
      BY <1>4, <1>6, <1>10
    <3>2. \A j \in Waits(i) : /\ RegProducer(i, j) \in RobIndex /\ j \in 1 .. Len(Op(i).src)
                              /\ rob'[RegProducer(i, j)].executed # "COMPLETED"
      BY <1>4, <1>6, <1>8, <1>11 DEF Waits
    <3>3. Pending(i)' = {j \in 1 .. Len(Op(i).src) : \E k \in RobIndex :
                           /\ <<i, j>> \in rob'[k].regs_depend_on_me
                           /\ rob'[k].executed # "COMPLETED"}
      BY <1>2, <1>5 DEF Pending
    <3> QED
      BY <3>1, <3>2, <3>3
  <2>3. \A d \in RobIndex :
          /\ rob[d].scheduled = "no" => rob[d].num_reg_dependent = 0 /\ rob[d].reg_ready = FALSE
          /\ rob[d].scheduled # "no" =>
               /\ rob[d].num_reg_dependent = Cardinality(Pending(d))
               /\ rob[d].reg_ready = (Pending(d) = {})
    BY DEF CInv, BackEnd, Counts
  <2>4. ASSUME NEW d \in RobIndex
        PROVE  /\ rob'[d].scheduled = "no" =>
                    rob'[d].num_reg_dependent = 0 /\ rob'[d].reg_ready = FALSE
               /\ rob'[d].scheduled # "no" =>
                    /\ rob'[d].num_reg_dependent = Cardinality(Pending(d)')
                    /\ rob'[d].reg_ready = (Pending(d)' = {})
    <3>1. CASE d = i
      BY <1>4, <1>7, <2>2, <3>1
    <3>2. CASE d # i
      BY <1>4, <2>1, <2>3, <3>2
    <3> QED
      BY <3>1, <3>2
  <2> QED
    BY <2>4 DEF Counts
<1>19. \A k \in RobIndex : \A j : Writers(k, j)' = Writers(k, j)
  BY <1>5 DEF Writers, Older
<1>20. Operands'
  <2>1. ASSUME NEW d \in RobIndex, rob'[d].scheduled # "no",
               NEW j \in 1 .. Len(Op(d).src), NEW k \in Writers(d, j),
               \A m \in Writers(d, j) : Age(m) <= Age(k)
        PROVE  rob'[k].executed = "COMPLETED" \/ <<d, j>> \in rob'[k].regs_depend_on_me
    <3>1. k \in RobIndex
      BY DEF Writers, Older
    <3>2. CASE d # i
      <4>1. rob[d].scheduled # "no"
        BY <1>4, <2>1, <3>2
      <4>2. rob[k].executed = "COMPLETED" \/ <<d, j>> \in rob[k].regs_depend_on_me
        BY <2>1, <4>1 DEF CInv, BackEnd, Operands
      <4> QED
        BY <1>4, <3>1, <4>2
    <3>3. CASE d = i
      <4>1. CASE rob[k].executed = "COMPLETED"
        BY <1>4, <3>1, <4>1
      <4>2. CASE rob[k].executed # "COMPLETED"
        <5>1. k \in Unfinished(i, j)
          BY <2>1, <3>3, <4>2 DEF Unfinished
        <5>2. j \in Waits(i)
          BY <1>9, <2>1, <3>3, <5>1
        <5> DEFINE p == RegProducer(i, j)
        <5>3. p \in RobIndex /\ Age(k) <= Age(p) /\ p \in Writers(d, j)
          BY <1>8, <1>11, <3>3, <5>1, <5>2 DEF Unfinished
        <5>4. Age(p) <= Age(k)
          BY <2>1, <5>3
        <5> HIDE DEF p
        <5>5. p = k
          <6>1. Age(p) \in Int /\ Age(k) \in Int
            BY <1>2, <3>1, <5>3, AgeValue, CoreSizes
          <6> QED
            BY <1>2, <3>1, <5>3, <5>4, <6>1, AgeInjective
        <5> QED
          BY <1>4, <1>10, <3>1, <3>3, <5>2, <5>5 DEF p
      <4> QED
        BY <4>1, <4>2
    <3> QED
      BY <3>2, <3>3
  <2>2. \A d \in RobIndex : \A j : \A m \in Writers(d, j) : m \in RobIndex
    BY DEF Writers, Older
  <2> QED
    BY <1>5, <1>19, <2>1, <2>2 DEF Operands
<1>21. Ready'
  BY <1>4, <1>5, <1>6 DEF CInv, BackEnd, Ready
<1> QED
  BY <1>12, <1>13, <1>14, <1>15, <1>16, <1>17, <1>18, <1>20, <1>21 DEF CInv, BackEnd

-----------------------------------------------------------------------------
(* Execution.                                                              *)

LEMMA ExecuteInv ==
  ASSUME CInv, NEW n \in 1 .. 2, Execute(n)
  PROVE  CInv'
<1> DEFINE h == rte[n][1]
<1>1. /\ rte[n] \in Seq(RobIndex) /\ rte[n] # <<>>
      /\ rte = <<rte[1], rte[2]>>
      /\ rte[1] \in Seq(RobIndex) /\ rte[2] \in Seq(RobIndex)
  BY DEF CInv, Types, Execute
<1>2. /\ Len(rte[n]) \in Nat /\ 1 \in 1 .. Len(rte[n])
      /\ Head(rte[n]) = h /\ h \in RobIndex
      /\ Tail(rte[n]) \in Seq(RobIndex) /\ Len(Tail(rte[n])) = Len(rte[n]) - 1
      /\ \A x \in 1 .. Len(rte[n]) - 1 : Tail(rte[n])[x] = rte[n][x + 1]
  BY <1>1, HeadTailProperties, LenProperties, EmptySeq, ElementOfSeq
<1>3. /\ rob' = WithExecuted(rob, h, "INFLIGHT")
      /\ rte' = [rte EXCEPT ![n] = Tail(rte[n])]
      /\ UNCHANGED <<program, front, fetch_stall, head>>
  BY <1>2 DEF Execute, WithExecuted
<1>4. /\ Busy(h) /\ rob[h].reg_ready /\ rob[h].scheduled = "COMPLETED"
      /\ rob[h].executed = "no"
  BY <1>2 DEF CInv, BackEnd, Lists
<1> HIDE DEF h
<1>5. /\ Shaped(rob')
      /\ \A k \in RobIndex :
           /\ SameId(rob'[k], rob[k]) /\ SameFetch(rob'[k], rob[k])
           /\ SameSched(rob'[k], rob[k]) /\ SameQueues(rob'[k], rob[k])
           /\ rob'[k].executed = IF k = h THEN "INFLIGHT" ELSE rob[k].executed
  <2>1. Shaped(rob)
    BY DEF CInv, Types
  <2> QED
    BY <1>2, <1>3, <2>1, SetExecuted
<1>6. \A k \in RobIndex : /\ Busy(k)' <=> Busy(k)
                          /\ Op(k)' = Op(k) /\ Age(k)' = Age(k)
                          /\ IsMemory(k)' <=> IsMemory(k)
                          /\ Unresolved(k)' <=> Unresolved(k)
                          /\ InQueues(k)' <=> InQueues(k)
                          /\ rob'[k].executed = "COMPLETED" <=> rob[k].executed = "COMPLETED"
  BY <1>3, <1>4, <1>5
     DEF Busy, Op, Age, IsMemory, Unresolved, InQueues, SameId, SameQueues
<1>7. \A k \in RobIndex : /\ rob'[k].scheduled = rob[k].scheduled
                          /\ rob'[k].reg_ready = rob[k].reg_ready
                          /\ rob'[k].num_reg_dependent = rob[k].num_reg_dependent
                          /\ rob'[k].regs_depend_on_me = rob[k].regs_depend_on_me
  BY <1>5 DEF SameSched
<1>8. Types'
  <2>1. rte' = <<rte'[1], rte'[2]>> /\ \A m \in 1 .. 2 : rte'[m] \in Seq(RobIndex)
    <3>1. \/ rte' = <<Tail(rte[n]), rte[2]>>
          \/ rte' = <<rte[1], Tail(rte[n])>>
      BY <1>1, <1>3
    <3> DEFINE T == Tail(rte[n])
    <3>2. T \in Seq(RobIndex) /\ (rte' = <<T, rte[2]>> \/ rte' = <<rte[1], T>>)
      BY <1>2, <3>1
    <3> HIDE DEF T
    <3> QED
      BY <1>1, <3>2, TwoLists
  <2> QED
    BY <1>3, <1>5, <2>1 DEF CInv, Types, front
<1>9. FrontEnd'
  BY <1>3, <1>5, FrontFrame DEF CInv, Types
<1>10. Stages'
  <2>1. \A k \in RobIndex : rob'[k].fetched = rob[k].fetched /\ rob'[k].translated = rob[k].translated
    BY <1>5 DEF SameFetch
  <2> QED
    BY <1>4, <1>5, <1>7, <2>1 DEF CInv, Stages
<1>11. Stall'
  BY <1>3, <1>6 DEF CInv, BackEnd, Stall
<1>12. Lists'
  <2>1. ASSUME NEW m \in 1 .. 2, NEW x \in 1 .. Len(rte'[m])
        PROVE  \E y \in 1 .. Len(rte[m]) :
                 /\ rte'[m][x] = rte[m][y] /\ y = (IF m = n THEN x + 1 ELSE x)
    <3>1. CASE m = n
      <4>1. rte'[m] = Tail(rte[n])
        BY <1>1, <1>3, <3>1
      <4> QED
        BY <1>2, <2>1, <3>1, <4>1
    <3>2. CASE m # n
      BY <1>1, <1>3, <2>1, <3>2
    <3> QED
      BY <3>1, <3>2
  <2>2. \A m \in 1 .. 2 : Len(rte'[m]) \in Nat
    BY <1>8, LenProperties DEF Types
  <2>3. \A p, q \in 1 .. 2 : \A x \in 1 .. Len(rte[p]), y \in 1 .. Len(rte[q]) :
          rte[p][x] = rte[q][y] => p = q /\ x = y
    BY DEF CInv, BackEnd, Lists
  <2>4. ASSUME NEW m \in 1 .. 2, NEW x \in 1 .. Len(rte'[m]), NEW k, k = rte'[m][x]
        PROVE  /\ Busy(k)' /\ ~IsMemory(k)'
               /\ rob'[k].reg_ready /\ rob'[k].scheduled = "COMPLETED"
               /\ rob'[k].executed = "no"
    <3>1. PICK y \in 1 .. Len(rte[m]) :
            rte'[m][x] = rte[m][y] /\ y = (IF m = n THEN x + 1 ELSE x)
      BY <2>1
    <3>2. /\ k \in RobIndex /\ Busy(k) /\ ~IsMemory(k)
          /\ rob[k].reg_ready /\ rob[k].scheduled = "COMPLETED" /\ rob[k].executed = "no"
      <4>1. k \in RobIndex
        BY <2>4, <3>1, ElementOfSeq DEF CInv, Types
      <4> QED
        BY <2>4, <3>1, <4>1 DEF CInv, BackEnd, Lists
    <3>3. k # h
      <4>1. x \in Nat /\ x >= 1
        BY <2>2
      <4>2. ~(m = n /\ y = 1)
        BY <3>1, <4>1
      <4> QED
        BY <1>2, <2>3, <2>4, <3>1, <4>2 DEF h
    <3> QED
      BY <1>5, <1>6, <1>7, <3>2, <3>3
  <2>5. ASSUME NEW p \in 1 .. 2, NEW q \in 1 .. 2,
               NEW x \in 1 .. Len(rte'[p]), NEW y \in 1 .. Len(rte'[q]),
               rte'[p][x] = rte'[q][y]
        PROVE  p = q /\ x = y
    <3>1. PICK a \in 1 .. Len(rte[p]) :
            rte'[p][x] = rte[p][a] /\ a = (IF p = n THEN x + 1 ELSE x)
      BY <2>1
    <3>2. PICK b \in 1 .. Len(rte[q]) :
            rte'[q][y] = rte[q][b] /\ b = (IF q = n THEN y + 1 ELSE y)
      BY <2>1
    <3>3. p = q /\ a = b
      <4>1. rte[p][a] = rte[q][b]
        BY <2>5, <3>1, <3>2
      <4> QED
        BY <2>3, <4>1
    <3>4. x \in Int /\ y \in Int
      BY <2>2
    <3> QED
      BY <3>1, <3>2, <3>3, <3>4
  <2> QED
    BY <2>4, <2>5 DEF Lists
<1>13. Deps'
  BY <1>6, <1>7 DEF CInv, BackEnd, Deps
<1>14. Counts'
  <2>1. \A d \in RobIndex : Pending(d)' = Pending(d)
    BY <1>6, <1>7 DEF Pending
  <2> QED
    BY <1>7, <2>1 DEF CInv, BackEnd, Counts
<1>15. Operands'
  <2>1. \A k \in RobIndex : \A j : Writers(k, j)' = Writers(k, j)
    BY <1>6 DEF Writers, Older
  <2> QED
    BY <1>6, <1>7, <2>1 DEF CInv, BackEnd, Operands, Writers, Older
<1>16. Ready'
  BY <1>4, <1>5, <1>6, <1>7 DEF CInv, BackEnd, Ready
<1> QED
  BY <1>8, <1>9, <1>10, <1>11, <1>12, <1>13, <1>14, <1>15, <1>16 DEF CInv, BackEnd

\* The parts of CompleteExecution.
OfSource(i, d) == {e \in rob[i].regs_depend_on_me : e[1] = d}
Left(i, d) == rob[d].num_reg_dependent - Cardinality(OfSource(i, d))
Freed(i) == {d \in RobIndex : Left(i, d) = 0 /\ rob[d].num_reg_dependent > 0}
Release(i, d) ==
  IF d \in Freed(i)
  THEN [rob[d] EXCEPT !.num_reg_dependent = 0, !.reg_ready = TRUE,
                      !.scheduled = IF IsMemory(d) THEN "INFLIGHT" ELSE "COMPLETED"]
  ELSE [rob[d] EXCEPT !.num_reg_dependent = Left(i, d)]
Releases(i) == [d \in RobIndex |-> Release(i, d)]

LEMMA ReleasedFields ==
  ASSUME Shaped(rob), NEW i \in RobIndex, NEW s, s = Releases(i)
  PROVE  /\ Shaped(s)
         /\ \A k \in RobIndex :
              /\ SameId(s[k], rob[k]) /\ SameFetch(s[k], rob[k])
              /\ SameQueues(s[k], rob[k]) /\ s[k].executed = rob[k].executed
              /\ s[k].regs_depend_on_me = rob[k].regs_depend_on_me
              /\ s[k].num_reg_dependent = Left(i, k)
              /\ s[k].reg_ready = IF k \in Freed(i) THEN TRUE ELSE rob[k].reg_ready
              /\ s[k].scheduled = IF k \in Freed(i) THEN StageOf(k) ELSE rob[k].scheduled
<1>1. \A k \in RobIndex : rob[k] = Fields(rob[k])
  BY DEF Shaped
<1>2. ASSUME NEW k \in RobIndex
      PROVE  /\ s[k] = Fields(s[k])
             /\ SameId(s[k], rob[k]) /\ SameFetch(s[k], rob[k])
             /\ SameQueues(s[k], rob[k]) /\ s[k].executed = rob[k].executed
             /\ s[k].regs_depend_on_me = rob[k].regs_depend_on_me
             /\ s[k].num_reg_dependent = Left(i, k)
             /\ s[k].reg_ready = IF k \in Freed(i) THEN TRUE ELSE rob[k].reg_ready
             /\ s[k].scheduled = IF k \in Freed(i) THEN StageOf(k) ELSE rob[k].scheduled
  <2> DEFINE v == StageOf(k)
             n == Left(i, k)
  <2>1. CASE k \in Freed(i)
    <3>1. s[k] = [Fields(rob[k]) EXCEPT !.num_reg_dependent = 0, !.reg_ready = TRUE,
                                        !.scheduled = v]
      <4>1. s[k] = [rob[k] EXCEPT !.num_reg_dependent = 0, !.reg_ready = TRUE,
                                  !.scheduled = v]
        BY <2>1 DEF Releases, Release, StageOf
      <4> HIDE DEF v
      <4> QED
        BY <1>1, <4>1
    <3>2. Left(i, k) = 0
      BY <2>1 DEF Freed
    <3> HIDE DEF v
    <3>3. /\ s[k] = Fields(s[k])
          /\ SameId(s[k], rob[k]) /\ SameFetch(s[k], rob[k])
          /\ SameQueues(s[k], rob[k]) /\ s[k].executed = rob[k].executed
          /\ s[k].regs_depend_on_me = rob[k].regs_depend_on_me
          /\ s[k].num_reg_dependent = 0 /\ s[k].reg_ready = TRUE /\ s[k].scheduled = v
      BY <3>1 DEF Fields, SameId, SameFetch, SameQueues
    <3> QED
      BY <2>1, <3>2, <3>3 DEF v
  <2>2. CASE k \notin Freed(i)
    <3>1. s[k] = [Fields(rob[k]) EXCEPT !.num_reg_dependent = n]
      <4>1. s[k] = [rob[k] EXCEPT !.num_reg_dependent = n]
        BY <2>2 DEF Releases, Release
      <4> HIDE DEF n
      <4> QED
        BY <1>1, <4>1
    <3> HIDE DEF n
    <3>2. /\ s[k] = Fields(s[k])
          /\ SameId(s[k], rob[k]) /\ SameFetch(s[k], rob[k])
          /\ SameQueues(s[k], rob[k]) /\ s[k].executed = rob[k].executed
          /\ s[k].regs_depend_on_me = rob[k].regs_depend_on_me
          /\ s[k].num_reg_dependent = n /\ s[k].reg_ready = rob[k].reg_ready
          /\ s[k].scheduled = rob[k].scheduled
      BY <3>1 DEF Fields, SameId, SameFetch, SameQueues
    <3> QED
      BY <2>2, <3>2 DEF n
  <2> QED
    BY <2>1, <2>2
<1>3. Shaped(s)
  BY <1>2 DEF Shaped, Releases
<1> QED
  BY <1>2, <1>3

\* Pairs with the same first component are counted by the second.
LEMMA PairsCount ==
  ASSUME NEW d, NEW M, IsFiniteSet(M), NEW E,
         \A e : e \in E <=> \E j \in M : e = <<d, j>>
  PROVE  IsFiniteSet(E) /\ Cardinality(E) = Cardinality(M)
<1> DEFINE f == [j \in M |-> <<d, j>>]
<1>1. f \in [M -> E] /\ \A j \in M : f[j] = <<d, j>>
  OBVIOUS
<1>2. \A j, l \in M : f[j] = f[l] => j = l
  BY <1>1
<1>3. \A e \in E : \E j \in M : f[j] = e
  BY <1>1
<1> HIDE DEF f
<1>4. ExistsBijection(M, E)
  BY <1>1, <1>2, <1>3 DEF ExistsBijection, Bijection, Injection, Surjection, IsInjective
<1> QED
  BY <1>4, FS_Bijection

\* What completing i leaves an instruction to wait for.
LEMMA LeftCounts ==
  ASSUME CInv, NEW i \in RobIndex, rob[i].executed # "COMPLETED", NEW d \in RobIndex,
         NEW Q, Q = {j \in Pending(d) : <<d, j>> \notin rob[i].regs_depend_on_me}
  PROVE  /\ rob[d].scheduled = "no" => Left(i, d) = 0 /\ d \notin Freed(i)
         /\ rob[d].scheduled # "no" =>
              /\ Left(i, d) = Cardinality(Q)
              /\ d \in Freed(i) <=> Q = {} /\ Pending(d) # {}
<1>1. \A e \in rob[i].regs_depend_on_me :
        /\ e = <<e[1], e[2]>>
        /\ rob[e[1]].scheduled # "no"
        /\ e[2] \in 1 .. Len(Op(e[1]).src)
  BY DEF CInv, BackEnd, Deps
<1>2. /\ rob[d].scheduled = "no" => rob[d].num_reg_dependent = 0
      /\ rob[d].scheduled # "no" => rob[d].num_reg_dependent = Cardinality(Pending(d))
  BY DEF CInv, BackEnd, Counts
<1>3. CASE rob[d].scheduled = "no"
  <2>1. OfSource(i, d) = {}
    BY <1>1, <1>3 DEF OfSource
  <2>2. Cardinality(OfSource(i, d)) = 0
    BY <2>1, FS_EmptySet
  <2> QED
    BY <1>2, <1>3, <2>2 DEF Left, Freed
<1>4. CASE rob[d].scheduled # "no"
  <2> DEFINE P == Pending(d)
             M == {j \in P : <<d, j>> \in rob[i].regs_depend_on_me}
  <2>1. IsFiniteSet(P)
    <3>1. Len(Op(d).src) \in Nat
      <4>1. Busy(d) /\ Op(d) \in Instr
        BY <1>4, RobFacts
      <4>2. Op(d).src \in Seq(Reg)
        BY <4>1 DEF Instr
      <4> QED
        BY <4>2, LenProperties
    <3>2. IsFiniteSet(1 .. Len(Op(d).src))
      BY <3>1, FS_Interval
    <3>3. P \in SUBSET (1 .. Len(Op(d).src))
      BY DEF Pending
    <3> QED
      BY <3>2, <3>3, FS_Subset
  <2>2. \A e : e \in OfSource(i, d) <=> \E j \in M : e = <<d, j>>
    <3>1. ASSUME NEW e \in OfSource(i, d)
          PROVE  \E j \in M : e = <<d, j>>
      <4>1. e = <<d, e[2]>> /\ e[2] \in 1 .. Len(Op(d).src) /\ e \in rob[i].regs_depend_on_me
        BY <1>1 DEF OfSource
      <4>2. e[2] \in P
        BY <4>1 DEF Pending
      <4> QED
        BY <4>1, <4>2
    <3>2. ASSUME NEW j \in M
          PROVE  <<d, j>> \in OfSource(i, d)
      BY DEF OfSource
    <3> QED
      BY <3>1, <3>2
  <2>3. Q = P \ M /\ P \cap M = M /\ M \subseteq P
    OBVIOUS
  <2> HIDE DEF M, P
  <2>4. IsFiniteSet(M) /\ IsFiniteSet(Q)
    BY <2>1, <2>3, FS_Subset
  <2>5. Cardinality(OfSource(i, d)) = Cardinality(M)
    BY <2>2, <2>4, PairsCount
  <2>6. Cardinality(Q) = Cardinality(P) - Cardinality(M)
    BY <2>1, <2>3, FS_Difference
  <2>7. Left(i, d) = Cardinality(Q)
    BY <1>2, <1>4, <2>5, <2>6 DEF Left, P
  <2>8. Cardinality(Q) = 0 <=> Q = {}
    BY <2>4, FS_EmptySet
  <2>9. Cardinality(P) > 0 <=> P # {}
    BY <2>1, FS_EmptySet, FS_CardinalityType
  <2> QED
    BY <1>2, <1>4, <2>7, <2>8, <2>9 DEF Freed, P
<1> QED
  BY <1>3, <1>4

\* An increasing sequence of the elements of a set has each of them once.
LEMMA IncreasingSeq ==
  ASSUME NEW S \in SUBSET RobIndex, NEW o \in Increasing(S)
  PROVE  /\ o \in Seq(RobIndex) /\ Len(o) \in Nat
         /\ \A x \in 1 .. Len(o) : o[x] \in S
         /\ \A x, y \in 1 .. Len(o) : o[x] = o[y] => x = y
         /\ \A e \in S : \E x \in 1 .. Len(o) : o[x] = e
<1>1. S \subseteq RobIndex
  OBVIOUS
<1>2. IsFiniteSet(S)
  <2>1. 0 \in Int /\ RobSize - 1 \in Int
    BY CoreSizes
  <2>2. IsFiniteSet(RobIndex)
    BY <2>1, FS_Interval DEF RobIndex
  <2> QED
    BY <1>1, <2>2, FS_Subset
<1> DEFINE c == Cardinality(S)
<1>3. c \in Nat
  BY <1>2, FS_CardinalityType
<1>4. o \in [1 .. c -> S] /\ \A m, n \in 1 .. c : m < n => o[m] < o[n]
  <2>1. o \in [1 .. c -> S] /\ \A m, n \in DOMAIN o : m < n => o[m] < o[n]
    BY DEF Increasing
  <2> QED
    BY <2>1
<1> HIDE DEF c
<1>5. o \in Seq(RobIndex)
  <2>1. o \in [1 .. c -> RobIndex]
    BY <1>1, <1>4
  <2> QED
    BY <1>3, <2>1, SeqDef
<1>6. Len(o) = c
  BY <1>3, <1>4, <1>5, LenProperties
<1>7. \A x \in 1 .. c : o[x] \in S /\ o[x] \in Int
  <2>1. RobIndex \subseteq Int
    BY CoreSizes DEF RobIndex
  <2> QED
    BY <1>1, <1>4, <2>1
<1>8. ASSUME NEW x \in 1 .. c, NEW y \in 1 .. c, o[x] = o[y]
      PROVE  x = y
  <2>1. x \in Int /\ y \in Int /\ o[x] \in Int
    BY <1>3, <1>7
  <2>2. ~(x < y) /\ ~(y < x)
    BY <1>4, <1>7, <1>8, <2>1
  <2> QED
    BY <2>1, <2>2
<1>9. \A e \in S : \E x \in 1 .. c : o[x] = e
  <2>1. o \in Injection(1 .. c, S)
    BY <1>4, <1>8 DEF Injection, IsInjective
  <2>2. IsFiniteSet(1 .. c) /\ Cardinality(1 .. c) = c
    BY <1>3, FS_Interval
  <2>3. o \in Surjection(1 .. c, S)
    BY <1>2, <2>1, <2>2, FS_Injection DEF c
  <2> QED
    BY <2>3 DEF Surjection
<1> QED
  BY <1>3, <1>5, <1>6, <1>7, <1>8, <1>9

\* What a completion leaves of the ROB.
LEMMA CompletedFields ==
  ASSUME Shaped(rob), NEW i \in RobIndex,
         rob' = WithExecuted(Releases(i), i, "COMPLETED")
  PROVE  /\ Shaped(rob')
         /\ \A k \in RobIndex :
              /\ SameId(rob'[k], rob[k]) /\ SameFetch(rob'[k], rob[k])
              /\ SameQueues(rob'[k], rob[k])
              /\ rob'[k].executed = IF k = i THEN "COMPLETED" ELSE rob[k].executed
              /\ rob'[k].regs_depend_on_me = rob[k].regs_depend_on_me
              /\ rob'[k].num_reg_dependent = Left(i, k)
              /\ rob'[k].reg_ready = IF k \in Freed(i) THEN TRUE ELSE rob[k].reg_ready
              /\ rob'[k].scheduled = IF k \in Freed(i) THEN StageOf(k) ELSE rob[k].scheduled
<1> DEFINE r == Releases(i)
<1>1. /\ Shaped(r)
      /\ \A k \in RobIndex :
           /\ SameId(r[k], rob[k]) /\ SameFetch(r[k], rob[k])
           /\ SameQueues(r[k], rob[k]) /\ r[k].executed = rob[k].executed
           /\ r[k].regs_depend_on_me = rob[k].regs_depend_on_me
           /\ r[k].num_reg_dependent = Left(i, k)
           /\ r[k].reg_ready = IF k \in Freed(i) THEN TRUE ELSE rob[k].reg_ready
           /\ r[k].scheduled = IF k \in Freed(i) THEN StageOf(k) ELSE rob[k].scheduled
  BY ReleasedFields
<1>2. rob' = WithExecuted(r, i, "COMPLETED")
  OBVIOUS
<1> HIDE DEF r
<1>3. /\ Shaped(rob')
      /\ \A k \in RobIndex :
           /\ SameId(rob'[k], r[k]) /\ SameFetch(rob'[k], r[k])
           /\ SameSched(rob'[k], r[k]) /\ SameQueues(rob'[k], r[k])
           /\ rob'[k].executed = IF k = i THEN "COMPLETED" ELSE r[k].executed
  BY <1>1, <1>2, SetExecuted
<1>4. \A k \in RobIndex :
        /\ SameId(rob'[k], rob[k]) /\ SameFetch(rob'[k], rob[k])
        /\ SameQueues(rob'[k], rob[k])
  <2>1. ASSUME NEW k \in RobIndex
        PROVE  SameId(rob'[k], rob[k]) /\ SameFetch(rob'[k], rob[k])
               /\ SameQueues(rob'[k], rob[k])
    <3>1. /\ SameId(rob'[k], r[k]) /\ SameId(r[k], rob[k])
          /\ SameFetch(rob'[k], r[k]) /\ SameFetch(r[k], rob[k])
          /\ SameQueues(rob'[k], r[k]) /\ SameQueues(r[k], rob[k])
      BY <1>1, <1>3
    <3> QED
      BY <3>1 DEF SameId, SameFetch, SameQueues
  <2> QED
    BY <2>1
<1>5. \A k \in RobIndex :
        /\ rob'[k].regs_depend_on_me = r[k].regs_depend_on_me
        /\ rob'[k].num_reg_dependent = r[k].num_reg_dependent
        /\ rob'[k].reg_ready = r[k].reg_ready /\ rob'[k].scheduled = r[k].scheduled
  BY <1>3 DEF SameSched
<1> QED
  BY <1>1, <1>3, <1>4, <1>5

LEMMA CompleteExecutionInv ==
  ASSUME CInv, NEW i \in RobIndex, CompleteExecution(i)
  PROVE  CInv'
<1> DEFINE S == {d \in Freed(i) : ~IsMemory(d)}
<1>1. /\ Busy(i) /\ rob[i].executed = "INFLIGHT"
      /\ rob' = WithExecuted(Releases(i), i, "COMPLETED")
      /\ \E o \in Increasing(S) : rte' = [rte EXCEPT ![1] = @ \o o]
      /\ fetch_stall' = (fetch_stall /\ ~rob[i].mispredicted)
      /\ UNCHANGED <<program, front, head>>
  BY DEF CompleteExecution, WithExecuted, Releases, Release, Freed, Left, OfSource
<1>2. PICK o \in Increasing(S) : rte' = [rte EXCEPT ![1] = @ \o o]
  BY <1>1
<1> HIDE DEF S
<1>3. /\ Shaped(rob')
      /\ \A k \in RobIndex :
           /\ SameId(rob'[k], rob[k]) /\ SameFetch(rob'[k], rob[k])
           /\ SameQueues(rob'[k], rob[k])
           /\ rob'[k].executed = IF k = i THEN "COMPLETED" ELSE rob[k].executed
           /\ rob'[k].regs_depend_on_me = rob[k].regs_depend_on_me
           /\ rob'[k].num_reg_dependent = Left(i, k)
           /\ rob'[k].reg_ready = IF k \in Freed(i) THEN TRUE ELSE rob[k].reg_ready
           /\ rob'[k].scheduled = IF k \in Freed(i) THEN StageOf(k) ELSE rob[k].scheduled
  <2>1. Shaped(rob)
    BY DEF CInv, Types
  <2>2. rob' = WithExecuted(Releases(i), i, "COMPLETED")
    BY <1>1
  <2> QED
    BY <2>1, <2>2, CompletedFields
<1>4. \A k \in RobIndex : /\ Busy(k)' <=> Busy(k)
                          /\ Op(k)' = Op(k) /\ Age(k)' = Age(k)
                          /\ IsMemory(k)' <=> IsMemory(k)
                          /\ InQueues(k)' <=> InQueues(k)
                          /\ Unresolved(k)' <=> Unresolved(k) /\ k # i
  BY <1>1, <1>3 DEF Busy, Op, Age, IsMemory, Unresolved, InQueues, SameId, SameQueues
\* What is left to wait for.
<1>5. \A d \in RobIndex :
        Pending(d)' = {j \in Pending(d) : <<d, j>> \notin rob[i].regs_depend_on_me}
  <2>1. ASSUME NEW d \in RobIndex
        PROVE  Pending(d)' = {j \in Pending(d) : <<d, j>> \notin rob[i].regs_depend_on_me}
    <3>1. Pending(d)' = {j \in 1 .. Len(Op(d).src) : \E k \in RobIndex :
            /\ <<d, j>> \in rob[k].regs_depend_on_me /\ rob[k].executed # "COMPLETED"
            /\ k # i}
      BY <1>3, <1>4 DEF Pending
    <3>2. ASSUME NEW j
          PROVE  (\E k \in RobIndex : /\ <<d, j>> \in rob[k].regs_depend_on_me
                                      /\ rob[k].executed # "COMPLETED" /\ k # i)
                 <=> /\ \E k \in RobIndex : /\ <<d, j>> \in rob[k].regs_depend_on_me
                                            /\ rob[k].executed # "COMPLETED"
                     /\ <<d, j>> \notin rob[i].regs_depend_on_me
      <4>1. rob[i].executed # "COMPLETED"
        BY <1>1
      <4>2. \A k \in RobIndex :
              /\ <<d, j>> \in rob[k].regs_depend_on_me /\ rob[k].executed # "COMPLETED"
              /\ <<d, j>> \in rob[i].regs_depend_on_me
              => k = i
        <5>1. \A k, l \in RobIndex : \A e \in rob[k].regs_depend_on_me :
                /\ rob[k].executed # "COMPLETED" /\ rob[l].executed # "COMPLETED"
                /\ e \in rob[l].regs_depend_on_me
                => k = l
          BY DEF CInv, BackEnd, Deps
        <5> QED
          BY <4>1, <5>1
      <4> QED
        BY <4>2
    <3> QED
      BY <3>1, <3>2 DEF Pending
  <2> QED
    BY <2>1
<1>6. \A d \in RobIndex :
        /\ rob[d].scheduled = "no" => Left(i, d) = 0 /\ d \notin Freed(i)
        /\ rob[d].scheduled # "no" =>
             /\ Left(i, d) = Cardinality(Pending(d)')
             /\ d \in Freed(i) <=> Pending(d)' = {} /\ Pending(d) # {}
  <2>1. ASSUME NEW d \in RobIndex
        PROVE  /\ rob[d].scheduled = "no" => Left(i, d) = 0 /\ d \notin Freed(i)
               /\ rob[d].scheduled # "no" =>
                    /\ Left(i, d) = Cardinality(Pending(d)')
                    /\ d \in Freed(i) <=> Pending(d)' = {} /\ Pending(d) # {}
    <3> DEFINE Q == Pending(d)'
    <3>1. Q = {j \in Pending(d) : <<d, j>> \notin rob[i].regs_depend_on_me}
      BY <1>5
    <3>2. rob[i].executed # "COMPLETED"
      BY <1>1
    <3> HIDE DEF Q
    <3>3. /\ rob[d].scheduled = "no" => Left(i, d) = 0 /\ d \notin Freed(i)
          /\ rob[d].scheduled # "no" =>
               /\ Left(i, d) = Cardinality(Q)
               /\ d \in Freed(i) <=> Q = {} /\ Pending(d) # {}
      BY <3>1, <3>2, LeftCounts
    <3> QED
      BY <3>3 DEF Q
  <2> QED
    BY <2>1
\* An instruction that becomes ready has not begun to execute.
<1>7. \A d \in Freed(i) : /\ d \in RobIndex /\ d # i /\ rob[d].scheduled # "no" /\ Busy(d)
                          /\ rob[d].reg_ready = FALSE /\ rob[d].executed = "no"
  <2>1. ASSUME NEW d \in Freed(i)
        PROVE  /\ d \in RobIndex /\ d # i /\ rob[d].scheduled # "no" /\ Busy(d)
               /\ rob[d].reg_ready = FALSE /\ rob[d].executed = "no"
    <3>1. d \in RobIndex
      BY DEF Freed
    <3>2. rob[d].scheduled # "no" /\ Pending(d) # {}
      BY <1>6, <3>1
    <3>3. rob[d].reg_ready = FALSE
      BY <3>1, <3>2 DEF CInv, BackEnd, Counts
    <3>4. rob[d].executed = "no"
      BY <3>1, <3>3 DEF CInv, BackEnd, Ready
    <3> QED
      BY <1>1, <3>1, <3>2, <3>3, <3>4, RobFacts
  <2> QED
    BY <2>1
<1>8. \A d \in RobIndex : /\ rob'[d].scheduled # "no" <=> rob[d].scheduled # "no"
                          /\ rob[d].reg_ready => rob'[d].reg_ready
  BY <1>3, <1>7 DEF StageOf
\* The two lists after the step.
<1>9. /\ rte = <<rte[1], rte[2]>>
      /\ rte[1] \in Seq(RobIndex) /\ rte[2] \in Seq(RobIndex)
  BY DEF CInv, Types
<1>10. /\ o \in Seq(RobIndex) /\ Len(o) \in Nat
       /\ \A x \in 1 .. Len(o) : o[x] \in S
       /\ \A x, y \in 1 .. Len(o) : o[x] = o[y] => x = y
  <2>1. S \in SUBSET RobIndex
    BY <1>7 DEF S
  <2> QED
    BY <1>2, <2>1, IncreasingSeq
<1> DEFINE T == rte[1] \o o
<1>11. /\ T \in Seq(RobIndex) /\ Len(T) = Len(rte[1]) + Len(o) /\ Len(rte[1]) \in Nat
       /\ \A x \in 1 .. Len(T) : T[x] = IF x <= Len(rte[1]) THEN rte[1][x]
                                        ELSE o[x - Len(rte[1])]
  BY <1>9, <1>10, ConcatProperties, LenProperties
<1>12. rte' = <<T, rte[2]>>
  <2>1. rte' = [rte EXCEPT ![1] = T]
    BY <1>2
  <2> HIDE DEF T
  <2> QED
    BY <1>9, <2>1
<1> HIDE DEF T
<1>13. /\ rte' = <<rte'[1], rte'[2]>> /\ rte'[1] = T /\ rte'[2] = rte[2]
       /\ \A n \in 1 .. 2 : rte'[n] \in Seq(RobIndex)
  BY <1>9, <1>11, <1>12, TwoLists
<1>14. Types'
  BY <1>1, <1>3, <1>13 DEF CInv, Types, front
<1>15. FrontEnd'
  BY <1>1, <1>3, FrontFrame DEF CInv, Types
<1>16. Stages'
  <2>1. \A k \in RobIndex : rob'[k].fetched = rob[k].fetched /\ rob'[k].translated = rob[k].translated
    BY <1>3 DEF SameFetch
  <2>2. \A k \in RobIndex :
          /\ rob[k].fetched # "no" => rob[k].translated = "COMPLETED"
          /\ rob[k].scheduled # "no" => rob[k].fetched = "COMPLETED"
          /\ rob[k].scheduled = "INFLIGHT" => rob[k].executed = "no"
    BY DEF CInv, Stages
  <2>3. \A k \in RobIndex : rob'[k].scheduled = "INFLIGHT" => rob'[k].executed = "no"
    BY <1>1, <1>3, <1>7, <2>2
  <2> QED
    BY <1>8, <2>1, <2>2, <2>3 DEF Stages
<1>17. Stall'
  <2>1. /\ fetch_stall <=> \E k \in RobIndex : Unresolved(k)
        /\ \A k, l \in RobIndex : Unresolved(k) /\ Unresolved(l) => k = l
        /\ \A k \in RobIndex : ~Busy(k) => ~Unresolved(k)
    BY DEF CInv, BackEnd, Stall
  <2>2. Unresolved(i) <=> rob[i].mispredicted
    BY <1>1 DEF Unresolved
  <2>3. fetch_stall' <=> fetch_stall /\ ~Unresolved(i)
    BY <1>1, <2>2
  <2> QED
    BY <1>4, <2>1, <2>3 DEF Stall
<1>18. Lists'
  <2>1. ASSUME NEW n \in 1 .. 2, NEW x \in 1 .. Len(rte[n]), NEW k, k = rte[n][x]
        PROVE  /\ k \in RobIndex /\ k # i /\ k \notin Freed(i)
               /\ Busy(k)' /\ ~IsMemory(k)'
               /\ rob'[k].reg_ready /\ rob'[k].scheduled = "COMPLETED"
               /\ rob'[k].executed = "no"
    <3>1. k \in RobIndex
      BY <2>1, ElementOfSeq DEF CInv, Types
    <3>2. /\ Busy(k) /\ ~IsMemory(k)
          /\ rob[k].reg_ready /\ rob[k].scheduled = "COMPLETED" /\ rob[k].executed = "no"
      BY <2>1 DEF CInv, BackEnd, Lists
    <3>3. k # i /\ k \notin Freed(i)
      BY <1>1, <1>7, <3>2
    <3> QED
      BY <1>3, <1>4, <3>1, <3>2, <3>3
  <2>2. ASSUME NEW d \in S
        PROVE  /\ Busy(d)' /\ ~IsMemory(d)'
               /\ rob'[d].reg_ready /\ rob'[d].scheduled = "COMPLETED"
               /\ rob'[d].executed = "no"
    BY <1>3, <1>4, <1>7 DEF StageOf, S
  <2>3. \A y \in 1 .. Len(o) : o[y] \in S /\ o[y] \in Freed(i)
    BY <1>10 DEF S
  <2>4. ASSUME NEW n \in 1 .. 2, NEW x \in 1 .. Len(rte'[n])
        PROVE  \/ x \in 1 .. Len(rte[n]) /\ rte'[n][x] = rte[n][x]
               \/ /\ n = 1 /\ x - Len(rte[1]) \in 1 .. Len(o)
                  /\ rte'[n][x] = o[x - Len(rte[1])]
    <3>1. CASE n = 1
      BY <1>10, <1>11, <1>13, <2>4, <3>1
    <3>2. CASE n = 2
      BY <1>13, <2>4, <3>2
    <3> QED
      BY <3>1, <3>2
  <2>5. ASSUME NEW n \in 1 .. 2, NEW x \in 1 .. Len(rte'[n]), NEW k, k = rte'[n][x]
        PROVE  /\ Busy(k)' /\ ~IsMemory(k)'
               /\ rob'[k].reg_ready /\ rob'[k].scheduled = "COMPLETED"
               /\ rob'[k].executed = "no"
    <3>1. CASE x \in 1 .. Len(rte[n]) /\ k = rte[n][x]
      BY <2>1, <3>1
    <3>2. CASE k \in S
      BY <2>2, <3>2
    <3> QED
      BY <2>3, <2>4, <2>5, <3>1, <3>2
  <2>6. ASSUME NEW n \in 1 .. 2, NEW m \in 1 .. 2,
               NEW x \in 1 .. Len(rte'[n]), NEW y \in 1 .. Len(rte'[m]),
               rte'[n][x] = rte'[m][y]
        PROVE  n = m /\ x = y
    <3>1. \/ /\ x \in 1 .. Len(rte[n]) /\ rte'[n][x] = rte[n][x]
             /\ rte'[n][x] \notin Freed(i)
          \/ /\ n = 1 /\ x - Len(rte[1]) \in 1 .. Len(o)
             /\ rte'[n][x] = o[x - Len(rte[1])] /\ rte'[n][x] \in Freed(i)
      BY <2>1, <2>3, <2>4
    <3>2. \/ /\ y \in 1 .. Len(rte[m]) /\ rte'[m][y] = rte[m][y]
             /\ rte'[m][y] \notin Freed(i)
          \/ /\ m = 1 /\ y - Len(rte[1]) \in 1 .. Len(o)
             /\ rte'[m][y] = o[y - Len(rte[1])] /\ rte'[m][y] \in Freed(i)
      BY <2>1, <2>3, <2>4
    <3>3. \A p, q \in 1 .. 2 : \A a \in 1 .. Len(rte[p]), b \in 1 .. Len(rte[q]) :
            rte[p][a] = rte[q][b] => p = q /\ a = b
      BY DEF CInv, BackEnd, Lists
    <3>4. CASE rte'[n][x] \notin Freed(i)
      <4>1. x \in 1 .. Len(rte[n]) /\ y \in 1 .. Len(rte[m]) /\ rte[n][x] = rte[m][y]
        BY <2>6, <3>1, <3>2, <3>4
      <4> QED
        BY <3>3, <4>1
    <3>5. CASE rte'[n][x] \in Freed(i)
      <4>1. /\ n = 1 /\ m = 1
            /\ x - Len(rte[1]) \in 1 .. Len(o) /\ y - Len(rte[1]) \in 1 .. Len(o)
            /\ o[x - Len(rte[1])] = o[y - Len(rte[1])]
        BY <2>6, <3>1, <3>2, <3>5
      <4>2. x - Len(rte[1]) = y - Len(rte[1])
        BY <1>10, <4>1
      <4>3. x \in Int /\ y \in Int
        <5>1. Len(rte'[n]) \in Nat /\ Len(rte'[m]) \in Nat
          BY <1>13, LenProperties
        <5> QED
          BY <5>1
      <4> QED
        BY <1>11, <4>1, <4>2, <4>3
    <3> QED
      BY <3>4, <3>5
  <2>7. ASSUME NEW n \in 1 .. 2, NEW x \in 1 .. Len(rte'[n])
        PROVE  LET k == rte[n][x] IN
               /\ Busy(k)' /\ ~IsMemory(k)'
               /\ rob[k].reg_ready' /\ rob[k].scheduled' = "COMPLETED"
               /\ rob[k].executed' = "no"
    BY <2>5
  <2> QED
    BY <2>6, <2>7 DEF Lists
<1>19. Deps'
  <2>1. \A k \in RobIndex : /\ rob'[k].regs_depend_on_me = rob[k].regs_depend_on_me
                            /\ rob'[k].executed # "COMPLETED" => rob[k].executed # "COMPLETED"
    BY <1>3
  <2> QED
    BY <1>4, <1>8, <2>1 DEF CInv, BackEnd, Deps
<1>20. Counts'
  <2>1. ASSUME NEW d \in RobIndex
        PROVE  /\ rob'[d].scheduled = "no" =>
                    rob'[d].num_reg_dependent = 0 /\ rob'[d].reg_ready = FALSE
               /\ rob'[d].scheduled # "no" =>
                    /\ rob'[d].num_reg_dependent = Cardinality(Pending(d)')
                    /\ rob'[d].reg_ready = (Pending(d)' = {})
    <3>1. /\ rob[d].scheduled = "no" => rob[d].reg_ready = FALSE
          /\ rob[d].scheduled # "no" => rob[d].reg_ready = (Pending(d) = {})
      BY DEF CInv, BackEnd, Counts
    <3>2. Pending(d) = {} => Pending(d)' = {}
      BY <1>5
    <3>3. CASE rob[d].scheduled = "no"
      BY <1>3, <1>6, <1>8, <3>1, <3>3
    <3>4. CASE rob[d].scheduled # "no"
      <4>1. rob'[d].num_reg_dependent = Cardinality(Pending(d)')
        BY <1>3, <1>6, <3>4
      <4>2. rob'[d].reg_ready = (Pending(d)' = {})
        <5>1. CASE d \in Freed(i)
          BY <1>3, <1>6, <3>4, <5>1
        <5>2. CASE d \notin Freed(i)
          <6>1. Pending(d)' = {} <=> Pending(d) = {}
            BY <1>6, <3>2, <3>4, <5>2
          <6>2. rob'[d].reg_ready = (Pending(d) = {})
            BY <1>3, <3>1, <3>4, <5>2
          <6> QED
            BY <6>1, <6>2
        <5> QED
          BY <5>1, <5>2
      <4> QED
        BY <1>8, <3>4, <4>1, <4>2
    <3> QED
      BY <3>3, <3>4
  <2> QED
    BY <2>1 DEF Counts
<1>21. Operands'
  <2>1. \A k \in RobIndex : \A j : Writers(k, j)' = Writers(k, j)
    BY <1>4 DEF Writers, Older
  <2>2. \A k \in RobIndex :
          /\ rob[k].executed = "COMPLETED" => rob'[k].executed = "COMPLETED"
          /\ rob'[k].regs_depend_on_me = rob[k].regs_depend_on_me
    BY <1>3
  <2> QED
    BY <1>4, <1>8, <2>1, <2>2 DEF CInv, BackEnd, Operands, Writers, Older
<1>22. Ready'
  <2>1. \A k \in RobIndex : rob'[k].executed # "no" => rob[k].executed # "no"
    BY <1>1, <1>3
  <2> QED
    BY <1>4, <1>8, <2>1 DEF CInv, BackEnd, Ready
<1> QED
  BY <1>14, <1>15, <1>16, <1>17, <1>18, <1>19, <1>20, <1>21, <1>22 DEF CInv, BackEnd

-----------------------------------------------------------------------------
(* The loads and stores of an instruction enter the queues.                *)

\* What adding loads and stores of i leaves of the ROB.
Adds(i, r) ==
  /\ Shaped(r)
  /\ \A k \in RobIndex :
       /\ SameId(r[k], rob[k]) /\ SameFetch(r[k], rob[k]) /\ SameSched(r[k], rob[k])
       /\ r[k].executed = rob[k].executed
       /\ k # i => SameQueues(r[k], rob[k])

\* A record that differs from an entry of r in one of three fields.
LEMMA AddsField ==
  ASSUME NEW i \in RobIndex, NEW r, Adds(i, r), NEW p \in RobIndex, NEW v, NEW w,
         \/ w = [Fields(r[p]) EXCEPT !.lq_index = v] /\ p = i
         \/ w = [Fields(r[p]) EXCEPT !.sq_index = v] /\ p = i
         \/ w = [Fields(r[p]) EXCEPT !.mem_depend_on_me = v],
         NEW s, s = [k \in RobIndex |-> IF k = p THEN w ELSE r[k]]
  PROVE  Adds(i, s)
<1>1. \A k \in RobIndex : r[k] = Fields(r[k])
  BY DEF Adds, Shaped
<1>2. /\ w = Fields(w)
      /\ SameId(w, r[p]) /\ SameFetch(w, r[p]) /\ SameSched(w, r[p])
      /\ w.executed = r[p].executed
      /\ p # i => SameQueues(w, r[p])
  <2>1. CASE w = [Fields(r[p]) EXCEPT !.lq_index = v] /\ p = i
    BY <2>1 DEF Fields, SameId, SameFetch, SameSched
  <2>2. CASE w = [Fields(r[p]) EXCEPT !.sq_index = v] /\ p = i
    BY <2>2 DEF Fields, SameId, SameFetch, SameSched
  <2>3. CASE w = [Fields(r[p]) EXCEPT !.mem_depend_on_me = v]
    BY <2>3 DEF Fields, SameId, SameFetch, SameSched, SameQueues
  <2> QED
    BY <2>1, <2>2, <2>3
<1>3. Shaped(s)
  BY <1>1, <1>2 DEF Shaped
<1>4. ASSUME NEW k \in RobIndex
      PROVE  /\ SameId(s[k], rob[k]) /\ SameFetch(s[k], rob[k]) /\ SameSched(s[k], rob[k])
             /\ s[k].executed = rob[k].executed
             /\ k # i => SameQueues(s[k], rob[k])
  <2>1. /\ SameId(r[k], rob[k]) /\ SameFetch(r[k], rob[k]) /\ SameSched(r[k], rob[k])
        /\ r[k].executed = rob[k].executed
        /\ k # i => SameQueues(r[k], rob[k])
    BY DEF Adds
  <2>2. CASE k = p
    <3>1. s[k] = w
      BY <2>2
    <3> QED
      BY <1>2, <2>1, <2>2, <3>1 DEF SameId, SameFetch, SameSched, SameQueues
  <2>3. CASE k # p
    <3>1. s[k] = r[k]
      BY <2>3
    <3> QED
      BY <2>1, <3>1
  <2> QED
    BY <2>2, <2>3
<1> QED
  BY <1>3, <1>4 DEF Adds

WithLoad(r, i, j, q) == [r EXCEPT ![i].lq_index[j] = q]
WithReader(r, p, i) == [r EXCEPT ![p].mem_depend_on_me = @ \cup {i}]

LEMMA AddedFields ==
  ASSUME NEW i \in RobIndex, NEW r, Adds(i, r), NEW j, NEW q
  PROVE  Adds(i, WithLoad(r, i, j, q))
<1> DEFINE v == [r[i].lq_index EXCEPT ![j] = q]
           w == [r[i] EXCEPT !.lq_index = v]
           s == WithLoad(r, i, j, q)
<1>1. r = [k \in RobIndex |-> r[k]] /\ \A k \in RobIndex : r[k] = Fields(r[k])
  BY DEF Adds, Shaped
<1>2. s = [r EXCEPT ![i] = w]
  BY DEF WithLoad
<1> HIDE DEF v
<1>3. w = [Fields(r[i]) EXCEPT !.lq_index = v]
  BY <1>1
<1> HIDE DEF w, s
<1>4. s = [k \in RobIndex |-> IF k = i THEN w ELSE r[k]]
  BY <1>1, <1>2
<1>5. Adds(i, s)
  BY <1>3, <1>4, AddsField
<1> QED
  BY <1>5 DEF s

LEMMA ReaderFields ==
  ASSUME NEW i \in RobIndex, NEW r, Adds(i, r), NEW p
  PROVE  Adds(i, WithReader(r, p, i))
<1> DEFINE v == r[p].mem_depend_on_me \cup {i}
           w == [r[p] EXCEPT !.mem_depend_on_me = v]
           s == WithReader(r, p, i)
<1>1. r = [k \in RobIndex |-> r[k]] /\ \A k \in RobIndex : r[k] = Fields(r[k])
  BY DEF Adds, Shaped
<1>2. s = [r EXCEPT ![p] = w]
  BY DEF WithReader
<1>3. CASE p \in RobIndex
  <2> HIDE DEF v
  <2>1. w = [Fields(r[p]) EXCEPT !.mem_depend_on_me = v]
    BY <1>1, <1>3
  <2> HIDE DEF w, s
  <2>2. s = [k \in RobIndex |-> IF k = p THEN w ELSE r[k]]
    BY <1>1, <1>2
  <2>3. Adds(i, s)
    BY <1>3, <2>1, <2>2, AddsField
  <2> QED
    BY <2>3 DEF s
<1>4. CASE p \notin RobIndex
  <2> HIDE DEF w, s
  <2>1. s = r
    BY <1>1, <1>2, <1>4
  <2> QED
    BY <2>1 DEF s
<1> QED
  BY <1>3, <1>4

LEMMA ReadAdds ==
  ASSUME NEW i \in RobIndex, NEW r, Adds(i, r), NEW C, NEW D, NEW v
  PROVE  Adds(i, Read(Finished(r, C), D, v))
<1> DEFINE s == Read(Finished(r, C), D, v)
<1>1. Shaped(r)
  BY DEF Adds
<1>2. Shaped(s) /\ \A k \in RobIndex :
        /\ SameId(s[k], r[k]) /\ SameFetch(s[k], r[k])
        /\ SameSched(s[k], r[k]) /\ SameQueues(s[k], r[k]) /\ s[k].executed = r[k].executed
  BY <1>1, DoneFields
<1> HIDE DEF s
<1>3. ASSUME NEW k \in RobIndex
      PROVE  /\ SameId(s[k], rob[k]) /\ SameFetch(s[k], rob[k]) /\ SameSched(s[k], rob[k])
             /\ s[k].executed = rob[k].executed
             /\ k # i => SameQueues(s[k], rob[k])
  <2>1. /\ SameId(r[k], rob[k]) /\ SameFetch(r[k], rob[k]) /\ SameSched(r[k], rob[k])
        /\ r[k].executed = rob[k].executed
        /\ k # i => SameQueues(r[k], rob[k])
    BY DEF Adds
  <2>2. /\ SameId(s[k], r[k]) /\ SameFetch(s[k], r[k])
        /\ SameSched(s[k], r[k]) /\ SameQueues(s[k], r[k]) /\ s[k].executed = r[k].executed
    BY <1>2
  <2> QED
    BY <2>1, <2>2 DEF SameId, SameFetch, SameSched, SameQueues
<1>4. Adds(i, s)
  BY <1>2, <1>3 DEF Adds
<1> QED
  BY <1>4 DEF s

\* The part of the state that AddLoad changes.
LoadState(s) == s = [rob |-> s.rob, lq |-> s.lq, rtl0 |-> s.rtl0, mem |-> s.mem]
Good(i, s) == LoadState(s) /\ Adds(i, s.rob)

LEMMA AddLoadGood ==
  ASSUME NEW i \in RobIndex, NEW j, NEW s, Good(i, s)
  PROVE  Good(i, AddIfRoom(s, i, j))
<1> DEFINE free == {q \in LqIndex : s.lq[q] = EmptyLsq}
           q == CHOOSE q \in free : \A p \in free : q <= p
           a == Op(i).loads[j]
           prior == StoreProducer(i, a)
           id == rob[prior].id
           added == WithLoad(s.rob, i, j, q)
           known == WithReader(added, prior, i)
           done == Read(Finished(known, {<<i, j>>}), {<<i, j>>}, id)
           e == LsqEntry(i, j)
           f == [LsqEntry(i, j) EXCEPT !.producer_id = id, !.translated = "INFLIGHT"]
           m == NowDone(known, {<<i, j>>})
<1>1. LoadState(s) /\ Adds(i, s.rob)
  BY DEF Good
<1>2. Adds(i, added)
  BY <1>1, AddedFields
<1>3. Adds(i, known)
  <2> HIDE DEF added, prior
  <2> QED
    BY <1>2, ReaderFields
<1>4. Adds(i, done)
  <2> HIDE DEF known, id
  <2> QED
    BY <1>3, ReadAdds
<1>5. \/ AddIfRoom(s, i, j) = s
      \/ AddIfRoom(s, i, j) = [s EXCEPT !.rob = added, !.lq[q] = e, !.rtl0 = Append(@, q)]
      \/ AddIfRoom(s, i, j) = [s EXCEPT !.rob = done, !.mem = @ + m]
      \/ AddIfRoom(s, i, j) = [s EXCEPT !.rob = known, !.lq[q] = f]
  BY DEF AddIfRoom, AddLoad, WithLoad, WithReader
<1> HIDE DEF added, known, done, e, f, m, q
<1>6. CASE AddIfRoom(s, i, j) = s
  BY <1>6
<1>7. ASSUME NEW t,
             \/ t = [s EXCEPT !.rob = added, !.lq[q] = e, !.rtl0 = Append(@, q)]
             \/ t = [s EXCEPT !.rob = done, !.mem = @ + m]
             \/ t = [s EXCEPT !.rob = known, !.lq[q] = f]
      PROVE  Good(i, t)
  <2>1. LoadState(t) /\ t.rob \in {added, done, known}
    BY <1>1, <1>7 DEF LoadState
  <2> QED
    BY <1>2, <1>3, <1>4, <2>1 DEF Good
<1> QED
  BY <1>5, <1>6, <1>7

\* The loads of i are added one after the other.
Start == [rob |-> rob, lq |-> lq, rtl0 |-> rtl[1], mem |-> inflight.mem]
Added(i, n, f) ==
  f = [j \in 0 .. n |-> IF j = 0 THEN Start ELSE AddIfRoom(f[j - 1], i, j)]
After(i, n) == CHOOSE f : Added(i, n, f)

LEMMA AddedExists ==
  ASSUME NEW i, NEW n \in Nat
  PROVE  \E f : Added(i, n, f)
<1> DEFINE T == {m \in Nat : ~\E f : Added(i, m, f)}
<1>1. SUFFICES ASSUME T # {}
               PROVE  FALSE
  BY <1>1
<1>2. T \subseteq Nat
  OBVIOUS
<1>3. PICK m \in T : \A y \in T : <<y, m>> \notin OpToRel(<, Nat)
  <2> HIDE DEF T
  <2> QED
    BY <1>1, <1>2, NatLessThanWellFounded, WFMin
<1>4. m \in Nat /\ (\A y \in T : ~(y < m)) /\ ~\E f : Added(i, m, f)
  BY <1>3 DEF OpToRel
<1>5. CASE m = 0
  <2> DEFINE f == [j \in 0 .. 0 |-> Start]
  <2>1. f = [j \in 0 .. 0 |-> f[j]] /\ \A j \in 0 .. 0 : j = 0 /\ f[j] = Start
    OBVIOUS
  <2> HIDE DEF f
  <2>2. Added(i, 0, f)
    BY <2>1 DEF Added
  <2> QED
    BY <1>4, <1>5, <2>2
<1>6. CASE m # 0
  <2>1. m - 1 \in Nat /\ m - 1 < m
    BY <1>4, <1>6
  <2>2. m - 1 \notin T
    BY <1>4, <2>1
  <2>3. PICK f : Added(i, m - 1, f)
    BY <2>1, <2>2
  <2> DEFINE last == AddIfRoom(f[m - 1], i, m)
             g == [j \in 0 .. m |-> IF j = m THEN last ELSE f[j]]
  <2>4. \A j \in 0 .. m : g[j] = IF j = 0 THEN Start ELSE AddIfRoom(g[j - 1], i, j)
    <3>1. ASSUME NEW j \in 0 .. m
          PROVE  g[j] = IF j = 0 THEN Start ELSE AddIfRoom(g[j - 1], i, j)
      <4>1. CASE j = m
        <5>1. g[j] = last /\ g[j - 1] = f[m - 1]
          BY <1>4, <2>1, <4>1
        <5> QED
          BY <1>6, <4>1, <5>1
      <4>2. CASE j # m
        <5>1. j \in 0 .. m - 1 /\ g[j] = f[j]
          BY <1>4, <4>2
        <5>2. f[j] = IF j = 0 THEN Start ELSE AddIfRoom(f[j - 1], i, j)
          BY <2>3, <5>1 DEF Added
        <5>3. j # 0 => g[j - 1] = f[j - 1]
          BY <1>4, <5>1
        <5> QED
          BY <5>1, <5>2, <5>3
      <4> QED
        BY <4>1, <4>2
    <3> QED
      BY <3>1
  <2>5. g = [j \in 0 .. m |-> g[j]]
    OBVIOUS
  <2> HIDE DEF g
  <2>6. Added(i, m, g)
    BY <2>4, <2>5 DEF Added
  <2> QED
    BY <1>4, <2>6
<1> QED
  BY <1>5, <1>6

LEMMA AddLoadsGood ==
  ASSUME NEW i \in RobIndex, Shaped(rob), NEW n \in Nat, n = Len(Op(i).loads)
  PROVE  Adds(i, AddLoads(i).rob)
<1> DEFINE f == After(i, n)
<1>1. Added(i, n, f)
  BY AddedExists DEF After
<1>2. AddLoads(i) = f[n]
  BY DEF AddLoads, After, Added, Start
<1> HIDE DEF f
<1>3. \A j \in 0 .. n : f[j] = IF j = 0 THEN Start ELSE AddIfRoom(f[j - 1], i, j)
  BY <1>1 DEF Added
<1>4. Good(i, Start)
  BY SameFields DEF Good, LoadState, Adds, Start
<1>5. \A j \in 0 .. n : Good(i, f[j])
  <2> DEFINE T == {j \in 0 .. n : ~Good(i, f[j])}
  <2>1. SUFFICES ASSUME T # {}
                 PROVE  FALSE
    BY <2>1
  <2>2. T \subseteq Nat
    OBVIOUS
  <2>3. PICK m \in T : \A y \in T : <<y, m>> \notin OpToRel(<, Nat)
    <3> HIDE DEF T
    <3> QED
      BY <2>1, <2>2, NatLessThanWellFounded, WFMin
  <2>4. m \in 0 .. n /\ ~Good(i, f[m]) /\ \A y \in T : ~(y < m)
    BY <2>2, <2>3 DEF OpToRel
  <2>5. m # 0
    BY <1>3, <1>4, <2>4
  <2>6. m - 1 \in 0 .. n /\ m - 1 < m
    BY <2>4, <2>5
  <2>7. Good(i, f[m - 1])
    BY <2>4, <2>6
  <2>8. f[m] = AddIfRoom(f[m - 1], i, m)
    BY <1>3, <2>4, <2>5
  <2> QED
    BY <2>4, <2>7, <2>8, AddLoadGood
<1> QED
  BY <1>2, <1>5 DEF Good

LEMMA AddStoresGood ==
  ASSUME NEW i \in RobIndex, NEW r, Adds(i, r)
  PROVE  Adds(i, AddStores(r, i).rob)
<1> DEFINE new == StoresToAdd(i)
           slot(k) == (sq_tail + Cardinality({m \in new : m < k})) % SqSize
           v == [k \in DOMAIN r[i].sq_index |-> IF k \in new THEN slot(k) ELSE r[i].sq_index[k]]
           w == [r[i] EXCEPT !.sq_index = v]
           s == AddStores(r, i).rob
<1>1. r = [k \in RobIndex |-> r[k]] /\ \A k \in RobIndex : r[k] = Fields(r[k])
  BY DEF Adds, Shaped
<1>2. s = [r EXCEPT ![i] = w]
  BY DEF AddStores
<1> HIDE DEF v
<1>3. w = [Fields(r[i]) EXCEPT !.sq_index = v]
  BY <1>1
<1> HIDE DEF w, s
<1>4. s = [k \in RobIndex |-> IF k = i THEN w ELSE r[k]]
  BY <1>1, <1>2
<1>5. Adds(i, s)
  BY <1>3, <1>4, AddsField
<1> QED
  BY <1>5 DEF s

\* An instruction with all its memory operations in the queues executes.
WithStarted(r, i) ==
  [r EXCEPT ![i].scheduled = "COMPLETED", ![i].executed = "INFLIGHT"]

LEMMA SetStarted ==
  ASSUME NEW r, Shaped(r), NEW i \in RobIndex, NEW s, s = WithStarted(r, i)
  PROVE  /\ Shaped(s)
         /\ \A k \in RobIndex : k # i => s[k] = r[k]
         /\ SameId(s[i], r[i]) /\ SameFetch(s[i], r[i]) /\ SameQueues(s[i], r[i])
         /\ s[i].reg_ready = r[i].reg_ready
         /\ s[i].num_reg_dependent = r[i].num_reg_dependent
         /\ s[i].regs_depend_on_me = r[i].regs_depend_on_me
         /\ s[i].scheduled = "COMPLETED" /\ s[i].executed = "INFLIGHT"
<1>1. r = [k \in RobIndex |-> r[k]] /\ \A k \in RobIndex : r[k] = Fields(r[k])
  BY DEF Shaped
<1> DEFINE w == [Fields(r[i]) EXCEPT !.scheduled = "COMPLETED", !.executed = "INFLIGHT"]
<1>2. s = [r EXCEPT ![i] = w]
  BY <1>1 DEF WithStarted
<1>0. w = [Fields(r[i]) EXCEPT !.scheduled = "COMPLETED", !.executed = "INFLIGHT"]
  OBVIOUS
<1> HIDE DEF w
<1>3. /\ w = Fields(w)
      /\ SameId(w, r[i]) /\ SameFetch(w, r[i]) /\ SameQueues(w, r[i])
      /\ w.reg_ready = r[i].reg_ready
      /\ w.num_reg_dependent = r[i].num_reg_dependent
      /\ w.regs_depend_on_me = r[i].regs_depend_on_me
      /\ w.scheduled = "COMPLETED" /\ w.executed = "INFLIGHT"
  BY <1>0 DEF Fields, SameId, SameFetch, SameQueues
<1>4. s = [k \in RobIndex |-> IF k = i THEN w ELSE r[k]]
  BY <1>1, <1>2
<1>5. \A k \in RobIndex : s[k] = IF k = i THEN w ELSE r[k]
  BY <1>4
<1>6. Shaped(s)
  BY <1>1, <1>3, <1>4 DEF Shaped
<1> QED
  BY <1>3, <1>5, <1>6

LEMMA ScheduleMemoryInv ==
  ASSUME CInv, NEW i \in RobIndex, ScheduleMemory(i)
  PROVE  CInv'
<1> DEFINE r == AddStores(AddLoads(i).rob, i).rob
<1>1. /\ IsMemory(i) /\ rob[i].reg_ready /\ rob[i].scheduled = "INFLIGHT"
      /\ rob' = r \/ rob' = WithStarted(r, i)
      /\ UNCHANGED <<program, front, fetch_stall, head, rte>>
  BY DEF ScheduleMemory, Scanned, WithStarted
<1>2. Adds(i, r)
  <2>1. Shaped(rob)
    BY DEF CInv, Types
  <2>2. Len(Op(i).loads) \in Nat
    <3>1. Op(i) \in Instr
      BY <1>1, RobFacts DEF IsMemory
    <3>2. Op(i).loads \in Seq(Addr)
      BY <3>1 DEF Instr
    <3> QED
      BY <3>2, LenProperties
  <2>3. Adds(i, AddLoads(i).rob)
    BY <2>1, <2>2, AddLoadsGood
  <2> DEFINE l == AddLoads(i).rob
  <2> HIDE DEF l
  <2>4. Adds(i, AddStores(l, i).rob)
    BY <2>3, AddStoresGood DEF l
  <2> QED
    BY <2>4 DEF l
<1>3. rob[i].executed = "no"
  BY <1>1 DEF CInv, Stages
<1> HIDE DEF r
<1>4. /\ Shaped(rob')
      /\ \A k \in RobIndex :
           /\ SameId(rob'[k], rob[k]) /\ SameFetch(rob'[k], rob[k])
           /\ rob'[k].reg_ready = rob[k].reg_ready
           /\ rob'[k].num_reg_dependent = rob[k].num_reg_dependent
           /\ rob'[k].regs_depend_on_me = rob[k].regs_depend_on_me
           /\ k # i => /\ SameQueues(rob'[k], rob[k])
                       /\ rob'[k].executed = rob[k].executed
                       /\ rob'[k].scheduled = rob[k].scheduled
           /\ k = i => \/ rob'[k].executed = "no" /\ rob'[k].scheduled = "INFLIGHT"
                       \/ rob'[k].executed = "INFLIGHT" /\ rob'[k].scheduled = "COMPLETED"
  <2>1. CASE rob' = r
    BY <1>1, <1>2, <1>3, <2>1 DEF Adds, SameSched
  <2>2. CASE rob' = WithStarted(r, i)
    <3>1. Shaped(r)
      BY <1>2 DEF Adds
    <3>2. /\ Shaped(rob')
          /\ \A k \in RobIndex : k # i => rob'[k] = r[k]
          /\ SameId(rob'[i], r[i]) /\ SameFetch(rob'[i], r[i]) /\ SameQueues(rob'[i], r[i])
          /\ rob'[i].reg_ready = r[i].reg_ready
          /\ rob'[i].num_reg_dependent = r[i].num_reg_dependent
          /\ rob'[i].regs_depend_on_me = r[i].regs_depend_on_me
          /\ rob'[i].scheduled = "COMPLETED" /\ rob'[i].executed = "INFLIGHT"
      BY <2>2, <3>1, SetStarted
    <3>3. ASSUME NEW k \in RobIndex, k # i
          PROVE  /\ SameId(rob'[k], rob[k]) /\ SameFetch(rob'[k], rob[k])
                 /\ SameSched(rob'[k], rob[k])
                 /\ SameQueues(rob'[k], rob[k]) /\ rob'[k].executed = rob[k].executed
      BY <1>2, <3>2, <3>3 DEF Adds
    <3>4. SameId(r[i], rob[i]) /\ SameFetch(r[i], rob[i]) /\ SameSched(r[i], rob[i])
      BY <1>2 DEF Adds
    <3>5. /\ SameId(rob'[i], rob[i]) /\ SameFetch(rob'[i], rob[i])
          /\ rob'[i].reg_ready = rob[i].reg_ready
          /\ rob'[i].num_reg_dependent = rob[i].num_reg_dependent
          /\ rob'[i].regs_depend_on_me = rob[i].regs_depend_on_me
      BY <3>2, <3>4 DEF SameId, SameFetch, SameSched
    <3> QED
      BY <3>2, <3>3, <3>5 DEF SameSched
  <2> QED
    BY <1>1, <2>1, <2>2
<1>5. \A k \in RobIndex : /\ Busy(k)' <=> Busy(k)
                          /\ Op(k)' = Op(k) /\ Age(k)' = Age(k)
                          /\ IsMemory(k)' <=> IsMemory(k)
                          /\ rob'[k].executed = "COMPLETED" <=> rob[k].executed = "COMPLETED"
                          /\ Unresolved(k)' <=> Unresolved(k)
                          /\ k # i => (InQueues(k)' <=> InQueues(k))
                          /\ rob'[k].scheduled # "no" <=> rob[k].scheduled # "no"
  BY <1>1, <1>3, <1>4
     DEF Busy, Op, Age, IsMemory, Unresolved, InQueues, SameId, SameQueues
<1>6. Types'
  BY <1>1, <1>4 DEF CInv, Types, front
<1>7. FrontEnd'
  BY <1>1, <1>4, FrontFrame DEF CInv, Types
<1>8. Stages'
  BY <1>4, <1>5 DEF CInv, Stages, SameFetch
<1>9. Stall'
  BY <1>1, <1>5 DEF CInv, BackEnd, Stall
<1>10. Lists'
  <2>1. ASSUME NEW n \in 1 .. 2, NEW x \in 1 .. Len(rte[n])
        PROVE  LET k == rte[n][x] IN
               /\ Busy(k)' /\ ~IsMemory(k)'
               /\ rob'[k].reg_ready /\ rob'[k].scheduled = "COMPLETED"
               /\ rob'[k].executed = "no"
    <3> DEFINE k == rte[n][x]
    <3>1. k \in RobIndex
      BY ElementOfSeq DEF CInv, Types
    <3>2. /\ Busy(k) /\ ~IsMemory(k)
          /\ rob[k].reg_ready /\ rob[k].scheduled = "COMPLETED" /\ rob[k].executed = "no"
      BY DEF CInv, BackEnd, Lists
    <3>3. k # i
      BY <1>1, <3>2
    <3>4. \A l \in RobIndex : l # i /\ Busy(l) /\ ~IsMemory(l) => Busy(l)' /\ ~IsMemory(l)'
      BY <1>5
    <3>5. PICK l \in RobIndex : l = k
      BY <3>1
    <3> HIDE DEF k
    <3>6. /\ Busy(l)' /\ ~IsMemory(l)'
          /\ rob'[l].reg_ready /\ rob'[l].scheduled = "COMPLETED" /\ rob'[l].executed = "no"
      BY <1>4, <3>2, <3>3, <3>4, <3>5
    <3>7. l = rte'[n][x]
      BY <1>1, <3>5 DEF k
    <3> QED
      BY <1>1, <3>6, <3>7
  <2> QED
    BY <1>1, <2>1 DEF CInv, BackEnd, Lists
<1>11. Deps'
  BY <1>4, <1>5 DEF CInv, BackEnd, Deps
<1>12. Counts'
  <2>1. \A d \in RobIndex : Pending(d)' = Pending(d)
    BY <1>4, <1>5 DEF Pending
  <2> QED
    BY <1>4, <1>5, <2>1 DEF CInv, BackEnd, Counts
<1>13. Operands'
  <2>1. \A k \in RobIndex : \A j : Writers(k, j)' = Writers(k, j)
    BY <1>5 DEF Writers, Older
  <2> QED
    BY <1>4, <1>5, <2>1 DEF CInv, BackEnd, Operands, Writers, Older
<1>14. Ready'
  BY <1>1, <1>4, <1>5 DEF CInv, BackEnd, Ready
<1> QED
  BY <1>6, <1>7, <1>8, <1>9, <1>10, <1>11, <1>12, <1>13, <1>14 DEF CInv, BackEnd

-----------------------------------------------------------------------------
(* Retirement.                                                             *)

\* The head has gone through every stage.
LEMMA Finishing ==
  ASSUME CInv, NEW h \in RobIndex, rob[h].executed = "COMPLETED"
  PROVE  rob[h].fetched = "COMPLETED" /\ rob[h].translated = "COMPLETED"
<1>1. rob[h].reg_ready
  BY DEF CInv, BackEnd, Ready
<1>2. rob[h].scheduled # "no"
  BY <1>1 DEF CInv, BackEnd, Counts
<1>3. rob[h].fetched = "COMPLETED"
  BY <1>2 DEF CInv, Stages
<1>4. rob[h].translated = "COMPLETED"
  BY <1>3 DEF CInv, Stages
<1> QED
  BY <1>3, <1>4

LEMMA RetireInv ==
  ASSUME CInv, Retire
  PROVE  CInv'
<1>1. PICK h \in RobIndex : h = head
  BY DEF CInv, Types
<1>2. /\ Busy(h) /\ rob[h].executed = "COMPLETED"
      /\ rob' = [rob EXCEPT ![h] = EmptyInstr] /\ head' = Next1(head, RobSize)
      /\ UNCHANGED <<program, front, fetch_stall, rte>>
      /\ UNCHANGED <<instr_unique_id, tail, last_read, last_fetch, itlb>>
  BY <1>1 DEF Retire, lists, front
<1>3. RobSize \in Nat /\ RobSize >= 2 /\ head \in RobIndex /\ head' \in RobIndex
  BY <1>1, <1>2, NextValue, CoreSizes
<1>4. /\ EmptyInstr = Fields(EmptyInstr) /\ EmptyInstr.id = 0
      /\ EmptyInstr.mispredicted = FALSE /\ EmptyInstr.translated = "no"
      /\ EmptyInstr.fetched = "no" /\ EmptyInstr.scheduled = "no"
      /\ EmptyInstr.executed = "no" /\ EmptyInstr.reg_ready = FALSE
      /\ EmptyInstr.num_reg_dependent = 0 /\ EmptyInstr.regs_depend_on_me = {}
      /\ EmptyInstr.lq_index = <<>> /\ EmptyInstr.sq_index = <<>>
  BY DEF EmptyInstr, Fields
<1>5. Shaped(rob') /\ \A k \in RobIndex : rob'[k] = IF k = h THEN EmptyInstr ELSE rob[k]
  BY <1>2, <1>4 DEF CInv, Types, Shaped
\* Everything but the head gets one older.
<1>6. /\ Age(h) = 0 /\ Age(h)' = RobSize - 1
      /\ \A k \in RobIndex : /\ Age(k) \in 0 .. RobSize - 1 /\ Age(k)' \in 0 .. RobSize - 1
                             /\ Age(k)' = IF Age(k) = 0 THEN RobSize - 1 ELSE Age(k) - 1
                             /\ k # h => Age(k) # 0 /\ Age(k)' = Age(k) - 1
  <2>1. \A k \in RobIndex : Age(k)' = IF Age(k) = 0 THEN RobSize - 1 ELSE Age(k) - 1
    BY <1>2, <1>3, RetireAge
  <2>2. \A k \in RobIndex : Age(k) \in 0 .. RobSize - 1
    BY <1>3, AgeValue
  <2>3. Age(h) = 0
    BY <1>1, <1>3, HeadAge
  <2>4. \A k \in RobIndex : k # h => Age(k) # 0
    BY <1>3, <2>3, AgeInjective
  <2> QED
    BY <1>3, <2>1, <2>2, <2>3, <2>4
<1>7. \A k \in RobIndex : k # h =>
        /\ rob'[k] = rob[k]
        /\ Busy(k)' <=> Busy(k)
        /\ Op(k)' = Op(k)
        /\ IsMemory(k)' <=> IsMemory(k)
        /\ Unresolved(k)' <=> Unresolved(k)
        /\ InQueues(k)' <=> InQueues(k)
  BY <1>2, <1>5 DEF Busy, Op, IsMemory, Unresolved, InQueues
<1>8. rob'[h] = EmptyInstr /\ ~Busy(h)' /\ ~Unresolved(h)' /\ ~Unresolved(h) /\ ~InQueues(h)'
  <2>1. rob'[h] = EmptyInstr
    BY <1>5
  <2>2. Range(<<>>) = {}
    BY DEF Range
  <2>3. ~InQueues(h)'
    BY <1>4, <2>1, <2>2 DEF InQueues
  <2> QED
    BY <1>2, <1>4, <2>1, <2>3 DEF Busy, Unresolved
<1>9. Types'
  BY <1>2, <1>3, <1>5 DEF CInv, Types, front
<1>10. FrontEnd'
  <2>1. PICK n \in 0 .. RobSize, t \in 0 .. RobSize, f \in 0 .. RobSize : Window(n, t, f)
    BY DEF CInv, FrontEnd
  <2>2. instr_unique_id \in Nat /\ n < instr_unique_id /\ t <= n /\ f <= n
    <3>1. Len(program) \in Nat
      BY ProgramsAreTraces, LenProperties DEF CInv, Types
    <3> QED
      BY <2>1, <3>1 DEF CInv, Types, Window
  <2>3. f >= 1 /\ t >= 1 /\ n >= 1
    <3>1. rob[h].fetched # "no" /\ Sent(h) /\ h \notin itlb
      BY <1>2, <2>1, Finishing DEF Sent, Window
    <3>2. Age(h) < f /\ Age(h) < t
      BY <2>1, <3>1 DEF Window
    <3> QED
      BY <1>6, <2>1, <2>2, <3>2
  <2>4. \A x \in 1 .. RobSize :
          (IF Wrap(x) = 0 THEN RobSize - 1 ELSE Wrap(x) - 1) = Wrap(x - 1)
    BY <1>3 DEF Wrap
  <2>5. /\ Age(tail) = Wrap(n)
        /\ Age(Next1(last_read, RobSize)) = Wrap(t)
        /\ Age(Next1(last_fetch, RobSize)) = Wrap(f)
    BY <2>1 DEF Window
  <2>6. Age(tail)' = Wrap(n - 1)
    <3>1. PICK k \in RobIndex : k = tail
      BY DEF CInv, Types
    <3>2. Age(k)' = Wrap(n - 1)
      BY <1>6, <2>1, <2>3, <2>4, <2>5, <3>1
    <3> QED
      BY <1>2, <3>1, <3>2
  <2>7. Age(Next1(last_read, RobSize))' = Wrap(t - 1)
    <3>1. PICK k \in RobIndex : k = Next1(last_read, RobSize)
      BY NextValue DEF CInv, Types
    <3>2. Age(k)' = Wrap(t - 1)
      BY <1>6, <2>1, <2>3, <2>4, <2>5, <3>1
    <3> QED
      BY <1>2, <3>1, <3>2
  <2>8. Age(Next1(last_fetch, RobSize))' = Wrap(f - 1)
    <3>1. PICK k \in RobIndex : k = Next1(last_fetch, RobSize)
      BY NextValue DEF CInv, Types
    <3>2. Age(k)' = Wrap(f - 1)
      BY <1>6, <2>1, <2>3, <2>4, <2>5, <3>1
    <3> QED
      BY <1>2, <3>1, <3>2
  <2>9. ASSUME NEW k \in RobIndex
        PROVE  /\ rob'[k].id = IF Age(k)' < n - 1 THEN instr_unique_id' - (n - 1) + Age(k)'
                               ELSE 0
               /\ Sent(k)' <=> Age(k)' < t - 1
               /\ rob'[k].fetched # "no" <=> Age(k)' < f - 1
               /\ k \in itlb' => rob'[k].translated = "no"
    <3>1. /\ rob[k].id = IF Age(k) < n THEN instr_unique_id - n + Age(k) ELSE 0
          /\ Sent(k) <=> Age(k) < t
          /\ rob[k].fetched # "no" <=> Age(k) < f
          /\ k \in itlb => rob[k].translated = "no"
      BY <2>1 DEF Window
    <3>2. CASE k = h
      <4>1. h \notin itlb
        BY <1>2, <3>1, <3>2, Finishing
      <4>2. ~(Age(k)' < n - 1) /\ ~(Age(k)' < t - 1) /\ ~(Age(k)' < f - 1)
        BY <1>3, <1>6, <2>1, <2>2, <3>2
      <4>3. ~Sent(k)'
        BY <1>2, <1>4, <1>8, <3>2, <4>1 DEF Sent
      <4> QED
        BY <1>2, <1>4, <1>8, <3>2, <4>1, <4>2, <4>3
    <3>3. CASE k # h
      <4>1. rob'[k] = rob[k] /\ (Sent(k)' <=> Sent(k))
        BY <1>2, <1>7, <3>3 DEF Sent
      <4>2. Age(k) \in Nat /\ Age(k) # 0 /\ Age(k)' = Age(k) - 1
        BY <1>3, <1>6, <3>3
      <4>3. /\ Age(k)' < n - 1 <=> Age(k) < n
            /\ Age(k)' < t - 1 <=> Age(k) < t
            /\ Age(k)' < f - 1 <=> Age(k) < f
            /\ instr_unique_id - (n - 1) + Age(k)' = instr_unique_id - n + Age(k)
        BY <2>1, <2>2, <4>2
      <4> QED
        BY <1>2, <3>1, <4>1, <4>3
    <3> QED
      BY <3>2, <3>3
  <2>10. /\ n - 1 \in 0 .. RobSize /\ n - 1 < instr_unique_id'
         /\ t - 1 \in 0 .. n - 1 /\ f - 1 \in 0 .. n - 1
         /\ t - 1 \in 0 .. RobSize /\ f - 1 \in 0 .. RobSize
         /\ n - 1 # RobSize
    BY <1>2, <1>3, <2>1, <2>2, <2>3
  <2>11. Window(n - 1, t - 1, f - 1)'
    BY <2>6, <2>7, <2>8, <2>9, <2>10 DEF Window
  <2> QED
    BY <2>10, <2>11 DEF FrontEnd
<1>11. Stages'
  BY <1>4, <1>7, <1>8 DEF CInv, Stages
<1>12. Stall'
  <2>1. \A k \in RobIndex : Unresolved(k)' <=> Unresolved(k)
    BY <1>7, <1>8
  <2> QED
    BY <1>2, <1>7, <1>8, <2>1 DEF CInv, BackEnd, Stall
<1>13. Lists'
  <2>1. ASSUME NEW n \in 1 .. 2, NEW x \in 1 .. Len(rte'[n]), NEW k, k = rte'[n][x]
        PROVE  /\ Busy(k)' /\ ~IsMemory(k)'
               /\ rob'[k].reg_ready /\ rob'[k].scheduled = "COMPLETED"
               /\ rob'[k].executed = "no"
    <3>1. x \in 1 .. Len(rte[n]) /\ k = rte[n][x] /\ k \in RobIndex
      BY <1>2, <2>1, ElementOfSeq DEF CInv, Types
    <3>2. /\ Busy(k) /\ ~IsMemory(k)
          /\ rob[k].reg_ready /\ rob[k].scheduled = "COMPLETED" /\ rob[k].executed = "no"
      BY <3>1 DEF CInv, BackEnd, Lists
    <3> QED
      BY <1>2, <1>7, <3>1, <3>2
  <2>2. \A n, m \in 1 .. 2 : \A x \in 1 .. Len(rte'[n]), y \in 1 .. Len(rte'[m]) :
          rte'[n][x] = rte'[m][y] => n = m /\ x = y
    BY <1>2 DEF CInv, BackEnd, Lists
  <2> QED
    BY <2>1, <2>2 DEF Lists
<1>14. \A k \in RobIndex : \A e \in rob'[k].regs_depend_on_me :
         /\ k # h /\ e \in rob[k].regs_depend_on_me
         /\ e[1] \in RobIndex /\ e[1] # h
  <2>1. ASSUME NEW k \in RobIndex, NEW e \in rob'[k].regs_depend_on_me
        PROVE  /\ k # h /\ e \in rob[k].regs_depend_on_me
               /\ e[1] \in RobIndex /\ e[1] # h
    <3>1. k # h /\ e \in rob[k].regs_depend_on_me
      BY <1>4, <1>7, <1>8, <2>1
    <3>2. e[1] \in RobIndex /\ Age(k) < Age(e[1])
      BY <3>1 DEF CInv, BackEnd, Deps
    <3> QED
      BY <1>3, <1>6, <3>1, <3>2
  <2> QED
    BY <2>1
<1>15. Deps'
  <2>1. ASSUME NEW k \in RobIndex, NEW e \in rob'[k].regs_depend_on_me
        PROVE  /\ e = <<e[1], e[2]>>
               /\ e[1] \in RobIndex /\ Busy(e[1])' /\ rob'[e[1]].scheduled # "no"
               /\ Busy(k)' /\ Age(k)' < Age(e[1])'
               /\ e[2] \in 1 .. Len(Op(e[1])'.src)
    <3>1. k # h /\ e \in rob[k].regs_depend_on_me /\ e[1] \in RobIndex /\ e[1] # h
      BY <1>14
    <3>2. /\ e = <<e[1], e[2]>>
          /\ Busy(e[1]) /\ rob[e[1]].scheduled # "no"
          /\ Busy(k) /\ Age(k) < Age(e[1])
          /\ e[2] \in 1 .. Len(Op(e[1]).src)
      BY <3>1 DEF CInv, BackEnd, Deps
    <3>3. Age(k)' < Age(e[1])'
      BY <1>3, <1>6, <3>1, <3>2
    <3> QED
      BY <1>7, <3>1, <3>2, <3>3
  <2>2. ASSUME NEW k \in RobIndex, NEW l \in RobIndex,
               NEW e \in rob'[k].regs_depend_on_me, e \in rob'[l].regs_depend_on_me,
               rob'[k].executed # "COMPLETED", rob'[l].executed # "COMPLETED"
        PROVE  k = l
    <3>1. /\ k # h /\ e \in rob[k].regs_depend_on_me
          /\ l # h /\ e \in rob[l].regs_depend_on_me
      BY <1>14, <2>2
    <3>2. rob[k].executed # "COMPLETED" /\ rob[l].executed # "COMPLETED"
      BY <1>7, <2>2, <3>1
    <3> QED
      BY <3>1, <3>2 DEF CInv, BackEnd, Deps
  <2> QED
    BY <2>1, <2>2 DEF Deps
<1>16. Counts'
  <2>1. ASSUME NEW d \in RobIndex, d # h
        PROVE  Pending(d)' = Pending(d)
    <3>1. \A j : \A k \in RobIndex :
            <<d, j>> \in rob'[k].regs_depend_on_me /\ rob'[k].executed # "COMPLETED"
            <=> <<d, j>> \in rob[k].regs_depend_on_me /\ rob[k].executed # "COMPLETED"
      BY <1>2, <1>4, <1>7, <1>8
    <3> QED
      BY <1>7, <2>1, <3>1 DEF Pending
  <2>2. \A d \in RobIndex : d # h =>
          /\ rob'[d].scheduled = "no" => rob'[d].num_reg_dependent = 0 /\ rob'[d].reg_ready = FALSE
          /\ rob'[d].scheduled # "no" =>
               /\ rob'[d].num_reg_dependent = Cardinality(Pending(d)')
               /\ rob'[d].reg_ready = (Pending(d)' = {})
    BY <1>7, <2>1 DEF CInv, BackEnd, Counts
  <2> QED
    BY <1>4, <1>8, <2>2 DEF Counts
<1>17. Operands'
  <2>1. ASSUME NEW d \in RobIndex, d # h, NEW j, NEW k
        PROVE  k \in Writers(d, j)' <=> k \in Writers(d, j) /\ k # h
    <3>1. Writers(d, j)' = {m \in RobIndex : Age(m)' < Age(d)' /\ Op(d)'.src[j] \in Op(m)'.dst}
      BY DEF Writers, Older
    <3>2. Writers(d, j) = {m \in RobIndex : Age(m) < Age(d) /\ Op(d).src[j] \in Op(m).dst}
      BY DEF Writers, Older
    <3>3. ~(Age(h)' < Age(d)')
      BY <1>3, <1>6
    <3>4. \A m \in RobIndex : m # h => (Age(m)' < Age(d)' <=> Age(m) < Age(d))
      BY <1>3, <1>6, <2>1
    <3> QED
      BY <1>7, <2>1, <3>1, <3>2, <3>3, <3>4
  <2>2. ASSUME NEW d \in RobIndex, rob'[d].scheduled # "no",
               NEW j \in 1 .. Len(Op(d)'.src), NEW k \in Writers(d, j)',
               \A m \in Writers(d, j)' : Age(m)' <= Age(k)'
        PROVE  rob'[k].executed = "COMPLETED" \/ <<d, j>> \in rob'[k].regs_depend_on_me
    <3>1. d # h
      BY <1>4, <1>8, <2>2
    <3>2. k \in Writers(d, j) /\ k # h /\ k \in RobIndex
      BY <2>1, <2>2, <3>1 DEF Writers, Older
    <3>3. ASSUME NEW m \in Writers(d, j)
          PROVE  Age(m) <= Age(k)
      <4>1. m \in RobIndex
        BY DEF Writers, Older
      <4>2. CASE m = h
        BY <1>3, <1>6, <3>2, <4>2
      <4>3. CASE m # h
        <5>1. Age(m)' <= Age(k)'
          BY <2>1, <2>2, <3>1, <4>3
        <5> QED
          BY <1>3, <1>6, <3>2, <4>1, <4>3, <5>1
      <4> QED
        BY <4>2, <4>3
    <3>4. rob[d].scheduled # "no" /\ j \in 1 .. Len(Op(d).src)
      BY <1>7, <2>2, <3>1
    <3>5. rob[k].executed = "COMPLETED" \/ <<d, j>> \in rob[k].regs_depend_on_me
      BY <3>2, <3>3, <3>4 DEF CInv, BackEnd, Operands
    <3> QED
      BY <1>7, <3>2, <3>5
  <2> QED
    BY <2>2 DEF Operands
<1>18. Ready'
  BY <1>4, <1>7, <1>8 DEF CInv, BackEnd, Ready
<1> QED
  BY <1>9, <1>10, <1>11, <1>12, <1>13, <1>15, <1>16, <1>17, <1>18 DEF CInv, BackEnd

-----------------------------------------------------------------------------
(* The invariant.                                                          *)

LEMMA CInvInit ==
  ASSUME Init
  PROVE  CInv
<1>1. /\ program \in Programs /\ instr_unique_id = 1 /\ fetch_stall = FALSE
      /\ rob = [i \in RobIndex |-> EmptyInstr] /\ head = 0 /\ tail = 0
      /\ last_read = RobSize - 1 /\ last_fetch = RobSize - 1 /\ itlb = {}
      /\ rte = <<<<>>, <<>>>>
  BY DEF Init
<1>2. RobSize \in Nat /\ RobSize >= 2 /\ 0 \in RobIndex /\ RobSize - 1 \in RobIndex
  BY CoreSizes DEF RobIndex
<1>3. /\ EmptyInstr = Fields(EmptyInstr) /\ EmptyInstr.id = 0
      /\ EmptyInstr.mispredicted = FALSE /\ EmptyInstr.translated = "no"
      /\ EmptyInstr.fetched = "no" /\ EmptyInstr.scheduled = "no"
      /\ EmptyInstr.executed = "no" /\ EmptyInstr.reg_ready = FALSE
      /\ EmptyInstr.num_reg_dependent = 0 /\ EmptyInstr.regs_depend_on_me = {}
      /\ EmptyInstr.lq_index = <<>> /\ EmptyInstr.sq_index = <<>>
  BY DEF EmptyInstr, Fields
<1>4. \A k \in RobIndex : rob[k] = EmptyInstr
  BY <1>1
<1>5. Types
  <2>1. Len(program) \in Nat
    BY <1>1, ProgramsAreTraces, LenProperties
  <2>2. Shaped(rob)
    BY <1>1, <1>3 DEF Shaped
  <2>3. <<>> \in Seq(RobIndex)
    BY EmptySeq
  <2>4. rte = <<rte[1], rte[2]>> /\ \A n \in 1 .. 2 : rte[n] \in Seq(RobIndex)
    BY <1>1, <2>3, TwoLists
  <2> QED
    <3>1. instr_unique_id \in 1 .. Len(program) + 1 /\ fetch_stall \in BOOLEAN
      <4>1. 1 \in 1 .. Len(program) + 1
        BY <2>1
      <4>2. instr_unique_id = 1 /\ fetch_stall = FALSE
        BY <1>1
      <4> QED
        BY <4>1, <4>2
    <3>2. /\ program \in Programs /\ head \in RobIndex /\ tail \in RobIndex
          /\ last_read \in RobIndex /\ last_fetch \in RobIndex /\ itlb \subseteq RobIndex
      BY <1>1, <1>2
    <3> QED
      BY <2>2, <2>4, <3>1, <3>2 DEF Types
<1>6. FrontEnd
  <2>1. Next1(RobSize - 1, RobSize) = 0
    BY <1>2, NextValue
  <2>2. Age(0) = 0 /\ Wrap(0) = 0
    BY <1>1, <1>2, HeadAge DEF Wrap
  <2>3. \A k \in RobIndex : Age(k) \in 0 .. RobSize - 1
    BY <1>1, <1>2, AgeValue
  <2>4. Window(0, 0, 0)
    BY <1>1, <1>2, <1>3, <1>4, <2>1, <2>2, <2>3 DEF Window, Sent
  <2> QED
    BY <1>2, <2>4 DEF FrontEnd
<1>7. Stages
  BY <1>3, <1>4 DEF Stages
<1>8. Stall
  BY <1>1, <1>3, <1>4 DEF Stall, Unresolved
<1>9. Lists
  <2>1. \A n \in 1 .. 2 : rte[n] = <<>>
    BY <1>1
  <2>2. \A n \in 1 .. 2 : Len(rte[n]) = 0
    BY <2>1
  <2> QED
    BY <2>2 DEF Lists
<1>10. Deps /\ Counts /\ Operands
  BY <1>3, <1>4 DEF Deps, Counts, Operands
<1>11. Ready
  <2>1. Range(<<>>) = {}
    BY DEF Range
  <2> QED
    BY <1>3, <1>4, <2>1 DEF Ready, InQueues
<1> QED
  BY <1>5, <1>6, <1>7, <1>8, <1>9, <1>10, <1>11 DEF CInv, BackEnd

LEMMA CInvNext ==
  ASSUME CInv, [Next]_vars
  PROVE  CInv'
<1>1. CASE HandleBranch
  BY <1>1, HandleBranchInv
<1>2. CASE Translate
  BY <1>2, TranslateInv
<1>3. CASE Fetch
  BY <1>3, FetchInv
<1>4. ASSUME NEW i \in RobIndex,
             \/ CompleteTranslation(i) \/ CompleteFetch(i)
             \/ CompleteExecution(i) \/ ScheduleMemory(i)
      PROVE  CInv'
  BY <1>4, CompleteTranslationInv, CompleteFetchInv, CompleteExecutionInv,
     ScheduleMemoryInv
<1>5. CASE Schedule
  BY <1>5, ScheduleInv
<1>6. ASSUME NEW n \in 1 .. 2, Execute(n)
      PROVE  CInv'
  BY <1>6, ExecuteInv
<1>7. CASE \/ TranslateStore \/ TranslateLoad \/ ExecuteLoad \/ ExecuteStore
           \/ \E q \in SqIndex : StoreTranslated(q)
           \/ \E q \in LqIndex : LoadTranslated(q) \/ LoadDone(q)
  BY <1>7, QueueSteps
<1>8. CASE Retire
  BY <1>8, RetireInv
<1>9. CASE UNCHANGED vars
  <2>1. rob' = rob /\ UNCHANGED <<program, front, fetch_stall, head, rte>>
    BY <1>9 DEF vars, lists
  <2>2. Shaped(rob)
    BY DEF CInv, Types
  <2> QED
    BY <2>1, <2>2, SameFields, MemorySide
<1> QED
  BY <1>1, <1>2, <1>3, <1>4, <1>5, <1>6, <1>7, <1>8, <1>9 DEF Next

LEMMA InOrderWindow ==
  ASSUME CInv
  PROVE  FetchIsInOrder
<1>1. head \in RobIndex /\ RobSize \in Nat /\ RobSize >= 2
  BY CoreSizes DEF CInv, Types
<1>2. PICK n \in 0 .. RobSize, t \in 0 .. RobSize, f \in 0 .. RobSize : Window(n, t, f)
  BY DEF CInv, FrontEnd
<1> DEFINE r == Next1(last_read, RobSize)
           l == Next1(last_fetch, RobSize)
<1>3. /\ r \in RobIndex /\ Age(r) = Wrap(t) /\ t <= n
      /\ l \in RobIndex /\ Age(l) = Wrap(f)
  BY <1>2, NextValue DEF CInv, Types, Window
<1> HIDE DEF r, l
<1>4. \A k \in RobIndex : /\ Sent(k) <=> Age(k) < t
                          /\ rob[k].fetched # "no" <=> Age(k) < f
  BY <1>2 DEF Window
\* The pointers come round to the head.
<1>5. \A k \in RobIndex : Age(k) = 0 => k = head
  BY <1>1, HeadAge, AgeInjective
<1>6. Sent(r) => t = RobSize /\ r = head
  BY <1>1, <1>2, <1>3, <1>4, <1>5 DEF Wrap
<1>7. rob[l].fetched # "no" => l = head
  BY <1>1, <1>2, <1>3, <1>4, <1>5 DEF Wrap
<1>8. rob[r].translated # "no" => r = head
  BY <1>6 DEF Sent
<1>9. rob[r].translated = "no" => r \notin itlb
  <2>1. r \in itlb => t = RobSize /\ r = head
    BY <1>6 DEF Sent
  <2>2. t = RobSize => rob[head].translated = "COMPLETED"
    BY <1>2, <1>3 DEF Window
  <2> QED
    BY <2>1, <2>2
<1>10. fetch_stall <=> \E i \in RobIndex : /\ rob[i].mispredicted
                                           /\ rob[i].executed # "COMPLETED"
  BY DEF CInv, BackEnd, Stall, Unresolved
<1> QED
  BY <1>7, <1>8, <1>9, <1>10 DEF FetchIsInOrder, r, l

LEMMA StartedWithOperands ==
  ASSUME CInv
  PROVE  OperandsAreReady
<1>1. head \in RobIndex
  BY DEF CInv, Types
<1>2. ASSUME NEW i \in RobIndex, Started(i)
      PROVE  rob[i].reg_ready
  <2>1. CASE rob[i].executed # "no" \/ InQueues(i)
    BY <2>1 DEF CInv, BackEnd, Ready
  <2>2. ASSUME NEW n \in 1 .. 2, i \in Range(rte[n])
        PROVE  rob[i].reg_ready
    <3>1. rte[n] \in Seq(RobIndex)
      BY DEF CInv, Types
    <3>2. PICK x \in DOMAIN rte[n] : i = rte[n][x]
      BY <2>2 DEF Range
    <3>3. x \in 1 .. Len(rte[n])
      BY <3>1, <3>2, LenProperties
    <3> QED
      BY <3>2, <3>3 DEF CInv, BackEnd, Lists
  <2> QED
    BY <1>2, <2>1, <2>2 DEF Started, InQueues
<1>3. ASSUME NEW i \in RobIndex, Busy(i), Started(i),
             NEW j \in DOMAIN Op(i).src, Writers(i, j) # {}
      PROVE  rob[Youngest(Writers(i, j))].executed = "COMPLETED"
  <2>1. rob[i].reg_ready /\ j \in 1 .. Len(Op(i).src)
    BY <1>2, <1>3, RobFacts
  <2>2. rob[i].scheduled # "no" /\ Pending(i) = {}
    BY <2>1 DEF CInv, BackEnd, Counts
  <2> DEFINE S == Writers(i, j)
             k == Youngest(S)
  <2>3. S \in SUBSET RobIndex /\ S # {}
    BY <1>3 DEF Writers, Older
  <2> HIDE DEF S
  <2>4. k \in S /\ \A m \in S : Age(m) <= Age(k)
    BY <1>1, <2>3, YoungestIs
  <2> HIDE DEF k
  <2>5. rob[k].executed = "COMPLETED" \/ <<i, j>> \in rob[k].regs_depend_on_me
    BY <2>1, <2>2, <2>4 DEF CInv, BackEnd, Operands, S
  <2>6. rob[k].executed # "COMPLETED" /\ <<i, j>> \in rob[k].regs_depend_on_me => FALSE
    BY <2>1, <2>2, <2>3, <2>4 DEF Pending
  <2> QED
    BY <2>5, <2>6 DEF k, S
<1> QED
  BY <1>3 DEF OperandsAreReady, Writers

\* Fetch runs in order, for every size of the queues and every trace: the two
\* pointers of fetch_instruction meet an instruction already handled only when
\* they have come round to the head, no instruction is sent twice, and reading
\* is stalled exactly while a mispredicted branch has not executed (the
\* assertions of fetch_instruction, and fetch_stall of handle_branch).
THEOREM FetchInOrder == Spec => []FetchIsInOrder
<1>1. Init => CInv
  BY CInvInit
<1>2. CInv /\ [Next]_vars => CInv'
  BY CInvNext
<1>3. CInv => FetchIsInOrder
  BY InOrderWindow
<1> QED
  BY <1>1, <1>2, <1>3, PTL DEF Spec

\* No instruction begins to execute, becomes ready to or enters a queue before
\* the youngest older writer of each of its source registers has executed, for
\* every size of the queues and every trace (reg_dependency, reg_RAW_release).
THEOREM OperandsReady == Spec => []OperandsAreReady
<1>1. Init => CInv
  BY CInvInit
<1>2. CInv /\ [Next]_vars => CInv'
  BY CInvNext
<1>3. CInv => OperandsAreReady
  BY StartedWithOperands
<1> QED
  BY <1>1, <1>2, <1>3, PTL DEF Spec

-----------------------------------------------------------------------------
(* The load and store queues.  The invariant, in parts.                    *)

\* The sequence s lists the elements of S, each once.
Enumerates(s, S) ==
  /\ \A x \in 1 .. Len(s) : s[x] \in S
  /\ \A x, y \in 1 .. Len(s) : s[x] = s[y] => x = y
  /\ \A e \in S : \E x \in 1 .. Len(s) : s[x] = e

Loads(k) == IF Busy(k) THEN Len(Op(k).loads) ELSE 0
Stores(k) == IF Busy(k) THEN Len(Op(k).stores) ELSE 0

Indices(r) ==
  \A k \in RobIndex :
    /\ r[k].num_mem_ops \in Int
    /\ r[k].mem_depend_on_me \subseteq RobIndex
    /\ r[k].lq_index \in [1 .. Loads(k) -> LqIndex \cup {NoIndex}]
    /\ r[k].sq_index \in [1 .. Stores(k) -> SqIndex \cup {NoIndex}]

MemTypes ==
  /\ next_schedule \in RobIndex
  /\ lq \in [LqIndex -> LsqType(LqIndex)] /\ sq \in [SqIndex -> LsqType(SqIndex)]
  /\ sq_head \in SqIndex /\ sq_tail \in SqIndex
  /\ rtl = <<rtl[1], rtl[2]>> /\ rtl[1] \in Seq(LqIndex) /\ rtl[2] \in Seq(LqIndex)
  /\ rts = <<rts[1], rts[2]>> /\ rts[1] \in Seq(SqIndex) /\ rts[2] \in Seq(SqIndex)
  /\ sta \in Seq(Nat)
  /\ inflight \in [reg : Int, mem : Int]
  /\ memory \in [Addr -> Nat]
  /\ Indices(rob)

StageTypes ==
  \A k \in RobIndex :
    /\ rob[k].translated \in Stage /\ rob[k].fetched \in Stage
    /\ rob[k].scheduled \in Stage /\ rob[k].executed \in Stage

\* Every instruction that is ready to execute is in a list.
ReadyListed ==
  \A k \in RobIndex :
    /\ Busy(k) /\ ~IsMemory(k) /\ rob[k].reg_ready
    /\ rob[k].scheduled = "COMPLETED" /\ rob[k].executed = "no"
    => \E n \in 1 .. 2 : \E x \in 1 .. Len(rte[n]) : rte[n][x] = k

(* The load queue l, for the ROB r.                                        *)
Used(l, q) == l[q] # EmptyLsq
Sending(l, Index) == {q \in Index : Used(l, q) /\ l[q].translated = "no"}
Reading(l, Index) ==
  {q \in Index : Used(l, q) /\ l[q].translated = "COMPLETED" /\ l[q].fetched = "no"}

\* An entry in use is that of a load of an instruction in the ROB, which knows it.
LoadLinks(r, l) ==
  \A q \in LqIndex : Used(l, q) =>
    LET e == l[q] IN
    /\ e.rob_index \in RobIndex /\ Busy(e.rob_index)
    /\ e.data_index \in 1 .. Loads(e.rob_index)
    /\ r[e.rob_index].lq_index[e.data_index] = q
    /\ e.producer_id # NoProducer => e.translated = "INFLIGHT"
    /\ e.translated # "COMPLETED" => e.fetched = "no"
    /\ e.fetched # "COMPLETED"

StoresTo(i, a) == {k \in Older(i) : Writes(k, a)}
LastStore(k, i, a) ==
  k \in StoresTo(i, a) /\ \A m \in StoresTo(i, a) : Age(m) <= Age(k)

\* The store k has not executed in the queue s.
Unstored(s, k, a) ==
  \A p \in SqIndex : Used(s, p) /\ s[p].rob_index = k /\ StoreAddr(s[p]) = a
                       => s[p].fetched # "COMPLETED"

\* A load of i from a waits for the youngest older store to a, its producer id.
Follows(r, s, i, a, id) ==
  /\ StoresTo(i, a) = {} => id = NoProducer
  /\ \A k \in RobIndex : LastStore(k, i, a) =>
       id = r[k].id /\ i \in r[k].mem_depend_on_me /\ Unstored(s, k, a)
LoadWaits(r, l, s) ==
  \A q \in LqIndex : \A i \in RobIndex : \A a, id :
    /\ Used(l, q) /\ l[q].rob_index = i /\ LoadAddr(l[q]) = a /\ l[q].producer_id = id
    => Follows(r, s, i, a, id)

LoadSide ==
  /\ LoadLinks(rob, lq) /\ LoadWaits(rob, lq, sq)
  /\ Enumerates(rtl[1], Sending(lq, LqIndex))
  /\ Enumerates(rtl[2], Reading(lq, LqIndex))

(* The store queue.                                                        *)
StoreLinks(r, s) ==
  /\ \A q \in SqIndex : Used(s, q) =>
       LET e == s[q] IN
       /\ e.rob_index \in RobIndex /\ Busy(e.rob_index)
       /\ e.data_index \in 1 .. Stores(e.rob_index)
       /\ r[e.rob_index].sq_index[e.data_index] = q
       /\ e.translated # "COMPLETED" => e.fetched = "no"
  /\ \A i \in RobIndex : \A k \in 1 .. Stores(i) : r[i].sq_index[k] # NoIndex =>
       /\ s[r[i].sq_index[k]].rob_index = i
       /\ s[r[i].sq_index[k]].data_index = k

\* The n entries from the head on are in use, those of older stores first.
Pos(h, q) == (q - h + SqSize) % SqSize
Queued(s, h, t, n) ==
  /\ Pos(h, t) = IF n = SqSize THEN 0 ELSE n
  /\ \A q \in SqIndex : Used(s, q) <=> Pos(h, q) < n
  /\ \A p, q \in SqIndex :
       Used(s, p) /\ Used(s, q) /\ Pos(h, p) <= Pos(h, q) => StoreId(s[p]) <= StoreId(s[q])

\* The stores of the STA are younger.
StaOrder(s, a) ==
  /\ \A x, y \in 1 .. Len(a) : x <= y => a[x] <= a[y]
  /\ \A x \in 1 .. Len(a) : a[x] < instr_unique_id
  /\ \A q \in SqIndex : \A x \in 1 .. Len(a) : Used(s, q) => StoreId(s[q]) <= a[x]

StoreSide ==
  /\ StoreLinks(rob, sq) /\ StaOrder(sq, sta)
  /\ \E n \in 0 .. SqSize : Queued(sq, sq_head, sq_tail, n)
  /\ Enumerates(rts[1], Sending(sq, SqIndex))
  /\ Enumerates(rts[2], Reading(sq, SqIndex))

(* The counters.                                                           *)
WaitingLoads(r, l, i) ==
  {j \in 1 .. Loads(i) : r[i].lq_index[j] # NoIndex =>
     l[r[i].lq_index[j]].rob_index = i /\ l[r[i].lq_index[j]].data_index = j}
WaitingStores(r, s, i) ==
  {k \in 1 .. Stores(i) : r[i].sq_index[k] # NoIndex =>
     s[r[i].sq_index[k]].fetched # "COMPLETED"}
OpsLeft(r, l, s) ==
  \A i \in RobIndex : r[i].num_mem_ops =
    Cardinality(WaitingLoads(r, l, i)) + Cardinality(WaitingStores(r, s, i))

Running == {i \in RobIndex : Busy(i) /\ ~IsMemory(i) /\ rob[i].executed = "INFLIGHT"}
Finishes(r) ==
  {i \in RobIndex : IsMemory(i) /\ r[i].num_mem_ops = 0 /\ r[i].executed # "COMPLETED"}

\* An instruction with all its operations in the queues, and one that is done.
Executes(r) ==
  \A i \in RobIndex : IsMemory(i) =>
    /\ r[i].executed # "no" =>
         /\ \A j \in 1 .. Loads(i) : r[i].lq_index[j] # NoIndex
         /\ \A k \in 1 .. Stores(i) : r[i].sq_index[k] # NoIndex
    /\ r[i].executed = "COMPLETED" => r[i].num_mem_ops = 0

Counting ==
  /\ OpsLeft(rob, lq, sq) /\ Executes(rob)
  /\ inflight.reg = Cardinality(Running)
  /\ inflight.mem = Cardinality(Finishes(rob))

\* Instructions retire in order.
History ==
  /\ \E S : seen \in Seq(S)
  /\ Len(seen) + 1 = IF Busy(head) THEN rob[head].id ELSE instr_unique_id

MInv ==
  MemTypes /\ StageTypes /\ ReadyListed /\ LoadSide /\ StoreSide /\ Counting /\ History

-----------------------------------------------------------------------------
(* Lists that hold each element once.                                      *)

LEMMA EnumTimes ==
  ASSUME NEW T, NEW s \in Seq(T), NEW S, Enumerates(s, S), NEW e
  PROVE  Times(e, s) = IF e \in S THEN 1 ELSE 0
<1>1. DOMAIN s = 1 .. Len(s)
  BY LenProperties
<1> DEFINE N == {n \in DOMAIN s : s[n] = e}
<1>2. CASE e \in S
  <2>1. PICK x \in 1 .. Len(s) : s[x] = e
    BY <1>2 DEF Enumerates
  <2>2. N = {x}
    BY <1>1, <2>1 DEF Enumerates
  <2>3. Cardinality(N) = 1
    BY <2>2, FS_Singleton
  <2> QED
    BY <1>2, <2>3 DEF Times
<1>3. CASE e \notin S
  <2>1. N = {}
    BY <1>1, <1>3 DEF Enumerates
  <2>2. Cardinality(N) = 0
    BY <2>1, FS_EmptySet
  <2> QED
    BY <1>3, <2>2 DEF Times
<1> QED
  BY <1>2, <1>3

LEMMA EnumTail ==
  ASSUME NEW T, NEW s \in Seq(T), s # <<>>, NEW S, Enumerates(s, S)
  PROVE  /\ Head(s) \in S /\ Head(s) \in T /\ Tail(s) \in Seq(T)
         /\ Enumerates(Tail(s), S \ {Head(s)})
<1> DEFINE h == s[1]
           t == Tail(s)
<1>1. /\ Len(s) \in Nat /\ 1 \in 1 .. Len(s) /\ Head(s) = h /\ h \in T
      /\ t \in Seq(T) /\ Len(t) = Len(s) - 1
      /\ \A x \in 1 .. Len(s) - 1 : t[x] = s[x + 1]
  BY HeadTailProperties, LenProperties, EmptySeq, ElementOfSeq
<1>2. h \in S
  BY <1>1 DEF Enumerates
<1>3. \A x \in 1 .. Len(t) : x + 1 \in 1 .. Len(s) /\ x + 1 # 1 /\ t[x] = s[x + 1]
  BY <1>1
<1> HIDE DEF h, t
<1>4. \A x \in 1 .. Len(t) : t[x] \in S \ {h}
  BY <1>1, <1>3 DEF Enumerates, h
<1>5. \A x, y \in 1 .. Len(t) : t[x] = t[y] => x = y
  <2>1. ASSUME NEW x \in 1 .. Len(t), NEW y \in 1 .. Len(t), t[x] = t[y]
        PROVE  x = y
    <3>1. s[x + 1] = s[y + 1]
      BY <1>3, <2>1
    <3>2. x + 1 = y + 1
      BY <1>3, <3>1 DEF Enumerates
    <3> QED
      BY <1>1, <3>2
  <2> QED
    BY <2>1
<1>6. \A e \in S \ {h} : \E x \in 1 .. Len(t) : t[x] = e
  <2>1. ASSUME NEW e \in S, e # h
        PROVE  \E x \in 1 .. Len(t) : t[x] = e
    <3>1. PICK y \in 1 .. Len(s) : s[y] = e
      BY DEF Enumerates
    <3>2. y # 1
      BY <2>1, <3>1 DEF h
    <3>3. y - 1 \in 1 .. Len(t) /\ y - 1 + 1 = y
      BY <1>1, <3>2
    <3>4. t[y - 1] = e
      BY <1>3, <3>1, <3>3
    <3> QED
      BY <3>3, <3>4
  <2> QED
    BY <2>1
<1>7. Enumerates(t, S \ {h})
  BY <1>4, <1>5, <1>6 DEF Enumerates
<1> QED
  BY <1>1, <1>2, <1>7 DEF t

LEMMA EnumConcat ==
  ASSUME NEW T, NEW s \in Seq(T), NEW S, Enumerates(s, S),
         NEW t \in Seq(T), NEW R, Enumerates(t, R), S \cap R = {}
  PROVE  s \o t \in Seq(T) /\ Enumerates(s \o t, S \cup R)
<1> DEFINE u == s \o t
           m == Len(s)
           n == Len(t)
<1>1. /\ u \in Seq(T) /\ m \in Nat /\ n \in Nat /\ Len(u) = m + n
      /\ \A x \in 1 .. m + n : u[x] = IF x <= m THEN s[x] ELSE t[x - m]
  BY ConcatProperties, LenProperties
<1> HIDE DEF u
<1>2. \A x \in 1 .. m + n : \/ x \in 1 .. m /\ u[x] = s[x]
                            \/ x - m \in 1 .. n /\ x > m /\ u[x] = t[x - m]
  BY <1>1
<1>3. \A x \in 1 .. m : x \in 1 .. m + n /\ u[x] = s[x] /\ s[x] \in S
  BY <1>1 DEF Enumerates
<1>4. \A x \in 1 .. n : m + x \in 1 .. m + n /\ u[m + x] = t[x] /\ t[x] \in R
  <2>1. ASSUME NEW x \in 1 .. n
        PROVE  m + x \in 1 .. m + n /\ u[m + x] = t[x]
    <3>1. m + x \in 1 .. m + n /\ ~(m + x <= m) /\ m + x - m = x
      BY <1>1
    <3> QED
      BY <1>1, <3>1
  <2> QED
    BY <2>1 DEF Enumerates
<1>5. \A x \in 1 .. m + n : u[x] \in S \cup R
  BY <1>2 DEF Enumerates
<1>6. ASSUME NEW x \in 1 .. m + n, NEW y \in 1 .. m + n, u[x] = u[y]
      PROVE  x = y
  <2>1. CASE x \in 1 .. m /\ y \in 1 .. m
    BY <1>3, <1>6, <2>1 DEF Enumerates
  <2>2. CASE x > m /\ y > m
    <3>1. x - m \in 1 .. n /\ y - m \in 1 .. n
      BY <1>1, <2>2
    <3>2. t[x - m] = t[y - m]
      BY <1>2, <1>6, <2>2, <1>1
    <3>3. x - m = y - m
      BY <3>1, <3>2 DEF Enumerates
    <3> QED
      BY <1>1, <3>3
  <2>3. CASE x \in 1 .. m /\ y > m
    <3>1. u[x] \in S
      BY <1>3, <2>3
    <3>2. y - m \in 1 .. n /\ u[y] = t[y - m]
      BY <1>1, <1>2, <2>3
    <3>3. u[y] \in R
      BY <3>2 DEF Enumerates
    <3> QED
      BY <1>6, <3>1, <3>3
  <2>4. CASE x > m /\ y \in 1 .. m
    <3>1. u[y] \in S
      BY <1>3, <2>4
    <3>2. x - m \in 1 .. n /\ u[x] = t[x - m]
      BY <1>1, <1>2, <2>4
    <3>3. u[x] \in R
      BY <3>2 DEF Enumerates
    <3> QED
      BY <1>6, <3>1, <3>3
  <2> QED
    BY <1>1, <2>1, <2>2, <2>3, <2>4
<1>7. ASSUME NEW e \in S \cup R
      PROVE  \E x \in 1 .. m + n : u[x] = e
  <2>1. CASE e \in S
    <3>1. PICK x \in 1 .. m : s[x] = e
      BY <2>1 DEF Enumerates
    <3> QED
      BY <1>3, <3>1
  <2>2. CASE e \in R
    <3>1. PICK x \in 1 .. n : t[x] = e
      BY <2>2 DEF Enumerates
    <3> QED
      BY <1>4, <3>1
  <2> QED
    BY <2>1, <2>2
<1>8. Enumerates(u, S \cup R)
  BY <1>1, <1>5, <1>6, <1>7 DEF Enumerates
<1> QED
  BY <1>1, <1>8 DEF u

LEMMA EnumAppend ==
  ASSUME NEW T, NEW s \in Seq(T), NEW S, Enumerates(s, S), NEW e \in T, e \notin S
  PROVE  Append(s, e) \in Seq(T) /\ Enumerates(Append(s, e), S \cup {e})
<1> DEFINE t == <<e>>
<1>1. t \in Seq(T) /\ Len(t) = 1 /\ t[1] = e
  OBVIOUS
<1>2. Append(s, e) = s \o t
  BY AppendIsConcat
<1>3. Enumerates(t, {e})
  BY <1>1 DEF Enumerates
<1>4. S \cap {e} = {}
  OBVIOUS
<1> HIDE DEF t
<1>5. s \o t \in Seq(T) /\ Enumerates(s \o t, S \cup {e})
  BY <1>1, <1>3, <1>4, EnumConcat
<1> QED
  BY <1>2, <1>5

-----------------------------------------------------------------------------
(* Steps that leave the load and store queues alone.                       *)

SameOps(a, b) ==
  /\ a.num_mem_ops = b.num_mem_ops /\ a.mem_depend_on_me = b.mem_depend_on_me
  /\ a.got = b.got

SameOrder ==
  program' = program /\ head' = head /\ \A k \in RobIndex : SameId(rob'[k], rob[k])

\* What depends on the instructions in the ROB and their order only.
LEMMA SameProgram ==
  ASSUME SameOrder
  PROVE  /\ \A k \in RobIndex :
              /\ Busy(k)' <=> Busy(k)
              /\ IsMemory(k)' <=> IsMemory(k)
              /\ Op(k)' = Op(k) /\ Age(k)' = Age(k)
              /\ Loads(k)' = Loads(k) /\ Stores(k)' = Stores(k)
              /\ Older(k)' = Older(k)
         /\ \A k \in RobIndex : \A a : Writes(k, a)' <=> Writes(k, a)
         /\ \A k \in RobIndex : \A a : StoresTo(k, a)' = StoresTo(k, a)
         /\ \A k, i \in RobIndex : \A a : LastStore(k, i, a)' <=> LastStore(k, i, a)
<1>1. \A k \in RobIndex : /\ Busy(k)' <=> Busy(k)
                          /\ Op(k)' = Op(k) /\ Age(k)' = Age(k)
  BY DEF SameOrder, SameId, Busy, Op, Age
<1>2. \A k \in RobIndex : /\ IsMemory(k)' <=> IsMemory(k)
                          /\ Loads(k)' = Loads(k) /\ Stores(k)' = Stores(k)
  BY <1>1 DEF IsMemory, Loads, Stores
<1>3. \A k \in RobIndex : Older(k)' = Older(k)
  BY <1>1 DEF Older
<1>4. \A k \in RobIndex : \A a : Writes(k, a)' <=> Writes(k, a)
  BY <1>1 DEF Writes
<1>5. \A k \in RobIndex : \A a : StoresTo(k, a)' = StoresTo(k, a)
  BY <1>3, <1>4 DEF StoresTo, Older
<1>6. \A k, i \in RobIndex : \A a : LastStore(k, i, a)' <=> LastStore(k, i, a)
  BY <1>1, <1>5 DEF LastStore, StoresTo, Older
<1> QED
  BY <1>1, <1>2, <1>3, <1>4, <1>5, <1>6

LEMMA LoadFrame ==
  ASSUME LoadSide, StoreSide, SameOrder, UNCHANGED <<lq, sq, rtl>>,
         \A k \in RobIndex : /\ SameQueues(rob'[k], rob[k])
                             /\ rob'[k].mem_depend_on_me = rob[k].mem_depend_on_me
  PROVE  LoadSide'
<1>1. /\ \A k \in RobIndex : /\ Busy(k)' <=> Busy(k)
                             /\ Op(k)' = Op(k) /\ Loads(k)' = Loads(k)
                             /\ Age(k)' = Age(k)
      /\ \A k \in RobIndex : \A a : StoresTo(k, a)' = StoresTo(k, a)
  BY SameProgram
<1>2. LoadLinks(rob, lq)'
  BY <1>1 DEF LoadSide, LoadLinks, Used, SameQueues
<1>3. \A p \in SqIndex : Used(sq, p) => sq[p].rob_index \in RobIndex
  BY DEF StoreSide, StoreLinks
<1>4. \A p \in SqIndex : Used(sq, p) => StoreAddr(sq[p])' = StoreAddr(sq[p])
  BY <1>1, <1>3 DEF StoreAddr
<1>5. \A q \in LqIndex : Used(lq, q) =>
        lq[q].rob_index \in RobIndex /\ LoadAddr(lq[q])' = LoadAddr(lq[q])
  BY <1>1 DEF LoadSide, LoadLinks, LoadAddr
<1>6. LoadWaits(rob, lq, sq)'
  <2>1. \A k, i \in RobIndex : \A a : LastStore(k, i, a)' <=> LastStore(k, i, a)
    BY SameProgram
  <2>2. \A k \in RobIndex : rob'[k].id = rob[k].id
                            /\ rob'[k].mem_depend_on_me = rob[k].mem_depend_on_me
    BY DEF SameOrder, SameId
  <2> QED
    BY <1>1, <1>4, <1>5, <2>1, <2>2 DEF LoadSide, LoadWaits, Follows, Unstored, Used
<1>7. /\ Enumerates(rtl[1], Sending(lq, LqIndex))'
      /\ Enumerates(rtl[2], Reading(lq, LqIndex))'
  BY DEF LoadSide, Enumerates, Sending, Reading, Used
<1> QED
  BY <1>2, <1>6, <1>7 DEF LoadSide

LEMMA StoreFrame ==
  ASSUME StoreSide, SameOrder,
         UNCHANGED <<instr_unique_id, sq, sq_head, sq_tail, sta, rts>>,
         \A k \in RobIndex : SameQueues(rob'[k], rob[k])
  PROVE  StoreSide'
<1>1. \A k \in RobIndex : Stores(k)' = Stores(k)
  BY SameProgram
<1>2. \A k \in RobIndex : Busy(k)' <=> Busy(k)
  BY SameProgram
<1>3. StoreLinks(rob, sq)'
  BY <1>1, <1>2 DEF StoreSide, StoreLinks, Used, SameQueues
<1>4. \A q \in SqIndex : Used(sq, q) => StoreId(sq[q])' = StoreId(sq[q])
  <2>1. \A q \in SqIndex : Used(sq, q) => sq[q].rob_index \in RobIndex
    BY DEF StoreSide, StoreLinks
  <2> QED
    BY <2>1 DEF StoreId, SameOrder, SameId
<1>5. StaOrder(sq, sta)'
  BY <1>4 DEF StoreSide, StaOrder, Used
<1>6. \E n \in 0 .. SqSize : Queued(sq, sq_head, sq_tail, n)'
  <2>1. PICK n \in 0 .. SqSize : Queued(sq, sq_head, sq_tail, n)
    BY DEF StoreSide
  <2>2. Queued(sq, sq_head, sq_tail, n)'
    BY <1>4, <2>1 DEF Queued, Used, Pos
  <2> QED
    BY <2>2
<1>7. /\ Enumerates(rts[1], Sending(sq, SqIndex))'
      /\ Enumerates(rts[2], Reading(sq, SqIndex))'
  BY DEF StoreSide, Enumerates, Sending, Reading, Used
<1> QED
  BY <1>3, <1>5, <1>6, <1>7 DEF StoreSide

LEMMA OpsFrame ==
  ASSUME Indices(rob), OpsLeft(rob, lq, sq), SameOrder, UNCHANGED <<lq, sq>>,
         \A k \in RobIndex : SameQueues(rob'[k], rob[k]) /\ SameOps(rob'[k], rob[k])
  PROVE  Indices(rob)' /\ OpsLeft(rob, lq, sq)'
<1>1. \A k \in RobIndex : Loads(k)' = Loads(k) /\ Stores(k)' = Stores(k)
  BY SameProgram
<1>2. Indices(rob)'
  BY <1>1 DEF Indices, SameQueues, SameOps
<1>3. \A k \in RobIndex : /\ WaitingLoads(rob, lq, k)' = WaitingLoads(rob, lq, k)
                          /\ WaitingStores(rob, sq, k)' = WaitingStores(rob, sq, k)
  BY <1>1 DEF WaitingLoads, WaitingStores, SameQueues
<1>4. OpsLeft(rob, lq, sq)'
  BY <1>3 DEF OpsLeft, SameOps
<1> QED
  BY <1>2, <1>4

\* A step that changes neither the queues nor how far an instruction has executed.
LEMMA CountFrame ==
  ASSUME Indices(rob), Counting, SameOrder, UNCHANGED <<lq, sq, inflight>>,
         \A k \in RobIndex : /\ SameQueues(rob'[k], rob[k]) /\ SameOps(rob'[k], rob[k])
                             /\ rob'[k].executed = rob[k].executed
  PROVE  Counting'
<1>1. OpsLeft(rob, lq, sq)'
  BY OpsFrame DEF Counting
<1>2. \A k \in RobIndex : Busy(k)' <=> Busy(k)
  BY SameProgram
<1>3. \A k \in RobIndex : IsMemory(k)' <=> IsMemory(k)
  BY SameProgram
<1>4. \A k \in RobIndex : Loads(k)' = Loads(k) /\ Stores(k)' = Stores(k)
  BY SameProgram
<1>5. Executes(rob)'
  BY <1>3, <1>4 DEF Counting, Executes, SameQueues, SameOps
<1>6. Running' = Running
  BY <1>2, <1>3 DEF Running
<1>7. Finishes(rob)' = Finishes(rob)
  BY <1>3 DEF Finishes, SameOps
<1> QED
  BY <1>1, <1>5, <1>6, <1>7 DEF Counting

LEMMA HistoryFrame ==
  ASSUME CInv, History, SameOrder, UNCHANGED <<instr_unique_id, seen>>
  PROVE  History'
<1>1. head \in RobIndex /\ \A k \in RobIndex : Busy(k)' <=> Busy(k)
  BY SameProgram DEF CInv, Types
<1>2. Busy(head)' <=> Busy(head)
  <2>1. PICK h \in RobIndex : h = head
    BY <1>1
  <2>2. Busy(h)' <=> Busy(h)
    BY <2>1, <1>1
  <2> QED
    BY <2>1, <2>2 DEF Busy, SameOrder
<1>3. rob'[head'].id = rob[head].id
  BY <1>1 DEF SameOrder, SameId
<1> QED
  BY <1>2, <1>3 DEF History

LEMMA TypesFrame ==
  ASSUME MemTypes, Counting, SameOrder,
         UNCHANGED <<next_schedule, lq, sq, sq_head, sq_tail, rtl, rts, sta, memory>>,
         inflight' \in [reg : Int, mem : Int],
         \A k \in RobIndex : SameQueues(rob'[k], rob[k]) /\ SameOps(rob'[k], rob[k])
  PROVE  MemTypes'
<1>1. Indices(rob)'
  BY OpsFrame DEF MemTypes, Counting
<1> QED
  BY <1>1 DEF MemTypes

\* Instructions that are ready, and the lists, stay what they are.
LEMMA ReadyFrame ==
  ASSUME ReadyListed, SameOrder, rte' = rte,
         \A k \in RobIndex : /\ SameSched(rob'[k], rob[k])
                             /\ rob'[k].executed = rob[k].executed
  PROVE  ReadyListed'
<1>1. \A k \in RobIndex : Busy(k)' <=> Busy(k)
  BY SameProgram
<1>2. \A k \in RobIndex : IsMemory(k)' <=> IsMemory(k)
  BY SameProgram
<1> QED
  BY <1>1, <1>2 DEF ReadyListed, SameSched

LEMMA FieldOps ==
  ASSUME NEW r, Shaped(r), NEW i \in RobIndex, NEW v, NEW s,
         \/ s = WithTranslated(r, i, v) \/ s = WithFetched(r, i, v)
         \/ s = WithExecuted(r, i, v)
  PROVE  \A k \in RobIndex : SameOps(s[k], r[k])
<1>1. r = [k \in RobIndex |-> r[k]] /\ \A k \in RobIndex : r[k] = Fields(r[k])
  BY DEF Shaped
<1>2. \E w : /\ s = [r EXCEPT ![i] = w] /\ SameOps(w, Fields(r[i]))
  <2>1. CASE s = WithTranslated(r, i, v)
    <3> DEFINE w == [Fields(r[i]) EXCEPT !.translated = v]
    <3>1. s = [r EXCEPT ![i] = w]
      BY <1>1, <2>1 DEF WithTranslated
    <3>2. SameOps(w, Fields(r[i]))
      BY DEF SameOps, Fields
    <3> QED
      BY <3>1, <3>2
  <2>2. CASE s = WithFetched(r, i, v)
    <3> DEFINE w == [Fields(r[i]) EXCEPT !.fetched = v]
    <3>1. s = [r EXCEPT ![i] = w]
      BY <1>1, <2>2 DEF WithFetched
    <3>2. SameOps(w, Fields(r[i]))
      BY DEF SameOps, Fields
    <3> QED
      BY <3>1, <3>2
  <2>3. CASE s = WithExecuted(r, i, v)
    <3> DEFINE w == [Fields(r[i]) EXCEPT !.executed = v]
    <3>1. s = [r EXCEPT ![i] = w]
      BY <1>1, <2>3 DEF WithExecuted
    <3>2. SameOps(w, Fields(r[i]))
      BY DEF SameOps, Fields
    <3> QED
      BY <3>1, <3>2
  <2> QED
    BY <2>1, <2>2, <2>3
<1>3. PICK w : s = [r EXCEPT ![i] = w] /\ SameOps(w, Fields(r[i]))
  BY <1>2
<1>4. \A k \in RobIndex : s[k] = IF k = i THEN w ELSE r[k]
  BY <1>1, <1>3
<1>5. SameOps(w, r[i])
  BY <1>1, <1>3
<1> QED
  BY <1>4, <1>5 DEF SameOps

\* Translation and fetch.
LEMMA FrontSteps ==
  ASSUME CInv, MInv,
         \/ Translate \/ Fetch
         \/ \E i \in RobIndex : CompleteTranslation(i) \/ CompleteFetch(i)
  PROVE  MInv'
<1>1. UNCHANGED <<program, instr_unique_id, head, next_schedule, rte, rtl, rts, lq, sq,
                  sq_head, sq_tail, sta, inflight, memory, seen>>
  BY DEF Translate, Fetch, CompleteTranslation, CompleteFetch, front, lists, history
<1>2. Shaped(rob) /\ \A k \in RobIndex : Next1(k, RobSize) \in RobIndex
  BY NextValue DEF CInv, Types
<1>3. \/ rob' = rob
      \/ \E i \in RobIndex : \E v \in Stage :
           rob' = WithTranslated(rob, i, v) \/ rob' = WithFetched(rob, i, v)
  <2>1. CASE Translate
    BY <2>1 DEF Translate
  <2>2. CASE Fetch
    <3>1. Next1(last_fetch, RobSize) \in RobIndex /\ "INFLIGHT" \in Stage
      BY <1>2 DEF CInv, Types, Stage
    <3> QED
      BY <2>2, <3>1 DEF Fetch, WithFetched
  <2>3. CASE \E i \in RobIndex : CompleteTranslation(i) \/ CompleteFetch(i)
    <3>1. "COMPLETED" \in Stage
      BY DEF Stage
    <3> QED
      BY <2>3, <3>1 DEF CompleteTranslation, CompleteFetch, WithTranslated, WithFetched
  <2> QED
    BY <2>1, <2>2, <2>3
<1>4. \A k \in RobIndex :
        /\ SameId(rob'[k], rob[k]) /\ SameSched(rob'[k], rob[k])
        /\ SameQueues(rob'[k], rob[k]) /\ SameOps(rob'[k], rob[k])
        /\ rob'[k].executed = rob[k].executed
        /\ rob'[k].translated \in Stage /\ rob'[k].fetched \in Stage
  <2>1. CASE rob' = rob
    BY <2>1, SameFields DEF SameOps, MInv, StageTypes
  <2>2. ASSUME NEW i \in RobIndex, NEW v \in Stage, rob' = WithTranslated(rob, i, v)
        PROVE  \A k \in RobIndex :
                 /\ SameId(rob'[k], rob[k]) /\ SameSched(rob'[k], rob[k])
                 /\ SameQueues(rob'[k], rob[k]) /\ SameOps(rob'[k], rob[k])
                 /\ rob'[k].executed = rob[k].executed
                 /\ rob'[k].translated \in Stage /\ rob'[k].fetched \in Stage
    <3>1. \A k \in RobIndex : SameOps(rob'[k], rob[k])
      BY <1>2, <2>2, FieldOps
    <3>2. \A k \in RobIndex :
            /\ SameId(rob'[k], rob[k]) /\ SameSched(rob'[k], rob[k])
            /\ SameQueues(rob'[k], rob[k])
            /\ rob'[k].executed = rob[k].executed /\ rob'[k].fetched = rob[k].fetched
            /\ rob'[k].translated = IF k = i THEN v ELSE rob[k].translated
      BY <1>2, <2>2, SetTranslated
    <3> QED
      BY <3>1, <3>2 DEF MInv, StageTypes
  <2>3. ASSUME NEW i \in RobIndex, NEW v \in Stage, rob' = WithFetched(rob, i, v)
        PROVE  \A k \in RobIndex :
                 /\ SameId(rob'[k], rob[k]) /\ SameSched(rob'[k], rob[k])
                 /\ SameQueues(rob'[k], rob[k]) /\ SameOps(rob'[k], rob[k])
                 /\ rob'[k].executed = rob[k].executed
                 /\ rob'[k].translated \in Stage /\ rob'[k].fetched \in Stage
    <3>1. \A k \in RobIndex : SameOps(rob'[k], rob[k])
      BY <1>2, <2>3, FieldOps
    <3>2. \A k \in RobIndex :
            /\ SameId(rob'[k], rob[k]) /\ SameSched(rob'[k], rob[k])
            /\ SameQueues(rob'[k], rob[k])
            /\ rob'[k].executed = rob[k].executed
            /\ rob'[k].translated = rob[k].translated
            /\ rob'[k].fetched = IF k = i THEN v ELSE rob[k].fetched
      BY <1>2, <2>3, SetFetched
    <3> QED
      BY <3>1, <3>2 DEF MInv, StageTypes
  <2> QED
    BY <1>3, <2>1, <2>2, <2>3
<1>5. SameOrder
  BY <1>1, <1>4 DEF SameOrder
<1>6. MemTypes'
  <2>1. inflight' \in [reg : Int, mem : Int]
    BY <1>1 DEF MInv, MemTypes
  <2> QED
    BY <1>1, <1>4, <1>5, <2>1, TypesFrame DEF MInv
<1>7. StageTypes'
  BY <1>4 DEF MInv, StageTypes, SameSched
<1>8. ReadyListed'
  BY <1>1, <1>4, <1>5, ReadyFrame DEF MInv
<1>9. LoadSide'
  BY <1>1, <1>4, <1>5, LoadFrame DEF MInv, SameOps
<1>10. StoreSide'
  BY <1>1, <1>4, <1>5, StoreFrame DEF MInv
<1>11. Counting'
  BY <1>1, <1>4, <1>5, CountFrame DEF MInv, MemTypes
<1>12. History'
  BY <1>1, <1>5, HistoryFrame DEF MInv
<1> QED
  BY <1>6, <1>7, <1>8, <1>9, <1>10, <1>11, <1>12 DEF MInv

\* Scheduling, execution and completion leave the memory operations alone.
LEMMA LinkedOps ==
  ASSUME Shaped(rob), NEW i \in RobIndex, rob' = Linked(i)
  PROVE  \A k \in RobIndex : SameOps(rob'[k], rob[k])
<1> DEFINE l == Links(i)
           c == Cardinality(Waits(i))
           b == (Waits(i) = {})
           v == StageOf(i)
<1>1. \A k \in RobIndex : rob[k] = Fields(rob[k])
  BY DEF Shaped
<1>2. ASSUME NEW k \in RobIndex
      PROVE  l[k] = Fields(l[k]) /\ SameOps(l[k], rob[k])
  <2> DEFINE on == rob[k].regs_depend_on_me \cup On(i, k)
  <2>1. l[k] = [rob[k] EXCEPT !.regs_depend_on_me = on]
    BY DEF Links
  <2> HIDE DEF on, l
  <2>2. l[k] = [Fields(rob[k]) EXCEPT !.regs_depend_on_me = on]
    BY <1>1, <2>1
  <2> QED
    BY <2>2 DEF Fields, SameOps
<1>3. l = [k \in RobIndex |-> l[k]]
  BY DEF Links
<1>4. rob' = [l EXCEPT ![i].num_reg_dependent = c, ![i].reg_ready = b, ![i].scheduled = v]
  BY DEF Linked
<1> HIDE DEF l, c, b, v
<1> DEFINE w == [Fields(l[i]) EXCEPT !.num_reg_dependent = c, !.reg_ready = b,
                                     !.scheduled = v]
<1>5. rob' = [k \in RobIndex |-> IF k = i THEN w ELSE l[k]]
  BY <1>2, <1>3, <1>4
<1>6. SameOps(w, l[i])
  BY DEF SameOps, Fields
<1> HIDE DEF w
<1> QED
  BY <1>2, <1>5, <1>6 DEF SameOps

LEMMA CompletedOps ==
  ASSUME Shaped(rob), NEW i \in RobIndex,
         rob' = WithExecuted(Releases(i), i, "COMPLETED")
  PROVE  \A k \in RobIndex : SameOps(rob'[k], rob[k])
<1> DEFINE r == Releases(i)
<1>1. \A k \in RobIndex : rob[k] = Fields(rob[k])
  BY DEF Shaped
<1>2. ASSUME NEW k \in RobIndex
      PROVE  SameOps(r[k], rob[k])
  <2> DEFINE v == StageOf(k)
             n == Left(i, k)
  <2>1. CASE k \in Freed(i)
    <3>1. r[k] = [rob[k] EXCEPT !.num_reg_dependent = 0, !.reg_ready = TRUE,
                                !.scheduled = v]
      BY <2>1 DEF Releases, Release, StageOf
    <3> HIDE DEF v, r
    <3>2. r[k] = [Fields(rob[k]) EXCEPT !.num_reg_dependent = 0, !.reg_ready = TRUE,
                                        !.scheduled = v]
      BY <1>1, <3>1
    <3> QED
      BY <3>2 DEF Fields, SameOps
  <2>2. CASE k \notin Freed(i)
    <3>1. r[k] = [rob[k] EXCEPT !.num_reg_dependent = n]
      BY <2>2 DEF Releases, Release
    <3> HIDE DEF n, r
    <3>2. r[k] = [Fields(rob[k]) EXCEPT !.num_reg_dependent = n]
      BY <1>1, <3>1
    <3> QED
      BY <3>2 DEF Fields, SameOps
  <2> QED
    BY <2>1, <2>2
<1>3. Shaped(r)
  BY ReleasedFields
<1>4. rob' = WithExecuted(r, i, "COMPLETED")
  OBVIOUS
<1> HIDE DEF r
<1>5. \A k \in RobIndex : SameOps(rob'[k], r[k])
  BY <1>3, <1>4, FieldOps
<1> QED
  BY <1>2, <1>5 DEF SameOps

LEMMA ScheduleMem ==
  ASSUME CInv, MInv, Schedule
  PROVE  MInv'
<1>1. PICK i \in head .. RobSize - 1 :
        /\ rob[i].fetched = "COMPLETED" /\ rob[i].scheduled = "no"
        /\ rob' = Linked(i)
        /\ rte' = IF Waits(i) = {} /\ ~IsMemory(i)
                  THEN [rte EXCEPT ![2] = Append(@, i)] ELSE rte
        /\ next_schedule' = Next1(i, RobSize)
  <2>1. head \in 0 .. RobSize - 1 /\ RobSize \in Nat
    BY CoreSizes DEF CInv, Types, RobIndex
  <2>2. \A i \in head .. RobSize - 1 : i \in head .. i
    BY <2>1
  <2> QED
    BY <2>2 DEF Schedule, Linked, Links, StageOf, On, Waits
<1>2. i \in RobIndex /\ head \in RobIndex
  BY <1>1, CoreSizes DEF CInv, Types, RobIndex
<1>3. UNCHANGED <<program, instr_unique_id, head, rtl, rts, lq, sq,
                  sq_head, sq_tail, sta, inflight, memory, seen>>
  BY DEF Schedule, front, history
<1>4. Shaped(rob) /\ rob' = Linked(i)
  BY <1>1 DEF CInv, Types
<1>5. \A k \in RobIndex :
        /\ SameId(rob'[k], rob[k]) /\ SameFetch(rob'[k], rob[k])
        /\ SameQueues(rob'[k], rob[k]) /\ rob'[k].executed = rob[k].executed
        /\ rob'[k].reg_ready = IF k = i THEN (Waits(i) = {}) ELSE rob[k].reg_ready
        /\ rob'[k].scheduled = IF k = i THEN StageOf(i) ELSE rob[k].scheduled
  BY <1>2, <1>4, LinkedFields
<1>6. \A k \in RobIndex : SameOps(rob'[k], rob[k])
  BY <1>2, <1>4, LinkedOps
<1>7. SameOrder
  BY <1>3, <1>5 DEF SameOrder
<1>8. MemTypes'
  <2>1. next_schedule' \in RobIndex
    BY <1>1, <1>2, NextValue
  <2>2. Indices(rob)'
    BY <1>3, <1>5, <1>6, <1>7, OpsFrame DEF MInv, MemTypes, Counting
  <2> QED
    BY <1>3, <2>1, <2>2 DEF MInv, MemTypes
<1>9. StageTypes'
  <2>1. StageOf(i) \in Stage
    BY DEF StageOf, Stage
  <2> QED
    BY <1>5, <2>1 DEF MInv, StageTypes, SameFetch
<1>10. ReadyListed'
  <2>1. ASSUME NEW k \in RobIndex,
               Busy(k)', ~IsMemory(k)', rob'[k].reg_ready,
               rob'[k].scheduled = "COMPLETED", rob'[k].executed = "no"
        PROVE  \E n \in 1 .. 2 : \E x \in 1 .. Len(rte'[n]) : rte'[n][x] = k
    <3>1. Busy(k) /\ ~IsMemory(k)
      <4>1. Busy(k)' <=> Busy(k)
        BY <1>7, SameProgram
      <4>2. IsMemory(k)' <=> IsMemory(k)
        BY <1>7, SameProgram
      <4> QED
        BY <2>1, <4>1, <4>2
    <3>2. /\ rte = <<rte[1], rte[2]>>
          /\ rte[1] \in Seq(RobIndex) /\ rte[2] \in Seq(RobIndex) /\ Len(rte[2]) \in Nat
      BY LenProperties DEF CInv, Types
    <3> DEFINE t == Append(rte[2], i)
    <3>3. /\ Len(t) = Len(rte[2]) + 1 /\ t[Len(rte[2]) + 1] = i
          /\ \A x \in 1 .. Len(rte[2]) : t[x] = rte[2][x]
      BY <1>2, <3>2, AppendProperties
    <3> HIDE DEF t
    <3>4. \/ rte' = <<rte[1], t>>
          \/ rte' = rte /\ ~(Waits(i) = {} /\ ~IsMemory(i))
      <4>1. CASE Waits(i) = {} /\ ~IsMemory(i)
        <5>1. rte' = [rte EXCEPT ![2] = t]
          BY <1>1, <4>1 DEF t
        <5>2. rte = <<rte[1], rte[2]>>
          BY <3>2
        <5>3. rte' = <<rte[1], t>>
          BY <5>1, <5>2
        <5> QED
          BY <5>3
      <4>2. CASE ~(Waits(i) = {} /\ ~IsMemory(i))
        BY <1>1, <4>2
      <4> QED
        BY <4>1, <4>2
    <3>5. CASE k = i
      <4>1. Waits(i) = {} /\ ~IsMemory(i)
        <5>1. rob'[i].reg_ready = (Waits(i) = {})
          BY <1>2, <1>5
        <5>2. rob'[i].reg_ready
          BY <2>1, <3>5
        <5>3. Waits(i) = {}
          BY <5>1, <5>2, Zenon
        <5> QED
          BY <3>1, <3>5, <5>3
      <4>2. rte' = <<rte[1], t>>
        BY <3>4, <4>1
      <4>3. 2 \in 1 .. 2 /\ rte'[2] = t /\ Len(rte[2]) + 1 \in 1 .. Len(t)
        BY <3>2, <3>3, <4>2
      <4> QED
        BY <3>3, <3>5, <4>3
    <3>6. CASE k # i
      <4>1. rob[k].reg_ready /\ rob[k].scheduled = "COMPLETED" /\ rob[k].executed = "no"
        BY <1>5, <2>1, <3>6
      <4>2. PICK n \in 1 .. 2 : \E x \in 1 .. Len(rte[n]) : rte[n][x] = k
        BY <3>1, <4>1 DEF MInv, ReadyListed
      <4>3. PICK x \in 1 .. Len(rte[n]) : rte[n][x] = k
        BY <4>2
      <4>4. CASE rte' = rte
        BY <4>3, <4>4
      <4>5. CASE rte' = <<rte[1], t>>
        <5>1. CASE n = 1
          <6>1. rte'[1] = rte[1]
            BY <4>5
          <6> QED
            BY <4>3, <5>1, <6>1
        <5>2. CASE n = 2
          <6>1. rte'[2] = t
            BY <4>5
          <6>2. x \in 1 .. Len(t) /\ t[x] = k
            BY <3>2, <3>3, <4>3, <5>2
          <6> QED
            BY <5>2, <6>1, <6>2
        <5> QED
          BY <5>1, <5>2
      <4> QED
        BY <3>4, <4>4, <4>5
    <3> QED
      BY <3>5, <3>6
  <2> QED
    BY <2>1 DEF ReadyListed
<1>11. LoadSide'
  BY <1>3, <1>5, <1>6, <1>7, LoadFrame DEF MInv, SameOps
<1>12. StoreSide'
  BY <1>3, <1>5, <1>7, StoreFrame DEF MInv
<1>13. Counting'
  BY <1>3, <1>5, <1>6, <1>7, CountFrame DEF MInv, MemTypes
<1>14. History'
  BY <1>3, <1>7, HistoryFrame DEF MInv
<1> QED
  BY <1>8, <1>9, <1>10, <1>11, <1>12, <1>13, <1>14 DEF MInv

LEMMA FiniteIndices ==
  /\ \A S \in SUBSET RobIndex : IsFiniteSet(S)
  /\ \A S \in SUBSET LqIndex : IsFiniteSet(S)
  /\ \A S \in SUBSET SqIndex : IsFiniteSet(S)
<1>1. RobSize - 1 \in Int /\ LqSize - 1 \in Int /\ SqSize - 1 \in Int /\ 0 \in Int
  BY CoreSizes
<1>2. IsFiniteSet(RobIndex) /\ IsFiniteSet(LqIndex) /\ IsFiniteSet(SqIndex)
  BY <1>1, FS_Interval DEF RobIndex, LqIndex, SqIndex
<1> QED
  BY <1>2, FS_Subset

LEMMA ExecuteMem ==
  ASSUME CInv, MInv, NEW n \in 1 .. 2, Execute(n)
  PROVE  MInv'
<1> DEFINE h == rte[n][1]
           t == Tail(rte[n])
<1>1. /\ rte[n] \in Seq(RobIndex) /\ rte[n] # <<>>
      /\ rte = <<rte[1], rte[2]>>
      /\ rte[1] \in Seq(RobIndex) /\ rte[2] \in Seq(RobIndex)
  BY DEF CInv, Types, Execute
<1>2. /\ Len(rte[n]) \in Nat /\ 1 \in 1 .. Len(rte[n])
      /\ Head(rte[n]) = h /\ h \in RobIndex
      /\ t \in Seq(RobIndex) /\ Len(t) = Len(rte[n]) - 1
      /\ \A x \in 1 .. Len(rte[n]) - 1 : t[x] = rte[n][x + 1]
  BY <1>1, HeadTailProperties, LenProperties, EmptySeq, ElementOfSeq
<1>3. /\ rob' = WithExecuted(rob, h, "INFLIGHT")
      /\ rte' = [rte EXCEPT ![n] = t]
      /\ inflight' = [inflight EXCEPT !.reg = @ + 1]
      /\ UNCHANGED <<program, instr_unique_id, head, next_schedule, rtl, rts, lq, sq,
                     sq_head, sq_tail, sta, memory, seen>>
  BY <1>2 DEF Execute, WithExecuted, front, history
<1>4. Busy(h) /\ ~IsMemory(h) /\ rob[h].executed = "no"
  BY <1>2 DEF CInv, BackEnd, Lists
<1> HIDE DEF h, t
<1>5. Shaped(rob)
  BY DEF CInv, Types
<1>6. /\ \A k \in RobIndex :
           /\ SameId(rob'[k], rob[k]) /\ SameFetch(rob'[k], rob[k])
           /\ SameSched(rob'[k], rob[k]) /\ SameQueues(rob'[k], rob[k])
           /\ rob'[k].executed = IF k = h THEN "INFLIGHT" ELSE rob[k].executed
  BY <1>2, <1>3, <1>5, SetExecuted
<1>7. \A k \in RobIndex : SameOps(rob'[k], rob[k])
  BY <1>2, <1>3, <1>5, FieldOps
<1>8. SameOrder
  BY <1>3, <1>6 DEF SameOrder
<1>9. \A k \in RobIndex : Busy(k)' <=> Busy(k)
  BY <1>8, SameProgram
<1>10. \A k \in RobIndex : IsMemory(k)' <=> IsMemory(k)
  BY <1>8, SameProgram
<1>11. inflight' = [reg |-> inflight.reg + 1, mem |-> inflight.mem]
       /\ inflight.reg \in Int /\ inflight.mem \in Int
  BY <1>3 DEF MInv, MemTypes
<1>12. MemTypes'
  <2>1. inflight' \in [reg : Int, mem : Int]
    BY <1>11
  <2> QED
    BY <1>3, <1>6, <1>7, <1>8, <2>1, TypesFrame DEF MInv
<1>13. StageTypes'
  BY <1>6 DEF MInv, StageTypes, SameSched, SameFetch, Stage
<1>14. ReadyListed'
  <2>1. ASSUME NEW k \in RobIndex,
               Busy(k)', ~IsMemory(k)', rob'[k].reg_ready,
               rob'[k].scheduled = "COMPLETED", rob'[k].executed = "no"
        PROVE  \E m \in 1 .. 2 : \E x \in 1 .. Len(rte'[m]) : rte'[m][x] = k
    <3>1. Busy(k) /\ ~IsMemory(k)
      <4>1. Busy(k)' <=> Busy(k)
        BY <1>9
      <4>2. IsMemory(k)' <=> IsMemory(k)
        BY <1>10
      <4> QED
        BY <2>1, <4>1, <4>2
    <3>2. k # h
      BY <1>2, <1>6, <2>1
    <3>3. rob[k].reg_ready /\ rob[k].scheduled = "COMPLETED" /\ rob[k].executed = "no"
      BY <1>6, <2>1, <3>2 DEF SameSched
    <3>4. PICK m \in 1 .. 2 : \E x \in 1 .. Len(rte[m]) : rte[m][x] = k
      BY <3>1, <3>3 DEF MInv, ReadyListed
    <3>5. PICK x \in 1 .. Len(rte[m]) : rte[m][x] = k
      BY <3>4
    <3>6. CASE m # n
      <4>1. rte'[m] = rte[m]
        BY <1>1, <1>3, <3>6
      <4> QED
        BY <3>5, <4>1
    <3>7. CASE m = n
      <4>1. rte'[m] = t
        BY <1>1, <1>3, <3>7
      <4>2. x # 1
        BY <3>2, <3>5, <3>7 DEF h
      <4>3. x - 1 \in 1 .. Len(rte[n]) - 1 /\ x - 1 + 1 = x
        BY <1>2, <3>5, <3>7, <4>2
      <4>4. x - 1 \in 1 .. Len(t) /\ t[x - 1] = k
        BY <1>2, <3>5, <3>7, <4>3
      <4> QED
        BY <4>1, <4>4
    <3> QED
      BY <3>6, <3>7
  <2> QED
    BY <2>1 DEF ReadyListed
<1>15. LoadSide'
  BY <1>3, <1>6, <1>7, <1>8, LoadFrame DEF MInv, SameOps
<1>16. StoreSide'
  BY <1>3, <1>6, <1>8, StoreFrame DEF MInv
<1>17. Counting'
  <2>1. OpsLeft(rob, lq, sq)'
    BY <1>3, <1>6, <1>7, <1>8, OpsFrame DEF MInv, MemTypes, Counting
  <2>2. \A k \in RobIndex : Loads(k)' = Loads(k) /\ Stores(k)' = Stores(k)
    BY <1>8, SameProgram
  <2>3. Executes(rob)'
    <3>1. \A k \in RobIndex : IsMemory(k)' => IsMemory(k) /\ rob'[k].executed = rob[k].executed
      BY <1>4, <1>6, <1>10
    <3> QED
      BY <1>6, <1>7, <2>2, <3>1 DEF MInv, Counting, Executes, SameQueues, SameOps
  <2>4. Running' = Running \cup {h} /\ h \notin Running
    <3>1. \A k \in RobIndex : k \in Running' <=> k \in Running \/ k = h
      BY <1>4, <1>6, <1>9, <1>10 DEF Running
    <3>2. Running \in SUBSET RobIndex /\ Running' \in SUBSET RobIndex
      BY DEF Running
    <3>3. h \notin Running
      BY <1>4 DEF Running
    <3> QED
      BY <1>2, <3>1, <3>2, <3>3
  <2>5. Cardinality(Running') = Cardinality(Running) + 1
    <3>1. IsFiniteSet(Running)
      BY FiniteIndices DEF Running
    <3> QED
      BY <2>4, <3>1, FS_AddElement
  <2>6. Finishes(rob)' = Finishes(rob)
    <3>1. \A k \in RobIndex : IsMemory(k)' => rob'[k].executed = rob[k].executed
      BY <1>4, <1>6, <1>10
    <3> QED
      BY <1>7, <1>10, <3>1 DEF Finishes, SameOps
  <2>7. inflight.reg = Cardinality(Running) /\ inflight.mem = Cardinality(Finishes(rob))
    BY DEF MInv, Counting
  <2> QED
    BY <1>11, <2>1, <2>3, <2>5, <2>6, <2>7 DEF Counting
<1>18. History'
  BY <1>3, <1>8, HistoryFrame DEF MInv
<1> QED
  BY <1>12, <1>13, <1>14, <1>15, <1>16, <1>17, <1>18 DEF MInv

LEMMA CompleteMem ==
  ASSUME CInv, MInv, NEW i \in RobIndex, CompleteExecution(i)
  PROVE  MInv'
<1> DEFINE S == {d \in Freed(i) : ~IsMemory(d)}
<1>1. /\ Busy(i) /\ rob[i].executed = "INFLIGHT"
      /\ IsMemory(i) => rob[i].num_mem_ops = 0
      /\ rob' = WithExecuted(Releases(i), i, "COMPLETED")
      /\ \E o \in Increasing(S) : rte' = [rte EXCEPT ![1] = @ \o o]
      /\ inflight' = IF IsMemory(i) THEN [inflight EXCEPT !.mem = @ - 1]
                                    ELSE [inflight EXCEPT !.reg = @ - 1]
      /\ UNCHANGED <<program, instr_unique_id, head, next_schedule, rtl, rts, lq, sq,
                     sq_head, sq_tail, sta, memory, seen>>
  BY DEF CompleteExecution, WithExecuted, Releases, Release, Freed, Left, OfSource,
         front, history
<1>2. PICK o \in Increasing(S) : rte' = [rte EXCEPT ![1] = @ \o o]
  BY <1>1
<1>3. S \in SUBSET RobIndex
  BY DEF Freed
<1> HIDE DEF S
<1>4. Shaped(rob) /\ rob' = WithExecuted(Releases(i), i, "COMPLETED")
  BY <1>1 DEF CInv, Types
<1>5. \A k \in RobIndex :
        /\ SameId(rob'[k], rob[k]) /\ SameFetch(rob'[k], rob[k])
        /\ SameQueues(rob'[k], rob[k])
        /\ rob'[k].executed = IF k = i THEN "COMPLETED" ELSE rob[k].executed
        /\ rob'[k].reg_ready = IF k \in Freed(i) THEN TRUE ELSE rob[k].reg_ready
        /\ rob'[k].scheduled = IF k \in Freed(i) THEN StageOf(k) ELSE rob[k].scheduled
  BY <1>4, CompletedFields
<1>6. \A k \in RobIndex : SameOps(rob'[k], rob[k])
  BY <1>4, CompletedOps
<1>7. SameOrder
  BY <1>1, <1>5 DEF SameOrder
<1>8. \A k \in RobIndex : Busy(k)' <=> Busy(k)
  BY <1>7, SameProgram
<1>9. \A k \in RobIndex : IsMemory(k)' <=> IsMemory(k)
  BY <1>7, SameProgram
<1>10. /\ inflight' = IF IsMemory(i)
                      THEN [reg |-> inflight.reg, mem |-> inflight.mem - 1]
                      ELSE [reg |-> inflight.reg - 1, mem |-> inflight.mem]
       /\ inflight.reg \in Int /\ inflight.mem \in Int
  BY <1>1 DEF MInv, MemTypes
<1>11. MemTypes'
  <2>1. inflight' \in [reg : Int, mem : Int]
    BY <1>10
  <2> QED
    BY <1>1, <1>5, <1>6, <1>7, <2>1, TypesFrame DEF MInv
<1>12. StageTypes'
  BY <1>5 DEF MInv, StageTypes, SameFetch, Stage, StageOf
\* The two lists after the step.
<1>13. /\ rte = <<rte[1], rte[2]>>
       /\ rte[1] \in Seq(RobIndex) /\ rte[2] \in Seq(RobIndex)
  BY DEF CInv, Types
<1>14. /\ o \in Seq(RobIndex) /\ Len(o) \in Nat
       /\ \A e \in S : \E x \in 1 .. Len(o) : o[x] = e
  BY <1>2, <1>3, IncreasingSeq
<1> DEFINE T == rte[1] \o o
<1>15. /\ Len(T) = Len(rte[1]) + Len(o) /\ Len(rte[1]) \in Nat
       /\ \A x \in 1 .. Len(T) : T[x] = IF x <= Len(rte[1]) THEN rte[1][x]
                                        ELSE o[x - Len(rte[1])]
  BY <1>13, <1>14, ConcatProperties, LenProperties
<1>16. rte' = <<T, rte[2]>>
  <2>1. rte' = [rte EXCEPT ![1] = T]
    BY <1>2
  <2> HIDE DEF T
  <2> QED
    BY <1>13, <2>1
<1> HIDE DEF T
<1>17. ReadyListed'
  <2>1. ASSUME NEW k \in RobIndex,
               Busy(k)', ~IsMemory(k)', rob'[k].reg_ready,
               rob'[k].scheduled = "COMPLETED", rob'[k].executed = "no"
        PROVE  \E m \in 1 .. 2 : \E x \in 1 .. Len(rte'[m]) : rte'[m][x] = k
    <3>1. Busy(k) /\ ~IsMemory(k)
      <4>1. Busy(k)' <=> Busy(k)
        BY <1>8
      <4>2. IsMemory(k)' <=> IsMemory(k)
        BY <1>9
      <4> QED
        BY <2>1, <4>1, <4>2
    <3>2. k # i /\ rob[k].executed = "no"
      BY <1>5, <2>1
    <3>3. 1 \in 1 .. 2 /\ 2 \in 1 .. 2 /\ rte'[1] = T /\ rte'[2] = rte[2]
      BY <1>16
    <3>4. CASE k \in Freed(i)
      <4>1. PICK x \in 1 .. Len(o) : o[x] = k
        BY <1>14, <3>1, <3>4 DEF S
      <4>2. PICK y : y = Len(rte[1]) + x
        OBVIOUS
      <4>3. /\ Len(T) = Len(rte[1]) + Len(o) /\ Len(rte[1]) \in Nat
            /\ Len(o) \in Nat /\ x \in 1 .. Len(o)
        BY <1>14, <1>15, <4>1
      <4>4. y \in 1 .. Len(T) /\ ~(y <= Len(rte[1])) /\ y - Len(rte[1]) = x
        BY <4>2, <4>3
      <4>5. T[y] = o[y - Len(rte[1])]
        BY <1>15, <4>4
      <4>6. T[y] = k
        BY <4>1, <4>4, <4>5
      <4> QED
        BY <3>3, <4>4, <4>6
    <3>5. CASE k \notin Freed(i)
      <4>1. rob[k].reg_ready /\ rob[k].scheduled = "COMPLETED"
        BY <1>5, <2>1, <3>5
      <4>2. PICK m \in 1 .. 2 : \E x \in 1 .. Len(rte[m]) : rte[m][x] = k
        BY <3>1, <3>2, <4>1 DEF MInv, ReadyListed
      <4>3. PICK x \in 1 .. Len(rte[m]) : rte[m][x] = k
        BY <4>2
      <4>4. CASE m = 1
        <5>1. x \in 1 .. Len(T) /\ T[x] = k
          BY <1>14, <1>15, <4>3, <4>4
        <5> QED
          BY <3>3, <5>1
      <4>5. CASE m = 2
        BY <3>3, <4>3, <4>5
      <4> QED
        BY <4>4, <4>5
    <3> QED
      BY <3>4, <3>5
  <2> QED
    BY <2>1 DEF ReadyListed
<1>18. LoadSide'
  BY <1>1, <1>5, <1>6, <1>7, LoadFrame DEF MInv, SameOps
<1>19. StoreSide'
  BY <1>1, <1>5, <1>7, StoreFrame DEF MInv
<1>20. Counting'
  <2>1. OpsLeft(rob, lq, sq)'
    BY <1>1, <1>5, <1>6, <1>7, OpsFrame DEF MInv, MemTypes, Counting
  <2>2. \A k \in RobIndex : Loads(k)' = Loads(k) /\ Stores(k)' = Stores(k)
    BY <1>7, SameProgram
  <2>3. Executes(rob)'
    <3>1. ASSUME NEW k \in RobIndex, IsMemory(k)'
          PROVE  /\ rob'[k].executed # "no" =>
                      /\ \A j \in 1 .. Loads(k)' : rob'[k].lq_index[j] # NoIndex
                      /\ \A m \in 1 .. Stores(k)' : rob'[k].sq_index[m] # NoIndex
                 /\ rob'[k].executed = "COMPLETED" => rob'[k].num_mem_ops = 0
      <4>1. IsMemory(k)
        <5>1. IsMemory(k)' <=> IsMemory(k)
          BY <1>9
        <5> QED
          BY <3>1, <5>1
      <4>2. /\ rob[k].executed # "no" =>
                 /\ \A j \in 1 .. Loads(k) : rob[k].lq_index[j] # NoIndex
                 /\ \A m \in 1 .. Stores(k) : rob[k].sq_index[m] # NoIndex
            /\ rob[k].executed = "COMPLETED" => rob[k].num_mem_ops = 0
        BY <4>1 DEF MInv, Counting, Executes
      <4>3. /\ rob'[k].lq_index = rob[k].lq_index /\ rob'[k].sq_index = rob[k].sq_index
            /\ rob'[k].num_mem_ops = rob[k].num_mem_ops
        BY <1>5, <1>6 DEF SameQueues, SameOps
      <4>4. /\ rob'[k].executed # "no" => rob[k].executed # "no"
            /\ rob'[k].executed = "COMPLETED" =>
                 rob[k].executed = "COMPLETED" \/ rob[k].num_mem_ops = 0
        BY <1>1, <1>5, <4>1
      <4> QED
        BY <2>2, <4>2, <4>3, <4>4
    <3> QED
      BY <3>1 DEF Executes
  <2>4. Running' = Running \ {i} /\ Running \in SUBSET RobIndex
    <3>1. \A k \in RobIndex : k \in Running' <=> k \in Running /\ k # i
      BY <1>1, <1>5, <1>8, <1>9 DEF Running
    <3>2. Running \in SUBSET RobIndex /\ Running' \in SUBSET RobIndex
      BY DEF Running
    <3> QED
      BY <3>1, <3>2
  <2>5. Finishes(rob)' = Finishes(rob) \ {i} /\ Finishes(rob) \in SUBSET RobIndex
    <3>1. \A k \in RobIndex : k \in Finishes(rob)' <=> k \in Finishes(rob) /\ k # i
      BY <1>1, <1>5, <1>6, <1>9 DEF Finishes, SameOps
    <3>2. Finishes(rob) \in SUBSET RobIndex /\ Finishes(rob)' \in SUBSET RobIndex
      BY DEF Finishes
    <3> QED
      BY <3>1, <3>2
  <2>6. IsFiniteSet(Running) /\ IsFiniteSet(Finishes(rob))
    BY <2>4, <2>5, FiniteIndices
  <2>7. inflight.reg = Cardinality(Running) /\ inflight.mem = Cardinality(Finishes(rob))
    BY DEF MInv, Counting
  <2>8. CASE IsMemory(i)
    <3>1. i \in Finishes(rob) /\ i \notin Running
      BY <1>1, <2>8 DEF Finishes, Running
    <3>2. Running \ {i} = Running
      BY <3>1
    <3>3. Cardinality(Finishes(rob) \ {i}) = Cardinality(Finishes(rob)) - 1
      BY <2>6, <3>1, FS_RemoveElement
    <3> QED
      BY <1>10, <2>1, <2>3, <2>4, <2>5, <2>7, <2>8, <3>2, <3>3 DEF Counting
  <2>9. CASE ~IsMemory(i)
    <3>1. i \notin Finishes(rob) /\ i \in Running
      BY <1>1, <2>9 DEF Finishes, Running
    <3>2. Finishes(rob) \ {i} = Finishes(rob)
      BY <3>1
    <3>3. Cardinality(Running \ {i}) = Cardinality(Running) - 1
      BY <2>6, <3>1, FS_RemoveElement
    <3> QED
      BY <1>10, <2>1, <2>3, <2>4, <2>5, <2>7, <2>9, <3>2, <3>3 DEF Counting
  <2> QED
    BY <2>8, <2>9
<1>21. History'
  BY <1>1, <1>7, HistoryFrame DEF MInv
<1> QED
  BY <1>11, <1>12, <1>17, <1>18, <1>19, <1>20, <1>21 DEF MInv

LEMMA DecodedQueues ==
  ASSUME NEW id, NEW miss
  PROVE  LET r == Decoded(id, miss)
             op == program[id]
         IN /\ r.num_mem_ops = Len(op.loads) + Len(op.stores)
            /\ r.mem_depend_on_me = {}
            /\ r.lq_index = [j \in DOMAIN op.loads |-> NoIndex]
            /\ r.sq_index = [k \in DOMAIN op.stores |-> NoIndex]
            /\ r.got = [j \in DOMAIN op.loads |-> NoValue]
<1> DEFINE l == [j \in DOMAIN program[id].loads |-> NoIndex]
           s == [k \in DOMAIN program[id].stores |-> NoIndex]
           g == [j \in DOMAIN program[id].loads |-> NoValue]
           n == Len(program[id].loads) + Len(program[id].stores)
           r == Decoded(id, miss)
<1>1. r = [EmptyInstr EXCEPT
             !.id = id, !.mispredicted = miss, !.num_mem_ops = n,
             !.lq_index = l, !.sq_index = s, !.got = g]
  BY DEF Decoded
<1> HIDE DEF l, s, g, n, r
<1>2. /\ r.num_mem_ops = n /\ r.mem_depend_on_me = {}
      /\ r.lq_index = l /\ r.sq_index = s /\ r.got = g
  BY <1>1 DEF EmptyInstr
<1> QED
  BY <1>2 DEF l, s, g, n, r

\* The instruction read goes behind all others.
LEMMA BranchFacts ==
  ASSUME CInv, HandleBranch
  PROVE  /\ instr_unique_id \in 1 .. Len(program) /\ program[instr_unique_id] \in Instr
         /\ tail \in RobIndex /\ ~Busy(tail) /\ rob'[tail].id = instr_unique_id
         /\ \A k \in RobIndex : /\ k # tail => rob'[k] = rob[k]
                                /\ Age(k)' = Age(k)
                                /\ Busy(k) => Age(k) < Age(tail)
                                /\ Busy(k) => rob[k].id \in Nat /\ rob[k].id < instr_unique_id
         /\ \E miss \in BOOLEAN : rob'[tail] = Decoded(instr_unique_id, miss)
         /\ (~Busy(head) <=> tail = head)
<1> DEFINE id == instr_unique_id
<1>1. /\ head \in RobIndex /\ tail \in RobIndex /\ RobSize \in Nat /\ RobSize >= 2
      /\ id \in 1 .. Len(program) /\ Len(program) \in Nat
      /\ program[id] \in Instr /\ program[id].branch \in BOOLEAN
  <2>1. program \in Seq(Instr)
    BY ProgramsAreTraces DEF CInv, Types
  <2>2. Len(program) \in Nat
    BY <2>1, LenProperties
  <2>3. id \in 1 .. Len(program)
    BY <2>2 DEF HandleBranch, CInv, Types
  <2>4. program[id] \in Instr
    BY <2>1, <2>3, ElementOfSeq
  <2> QED
    BY <2>2, <2>3, <2>4, CoreSizes DEF CInv, Types, Instr
<1>2. PICK miss \in BOOLEAN : rob' = [rob EXCEPT ![tail] = Decoded(id, miss)]
  BY <1>1 DEF HandleBranch
<1>3. rob'[tail] = Decoded(id, miss) /\ \A k \in RobIndex : k # tail => rob'[k] = rob[k]
  <2> DEFINE new == Decoded(id, miss)
  <2>1. rob' = [rob EXCEPT ![tail] = new]
    BY <1>2
  <2> HIDE DEF new
  <2>2. rob'[tail] = new /\ \A k \in RobIndex : k # tail => rob'[k] = rob[k]
    BY <1>1, <2>1 DEF CInv, Types, Shaped
  <2> QED
    BY <2>2 DEF new
<1>4. Decoded(id, miss).id = id
  BY DecodedFields
<1>5. PICK n \in 0 .. RobSize, t \in 0 .. RobSize, f \in 0 .. RobSize : Window(n, t, f)
  BY DEF CInv, FrontEnd
<1>6. n < RobSize /\ Age(tail) = n /\ n < id
  <2>1. id \in Nat /\ Occupancy < RobSize
    BY <1>1 DEF HandleBranch
  <2> QED
    BY <1>1, <1>5, <2>1, RoomInWindow DEF Window
<1>7. \A k \in RobIndex : /\ Age(k)' = Age(k) /\ Age(k) \in 0 .. RobSize - 1
                          /\ rob[k].id = IF Age(k) < n THEN id - n + Age(k) ELSE 0
  <2>1. head' = head
    BY DEF HandleBranch
  <2> QED
    BY <1>1, <1>5, <2>1, AgeValue DEF Age, Window
<1>8. \A k \in RobIndex : /\ Busy(k) <=> Age(k) < n
                          /\ Busy(k) => rob[k].id \in Nat /\ rob[k].id < id
  BY <1>1, <1>6, <1>7 DEF Busy
<1>9. rob'[tail].id = instr_unique_id
  BY <1>3, <1>4
<1>10. ~Busy(head) <=> tail = head
  <2>1. Age(head) = 0 /\ (tail = head <=> Age(head) = n)
    BY <1>1, <1>6, HeadAge, AgeInjective
  <2> QED
    BY <1>1, <1>6, <1>8, <2>1
<1> QED
  BY <1>1, <1>3, <1>6, <1>7, <1>8, <1>9, <1>10

LEMMA BranchMem ==
  ASSUME CInv, MInv, HandleBranch
  PROVE  MInv'
<1> DEFINE id == instr_unique_id
           op == program[id]
<1>1. /\ id \in 1 .. Len(program) /\ op \in Instr /\ id \in Nat
      /\ tail \in RobIndex /\ ~Busy(tail) /\ rob'[tail].id = id
      /\ \A k \in RobIndex : /\ k # tail => rob'[k] = rob[k]
                             /\ Age(k)' = Age(k)
                             /\ Busy(k) => Age(k) < Age(tail)
                             /\ Busy(k) => rob[k].id \in Nat /\ rob[k].id < id
      /\ (~Busy(head) <=> tail = head)
  BY BranchFacts
<1>2. UNCHANGED <<program, head, next_schedule, rte, rtl, rts, lq, sq, sq_head, sq_tail,
                  inflight, memory, seen>>
  BY DEF HandleBranch, lists, history
<1>3. /\ sta' = sta \o [k \in DOMAIN op.stores |-> id]
      /\ id' = id + 1
  BY DEF HandleBranch
<1>4. PICK miss \in BOOLEAN : rob'[tail] = Decoded(id, miss)
  BY BranchFacts
<1> DEFINE new == rob'[tail]
<1>5. /\ new.translated = "no" /\ new.fetched = "no"
      /\ new.scheduled = "no" /\ new.executed = "no" /\ new.reg_ready = FALSE
      /\ new.num_mem_ops = Len(op.loads) + Len(op.stores)
      /\ new.mem_depend_on_me = {}
      /\ new.lq_index = [j \in DOMAIN op.loads |-> NoIndex]
      /\ new.sq_index = [k \in DOMAIN op.stores |-> NoIndex]
  <2> DEFINE r == Decoded(id, miss)
  <2>1. /\ r = Fields(r)
        /\ r.id = id /\ r.mispredicted = miss
        /\ r.translated = "no" /\ r.fetched = "no"
        /\ r.scheduled = "no" /\ r.executed = "no"
        /\ r.reg_ready = FALSE /\ r.num_reg_dependent = 0 /\ r.regs_depend_on_me = {}
        /\ (Range(r.lq_index) \cup Range(r.sq_index)) \ {NoIndex} = {}
    BY DecodedFields
  <2>2. /\ r.num_mem_ops = Len(op.loads) + Len(op.stores)
        /\ r.mem_depend_on_me = {}
        /\ r.lq_index = [j \in DOMAIN op.loads |-> NoIndex]
        /\ r.sq_index = [k \in DOMAIN op.stores |-> NoIndex]
    BY DecodedQueues
  <2>3. new = r
    BY <1>4
  <2> HIDE DEF r, new
  <2> QED
    BY <2>1, <2>2, <2>3
<1>6. /\ op.loads \in Seq(Addr) /\ op.stores \in Seq(Addr)
      /\ Len(op.loads) \in Nat /\ Len(op.stores) \in Nat
      /\ DOMAIN op.loads = 1 .. Len(op.loads) /\ DOMAIN op.stores = 1 .. Len(op.stores)
  <2>1. op.loads \in Seq(Addr) /\ op.stores \in Seq(Addr)
    BY <1>1 DEF Instr
  <2> QED
    BY <2>1, LenProperties
<1> HIDE DEF id, op, new
<1>7. \A k \in RobIndex : k # tail => /\ Busy(k)' <=> Busy(k)
                                      /\ Op(k)' = Op(k)
  BY <1>1, <1>2 DEF Busy, Op
<1>8. \A k \in RobIndex : k = tail => /\ Busy(k)' /\ Op(k)' = op
  BY <1>1, <1>2 DEF Busy, Op, op
<1>9. \A k \in RobIndex :
        /\ k # tail => Loads(k)' = Loads(k) /\ Stores(k)' = Stores(k)
        /\ k = tail => Loads(k)' = Len(op.loads) /\ Stores(k)' = Len(op.stores)
  BY <1>7, <1>8 DEF Loads, Stores
<1>10. \A k \in RobIndex : k # tail => (IsMemory(k)' <=> IsMemory(k))
  BY <1>7 DEF IsMemory
<1>11. \A k \in RobIndex : Busy(k) => /\ k # tail /\ Older(k)' = Older(k)
                                      /\ tail \notin Older(k)
                                      /\ \A a : StoresTo(k, a)' = StoresTo(k, a)
  <2>1. ASSUME NEW k \in RobIndex, Busy(k)
        PROVE  /\ k # tail /\ Older(k)' = Older(k) /\ tail \notin Older(k)
               /\ \A a : StoresTo(k, a)' = StoresTo(k, a)
    <3>1. k # tail
      BY <1>1, <2>1
    <3>2. Older(k)' = Older(k)
      BY <1>1 DEF Older
    <3>3. tail \notin Older(k)
      <4>1. \A m \in RobIndex : Age(m) \in Nat
        BY AgeValue DEF CInv, Types
      <4> QED
        BY <1>1, <2>1, <4>1 DEF Older
    <3>4. \A a : \A m \in RobIndex : m # tail => (Writes(m, a)' <=> Writes(m, a))
      BY <1>7 DEF Writes
    <3> QED
      BY <3>1, <3>2, <3>3, <3>4 DEF StoresTo, Older
  <2> QED
    BY <2>1
\* The parts of the invariant.
<1>12. /\ Indices(rob) /\ LoadLinks(rob, lq) /\ StoreLinks(rob, sq)
       /\ LoadWaits(rob, lq, sq) /\ StaOrder(sq, sta)
       /\ OpsLeft(rob, lq, sq) /\ Executes(rob)
  BY DEF MInv, MemTypes, LoadSide, StoreSide, Counting
<1>13. Indices(rob)'
  <2>1. ASSUME NEW k \in RobIndex
        PROVE  /\ rob'[k].num_mem_ops \in Int
               /\ rob'[k].mem_depend_on_me \subseteq RobIndex
               /\ rob'[k].lq_index \in [1 .. Loads(k)' -> LqIndex \cup {NoIndex}]
               /\ rob'[k].sq_index \in [1 .. Stores(k)' -> SqIndex \cup {NoIndex}]
    <3>1. CASE k # tail
      BY <1>1, <1>9, <1>12, <3>1 DEF Indices
    <3>2. CASE k = tail
      <4>1. rob'[k] = new
        BY <3>2 DEF new
      <4>2. new.num_mem_ops \in Int /\ new.mem_depend_on_me \subseteq RobIndex
        BY <1>5, <1>6
      <4>3. Loads(k)' = Len(op.loads) /\ Stores(k)' = Len(op.stores)
        BY <1>9, <3>2
      <4>4. /\ new.lq_index \in [1 .. Len(op.loads) -> LqIndex \cup {NoIndex}]
            /\ new.sq_index \in [1 .. Len(op.stores) -> SqIndex \cup {NoIndex}]
        BY <1>5, <1>6
      <4> QED
        BY <4>1, <4>2, <4>3, <4>4
    <3> QED
      BY <3>1, <3>2
  <2> QED
    BY <2>1 DEF Indices
<1> DEFINE t == [k \in DOMAIN op.stores |-> id]
<1>14. /\ t \in Seq(Nat) /\ Len(t) = Len(op.stores) /\ \A x \in 1 .. Len(t) : t[x] = id
  <2>1. t \in [1 .. Len(op.stores) -> Nat]
    BY <1>1, <1>6
  <2>2. t \in Seq(Nat)
    BY <1>6, <2>1, SeqDef
  <2>3. Len(t) = Len(op.stores)
    BY <1>6, <2>1, <2>2, LenProperties
  <2> QED
    BY <1>6, <2>2, <2>3
<1>a. sta' = sta \o t
  BY <1>3
<1> HIDE DEF t
<1>15. /\ sta \in Seq(Nat) /\ sta' \in Seq(Nat) /\ Len(sta) \in Nat /\ Len(t) \in Nat
       /\ Len(sta') = Len(sta) + Len(t)
       /\ \A x \in 1 .. Len(sta) + Len(t) :
            sta'[x] = IF x <= Len(sta) THEN sta[x] ELSE t[x - Len(sta)]
  <2>1. sta \in Seq(Nat)
    BY DEF MInv, MemTypes
  <2> DEFINE u == sta \o t
  <2>2. /\ u \in Seq(Nat) /\ Len(u) = Len(sta) + Len(t)
        /\ Len(sta) \in Nat /\ Len(t) \in Nat
        /\ \A x \in 1 .. Len(sta) + Len(t) :
             u[x] = IF x <= Len(sta) THEN sta[x] ELSE t[x - Len(sta)]
    <3>1. t \in Seq(Nat)
      BY <1>14
    <3> QED
      BY <2>1, <3>1, ConcatProperties, LenProperties
  <2>3. sta' = u
    BY <1>a
  <2> HIDE DEF u
  <2> QED
    BY <2>1, <2>2, <2>3
<1>16. MemTypes'
  BY <1>2, <1>13, <1>15 DEF MInv, MemTypes
<1>17. StageTypes'
  <2>1. ASSUME NEW k \in RobIndex
        PROVE  /\ rob'[k].translated \in Stage /\ rob'[k].fetched \in Stage
               /\ rob'[k].scheduled \in Stage /\ rob'[k].executed \in Stage
    <3>1. CASE k # tail
      BY <1>1, <3>1 DEF MInv, StageTypes
    <3>2. CASE k = tail
      BY <1>5, <3>2 DEF new, Stage
    <3> QED
      BY <3>1, <3>2
  <2> QED
    BY <2>1 DEF StageTypes
<1>18. ReadyListed'
  <2>1. ASSUME NEW k \in RobIndex,
               Busy(k)', ~IsMemory(k)', rob'[k].reg_ready,
               rob'[k].scheduled = "COMPLETED", rob'[k].executed = "no"
        PROVE  \E n \in 1 .. 2 : \E x \in 1 .. Len(rte[n]) : rte[n][x] = k
    <3>1. k # tail
      BY <1>5, <2>1 DEF new
    <3>2. Busy(k) /\ ~IsMemory(k) /\ rob'[k] = rob[k]
      BY <1>1, <1>7, <1>10, <2>1, <3>1
    <3> QED
      BY <2>1, <3>2 DEF MInv, ReadyListed
  <2> QED
    BY <1>2, <2>1 DEF ReadyListed
\* The load queue.
<1>19. \A q \in LqIndex : Used(lq, q) =>
         /\ lq[q].rob_index \in RobIndex /\ lq[q].rob_index # tail
         /\ Busy(lq[q].rob_index)
         /\ LoadAddr(lq[q])' = LoadAddr(lq[q])
  BY <1>1, <1>2, <1>7, <1>12 DEF LoadLinks, LoadAddr
<1>20. \A q \in SqIndex : Used(sq, q) =>
         /\ sq[q].rob_index \in RobIndex /\ sq[q].rob_index # tail
         /\ StoreAddr(sq[q])' = StoreAddr(sq[q])
         /\ StoreId(sq[q])' = StoreId(sq[q])
         /\ StoreId(sq[q]) \in Nat /\ StoreId(sq[q]) < id
  BY <1>1, <1>2, <1>7, <1>12 DEF StoreLinks, StoreAddr, StoreId
<1>21. LoadLinks(rob, lq)'
  BY <1>1, <1>2, <1>7, <1>9, <1>12, <1>19 DEF LoadLinks, Used
<1>22. LoadWaits(rob, lq, sq)'
  <2>1. \A k, i \in RobIndex : \A a :
          Busy(i) => StoresTo(i, a)' = StoresTo(i, a) /\ tail \notin StoresTo(i, a)
    BY <1>11 DEF StoresTo
  <2>2. \A k, i \in RobIndex : \A a :
          Busy(i) /\ LastStore(k, i, a)' => LastStore(k, i, a) /\ k # tail
    BY <1>1, <2>1 DEF LastStore, StoresTo, Older
  <2> QED
    BY <1>1, <1>2, <1>12, <1>19, <1>20, <2>1, <2>2
       DEF LoadWaits, Follows, Unstored, Used
<1>23. LoadSide'
  <2>1. /\ Enumerates(rtl[1], Sending(lq, LqIndex))'
        /\ Enumerates(rtl[2], Reading(lq, LqIndex))'
    BY <1>2 DEF MInv, LoadSide, Enumerates, Sending, Reading, Used
  <2> QED
    BY <1>21, <1>22, <2>1 DEF LoadSide
\* The store queue.
<1>24. StoreLinks(rob, sq)'
  <2>1. ASSUME NEW q \in SqIndex, Used(sq, q)
        PROVE  LET e == sq[q] IN
               /\ e.rob_index \in RobIndex /\ Busy(e.rob_index)'
               /\ e.data_index \in 1 .. Stores(e.rob_index)'
               /\ rob'[e.rob_index].sq_index[e.data_index] = q
               /\ e.translated # "COMPLETED" => e.fetched = "no"
    <3>1. /\ sq[q].rob_index \in RobIndex /\ Busy(sq[q].rob_index)
          /\ sq[q].data_index \in 1 .. Stores(sq[q].rob_index)
          /\ rob[sq[q].rob_index].sq_index[sq[q].data_index] = q
          /\ sq[q].translated # "COMPLETED" => sq[q].fetched = "no"
      BY <1>12, <2>1 DEF StoreLinks
    <3>2. sq[q].rob_index # tail /\ sq'[q] = sq[q]
      BY <1>2, <1>20, <2>1
    <3>3. Busy(sq[q].rob_index)' <=> Busy(sq[q].rob_index)
      <4>1. PICK k \in RobIndex : k = sq[q].rob_index
        BY <3>1
      <4>2. Busy(k)' <=> Busy(k)
        BY <1>7, <3>2, <4>1
      <4> QED
        BY <3>2, <4>1, <4>2 DEF Busy
    <3>4. Stores(sq[q].rob_index)' = Stores(sq[q].rob_index)
      <4>1. PICK k \in RobIndex : k = sq[q].rob_index
        BY <3>1
      <4>2. Stores(k)' = Stores(k)
        BY <1>9, <3>2, <4>1
      <4> QED
        BY <3>2, <4>1, <4>2
    <3> QED
      BY <1>1, <3>1, <3>2, <3>3, <3>4
  <2>2. ASSUME NEW i \in RobIndex, NEW k \in 1 .. Stores(i)', rob'[i].sq_index[k] # NoIndex
        PROVE  /\ sq[rob'[i].sq_index[k]].rob_index = i
               /\ sq[rob'[i].sq_index[k]].data_index = k
    <3>1. i # tail
      BY <1>5, <1>6, <1>9, <2>2 DEF new
    <3> QED
      BY <1>1, <1>9, <1>12, <2>2, <3>1 DEF StoreLinks
  <2> QED
    BY <1>2, <2>1, <2>2 DEF StoreLinks, Used
<1>25. StaOrder(sq, sta)'
  <2>1. \A x \in 1 .. Len(sta') : \/ x \in 1 .. Len(sta) /\ sta'[x] = sta[x]
                                  \/ x > Len(sta) /\ sta'[x] = id
    <3>1. ASSUME NEW x \in 1 .. Len(sta'), ~(x <= Len(sta))
          PROVE  x > Len(sta) /\ sta'[x] = id
      <4>1. x - Len(sta) \in 1 .. Len(t) /\ x \in 1 .. Len(sta) + Len(t) /\ x > Len(sta)
        BY <1>15, <3>1
      <4>2. sta'[x] = t[x - Len(sta)]
        BY <1>15, <3>1, <4>1
      <4> QED
        BY <1>14, <4>1, <4>2
    <3>2. ASSUME NEW x \in 1 .. Len(sta'), x <= Len(sta)
          PROVE  x \in 1 .. Len(sta) /\ sta'[x] = sta[x]
      BY <1>15, <3>2
    <3> QED
      BY <3>1, <3>2
  <2>2. \A x \in 1 .. Len(sta) : sta[x] \in Nat /\ sta[x] < id
    BY <1>12, <1>15, ElementOfSeq DEF StaOrder, id
  <2>3. \A x, y \in 1 .. Len(sta) : x <= y => sta[x] <= sta[y]
    BY <1>12 DEF StaOrder
  <2>4. \A q \in SqIndex : \A x \in 1 .. Len(sta) : Used(sq, q) => StoreId(sq[q]) <= sta[x]
    BY <1>12 DEF StaOrder
  <2>5. \A x, y \in 1 .. Len(sta') : x <= y => sta'[x] <= sta'[y]
    <3>1. ASSUME NEW x \in 1 .. Len(sta'), NEW y \in 1 .. Len(sta'), x <= y
          PROVE  sta'[x] <= sta'[y]
      <4>1. CASE x \in 1 .. Len(sta) /\ y \in 1 .. Len(sta)
        <5>1. sta[x] <= sta[y]
          BY <2>3, <3>1, <4>1
        <5>2. sta'[x] = sta[x] /\ sta'[y] = sta[y]
          BY <1>15, <2>1, <4>1
        <5> QED
          BY <5>1, <5>2
      <4>2. CASE y > Len(sta)
        <5>1. sta'[y] = id
          BY <1>15, <2>1, <4>2
        <5> QED
          BY <1>1, <2>1, <2>2, <5>1
      <4> QED
        BY <1>15, <3>1, <4>1, <4>2
    <3> QED
      BY <3>1
  <2>6. \A x \in 1 .. Len(sta') : sta'[x] < id'
    <3>1. ASSUME NEW x \in 1 .. Len(sta')
          PROVE  sta'[x] < id + 1
      <4>1. CASE x \in 1 .. Len(sta) /\ sta'[x] = sta[x]
        BY <1>1, <2>2, <4>1
      <4>2. CASE sta'[x] = id
        BY <1>1, <4>2
      <4> QED
        BY <2>1, <4>1, <4>2
    <3> QED
      BY <1>3, <3>1
  <2>7. ASSUME NEW q \in SqIndex, NEW x \in 1 .. Len(sta'), Used(sq, q)
        PROVE  StoreId(sq[q])' <= sta'[x]
    <3>1. /\ StoreId(sq[q])' = StoreId(sq[q])
          /\ StoreId(sq[q]) \in Nat /\ StoreId(sq[q]) < id
      BY <1>20, <2>7
    <3> QED
      BY <1>1, <2>1, <2>4, <2>7, <3>1
  <2> QED
    BY <1>2, <2>5, <2>6, <2>7 DEF StaOrder, Used, id
<1>26. \E n \in 0 .. SqSize : Queued(sq, sq_head, sq_tail, n)'
  <2>1. PICK n \in 0 .. SqSize : Queued(sq, sq_head, sq_tail, n)
    BY DEF MInv, StoreSide
  <2>2. Queued(sq, sq_head, sq_tail, n)'
    BY <1>2, <1>20, <2>1 DEF Queued, Used, Pos
  <2> QED
    BY <2>2
<1>27. StoreSide'
  <2>1. /\ Enumerates(rts[1], Sending(sq, SqIndex))'
        /\ Enumerates(rts[2], Reading(sq, SqIndex))'
    BY <1>2 DEF MInv, StoreSide, Enumerates, Sending, Reading, Used
  <2> QED
    BY <1>24, <1>25, <1>26, <2>1 DEF StoreSide
\* The counters.
<1>28. OpsLeft(rob, lq, sq)'
  <2>1. ASSUME NEW i \in RobIndex
        PROVE  rob'[i].num_mem_ops = Cardinality(WaitingLoads(rob, lq, i)')
                                       + Cardinality(WaitingStores(rob, sq, i)')
    <3>1. CASE i # tail
      <4>1. /\ WaitingLoads(rob, lq, i)' = WaitingLoads(rob, lq, i)
            /\ WaitingStores(rob, sq, i)' = WaitingStores(rob, sq, i)
        BY <1>1, <1>2, <1>9, <3>1 DEF WaitingLoads, WaitingStores
      <4> QED
        BY <1>1, <1>12, <3>1, <4>1 DEF OpsLeft
    <3>2. CASE i = tail
      <4>1. /\ WaitingLoads(rob, lq, i)' = 1 .. Len(op.loads)
            /\ WaitingStores(rob, sq, i)' = 1 .. Len(op.stores)
        BY <1>5, <1>6, <1>9, <3>2 DEF WaitingLoads, WaitingStores, new
      <4>2. /\ Cardinality(1 .. Len(op.loads)) = Len(op.loads)
            /\ Cardinality(1 .. Len(op.stores)) = Len(op.stores)
        <5>1. \A n \in Nat : Cardinality(1 .. n) = n
          BY FS_Interval
        <5> QED
          BY <1>6, <5>1
      <4> QED
        BY <1>5, <3>2, <4>1, <4>2 DEF new
    <3> QED
      BY <3>1, <3>2
  <2> QED
    BY <2>1 DEF OpsLeft
<1>29. Executes(rob)'
  <2>1. ASSUME NEW i \in RobIndex, IsMemory(i)'
        PROVE  /\ rob'[i].executed # "no" =>
                    /\ \A j \in 1 .. Loads(i)' : rob'[i].lq_index[j] # NoIndex
                    /\ \A m \in 1 .. Stores(i)' : rob'[i].sq_index[m] # NoIndex
               /\ rob'[i].executed = "COMPLETED" => rob'[i].num_mem_ops = 0
    <3>1. CASE i # tail
      <4>1. IsMemory(i)
        BY <1>10, <2>1, <3>1
      <4> QED
        BY <1>1, <1>9, <1>12, <3>1, <4>1 DEF Executes
    <3>2. CASE i = tail
      BY <1>5, <3>2 DEF new
    <3> QED
      BY <3>1, <3>2
  <2> QED
    BY <2>1 DEF Executes
<1>30. Running' = Running
  <2>1. ASSUME NEW i \in RobIndex
        PROVE  /\ Busy(i)' /\ ~IsMemory(i)' /\ rob'[i].executed = "INFLIGHT"
               <=> Busy(i) /\ ~IsMemory(i) /\ rob[i].executed = "INFLIGHT"
    <3>1. CASE i # tail
      BY <1>1, <1>7, <1>10, <3>1
    <3>2. CASE i = tail
      BY <1>1, <1>5, <3>2 DEF new
    <3> QED
      BY <3>1, <3>2
  <2> QED
    BY <2>1 DEF Running
<1>31. Finishes(rob)' = Finishes(rob)
  <2>1. ASSUME NEW i \in RobIndex
        PROVE  /\ IsMemory(i)' /\ rob'[i].num_mem_ops = 0 /\ rob'[i].executed # "COMPLETED"
               <=> IsMemory(i) /\ rob[i].num_mem_ops = 0 /\ rob[i].executed # "COMPLETED"
    <3>1. CASE i # tail
      BY <1>1, <1>10, <3>1
    <3>2. CASE i = tail
      <4>1. ~IsMemory(i)
        BY <1>1, <3>2 DEF IsMemory
      <4>2. ~(IsMemory(i)' /\ rob'[i].num_mem_ops = 0)
        <5>1. IsMemory(i)' <=> Busy(i)' /\ Len(op.loads) + Len(op.stores) > 0
          BY <1>8, <3>2 DEF IsMemory
        <5>2. rob'[i].num_mem_ops = Len(op.loads) + Len(op.stores)
          BY <1>5, <3>2 DEF new
        <5>3. \A a, b \in Nat : \A c : c = a + b => ~(a + b > 0 /\ c = 0)
          OBVIOUS
        <5>4. Len(op.loads) \in Nat /\ Len(op.stores) \in Nat
          BY <1>6
        <5>5. ~(Len(op.loads) + Len(op.stores) > 0 /\ rob'[i].num_mem_ops = 0)
          BY <5>2, <5>3, <5>4, Zenon
        <5> QED
          BY <5>1, <5>5, Zenon
      <4> QED
        BY <4>1, <4>2
    <3> QED
      BY <3>1, <3>2
  <2> QED
    BY <2>1 DEF Finishes
<1>32. Counting'
  BY <1>2, <1>28, <1>29, <1>30, <1>31 DEF MInv, Counting
<1>33. History'
  <2>1. /\ \E S : seen \in Seq(S)
        /\ Len(seen) + 1 = IF Busy(head) THEN rob[head].id ELSE id
    BY DEF MInv, History, id
  <2>2. head \in RobIndex
    BY DEF CInv, Types
  <2>3. Busy(head)' /\ rob'[head'].id = IF Busy(head) THEN rob[head].id ELSE id
    <3>1. CASE tail = head
      BY <1>1, <1>2, <3>1 DEF Busy
    <3>2. CASE tail # head
      BY <1>1, <1>2, <2>2, <3>2 DEF Busy
    <3> QED
      BY <3>1, <3>2
  <2> QED
    BY <1>2, <2>1, <2>3 DEF History
<1> QED
  BY <1>16, <1>17, <1>18, <1>23, <1>27, <1>32, <1>33 DEF MInv

-----------------------------------------------------------------------------
(* Translation and the L1D: the lists of the queues.                       *)

LEMMA UsedIndex ==
  ASSUME NEW e, e.rob_index \in RobIndex
  PROVE  e # EmptyLsq
<1>1. NoIndex \notin RobIndex
  BY CoreSizes DEF NoIndex, RobIndex
<1>2. EmptyLsq.rob_index = NoIndex
  BY DEF EmptyLsq
<1> QED
  BY <1>1, <1>2

LEMMA PairUpdate ==
  ASSUME NEW p, p = <<p[1], p[2]>>, NEW v, NEW n \in 1 .. 2, NEW u, u = [p EXCEPT ![n] = v]
  PROVE  /\ u = <<u[1], u[2]>> /\ u[n] = v
         /\ \A m \in 1 .. 2 : m # n => u[m] = p[m]
<1>1. CASE n = 1
  <2>1. u = <<v, p[2]>>
    BY <1>1
  <2> QED
    BY <1>1, <2>1
<1>2. CASE n = 2
  <2>1. u = <<p[1], v>>
    BY <1>2
  <2> QED
    BY <1>2, <2>1
<1> QED
  BY <1>1, <1>2

\* A load moves on in its queue.
LEMMA LoadStep ==
  ASSUME CInv, MInv, NEW q \in LqIndex, Used(lq, q), NEW e \in LsqType(LqIndex),
         lq' = [lq EXCEPT ![q] = e],
         e.rob_index = lq[q].rob_index, e.data_index = lq[q].data_index,
         e.producer_id = lq[q].producer_id,
         e.producer_id # NoProducer => e.translated = "INFLIGHT",
         e.translated # "COMPLETED" => e.fetched = "no",
         e.fetched # "COMPLETED",
         UNCHANGED <<program, instr_unique_id, rob, head, next_schedule, rte, rts, sq,
                     sq_head, sq_tail, sta, inflight, memory, seen>>,
         rtl' = <<rtl'[1], rtl'[2]>>,
         rtl'[1] \in Seq(LqIndex), rtl'[2] \in Seq(LqIndex),
         Enumerates(rtl'[1], Sending(lq', LqIndex)),
         Enumerates(rtl'[2], Reading(lq', LqIndex))
  PROVE  MInv'
<1>1. lq \in [LqIndex -> LsqType(LqIndex)] /\ LoadLinks(rob, lq) /\ LoadWaits(rob, lq, sq)
  BY DEF MInv, MemTypes, LoadSide
<1>2. /\ lq' \in [LqIndex -> LsqType(LqIndex)]
      /\ \A p \in LqIndex : lq'[p] = IF p = q THEN e ELSE lq[p]
  BY <1>1
<1>3. Used(lq', q)
  <2>1. e.rob_index \in RobIndex
    BY <1>1 DEF LoadLinks
  <2> QED
    BY <1>2, <2>1, UsedIndex DEF Used
<1>4. \A p \in LqIndex : /\ lq'[p].rob_index = lq[p].rob_index
                         /\ lq'[p].data_index = lq[p].data_index
                         /\ lq'[p].producer_id = lq[p].producer_id
                         /\ Used(lq', p) <=> Used(lq, p)
  BY <1>2, <1>3 DEF Used
<1>5. SameOrder
  BY DEF SameOrder, SameId
<1>6. \A k \in RobIndex : /\ SameQueues(rob'[k], rob[k]) /\ SameOps(rob'[k], rob[k])
                          /\ SameSched(rob'[k], rob[k]) /\ rob'[k].executed = rob[k].executed
  BY DEF SameQueues, SameOps, SameSched
<1>7. \A k \in RobIndex : Busy(k)' <=> Busy(k)
  BY <1>5, SameProgram
<1>8. \A k \in RobIndex : Loads(k)' = Loads(k) /\ Stores(k)' = Stores(k)
  BY <1>5, SameProgram
<1>9. MemTypes'
  <2>1. Indices(rob)'
    BY <1>8 DEF MInv, MemTypes, Indices
  <2> QED
    BY <1>2, <2>1 DEF MInv, MemTypes
<1>10. StageTypes'
  BY DEF MInv, StageTypes
<1>11. ReadyListed'
  BY <1>5, <1>6, ReadyFrame DEF MInv
<1>12. LoadSide'
  <2>1. LoadLinks(rob, lq)'
    <3>1. rob' = rob /\ program' = program
      OBVIOUS
    <3>2. \A p \in LqIndex : Used(lq', p) =>
            /\ lq'[p].producer_id # NoProducer => lq'[p].translated = "INFLIGHT"
            /\ lq'[p].translated # "COMPLETED" => lq'[p].fetched = "no"
            /\ lq'[p].fetched # "COMPLETED"
      BY <1>1, <1>2, <1>4 DEF LoadLinks
    <3> QED
      BY <1>1, <1>4, <3>1, <3>2 DEF LoadLinks, Used, Busy, Loads, Op
  <2>2. LoadWaits(rob, lq, sq)'
    <3>1. \A i, k \in RobIndex : \A a :
            /\ StoresTo(i, a)' = StoresTo(i, a)
            /\ LastStore(k, i, a)' <=> LastStore(k, i, a)
      BY <1>5, SameProgram
    <3>2. \A p \in SqIndex : StoreAddr(sq[p])' = StoreAddr(sq[p])
      BY DEF StoreAddr, Op
    <3>3. rob' = rob /\ program' = program /\ sq' = sq
      OBVIOUS
    <3>4. \A p \in LqIndex : LoadAddr(lq[p])' = LoadAddr(lq[p])
      BY <1>4, <3>3 DEF LoadAddr, Op
    <3>5. ASSUME NEW p \in LqIndex, NEW i \in RobIndex, NEW a, NEW id,
                 Used(lq', p), lq'[p].rob_index = i, LoadAddr(lq[p])' = a,
                 lq'[p].producer_id = id
          PROVE  Follows(rob, sq, i, a, id)'
      <4>1. Follows(rob, sq, i, a, id)
        BY <1>1, <1>4, <3>4, <3>5 DEF LoadWaits
      <4> QED
        <5>1. StoresTo(i, a)' = {} => id = NoProducer
          BY <3>1, <4>1 DEF Follows
        <5>2. ASSUME NEW k \in RobIndex, LastStore(k, i, a)'
              PROVE  id = rob'[k].id /\ i \in rob'[k].mem_depend_on_me /\ Unstored(sq, k, a)'
          <6>1. LastStore(k, i, a)
            BY <3>1, <5>2
          <6>2. id = rob[k].id /\ i \in rob[k].mem_depend_on_me /\ Unstored(sq, k, a)
            BY <4>1, <6>1 DEF Follows
          <6>3. Unstored(sq, k, a)'
            BY <3>2, <3>3, <6>2 DEF Unstored, Used
          <6> QED
            BY <3>3, <6>2, <6>3
        <5> QED
          BY <5>1, <5>2 DEF Follows
    <3> QED
      BY <3>5 DEF LoadWaits, Used
  <2> QED
    BY <2>1, <2>2 DEF LoadSide
<1>13. StoreSide'
  BY <1>5, <1>6, StoreFrame DEF MInv
<1>14. Counting'
  <2>1. \A i \in RobIndex : /\ WaitingLoads(rob, lq, i)' = WaitingLoads(rob, lq, i)
                            /\ WaitingStores(rob, sq, i)' = WaitingStores(rob, sq, i)
    <3>1. ASSUME NEW i \in RobIndex, NEW j \in 1 .. Loads(i)
          PROVE  rob[i].lq_index[j] # NoIndex => rob[i].lq_index[j] \in LqIndex
      BY DEF MInv, MemTypes, Indices
    <3>2. \A i \in RobIndex : WaitingLoads(rob, lq, i)' = WaitingLoads(rob, lq, i)
      BY <1>4, <1>8, <3>1 DEF WaitingLoads
    <3>3. \A i \in RobIndex : WaitingStores(rob, sq, i)' = WaitingStores(rob, sq, i)
      BY <1>8 DEF WaitingStores
    <3> QED
      BY <3>2, <3>3
  <2>2. OpsLeft(rob, lq, sq)'
    BY <2>1 DEF MInv, Counting, OpsLeft
  <2>3. Executes(rob)' /\ Running' = Running /\ Finishes(rob)' = Finishes(rob)
    BY DEF MInv, Counting, Executes, Running, Finishes, IsMemory, Loads, Stores, Busy, Op
  <2> QED
    BY <2>2, <2>3 DEF MInv, Counting
<1>15. History'
  BY <1>5, HistoryFrame DEF MInv
<1> QED
  BY <1>9, <1>10, <1>11, <1>12, <1>13, <1>14, <1>15 DEF MInv

LEMMA EntryUpdate ==
  ASSUME NEW Index, NEW e \in LsqType(Index), NEW v \in Stage
  PROVE  /\ \A f : f = [e EXCEPT !.translated = v] =>
              /\ f \in LsqType(Index)
              /\ f.rob_index = e.rob_index /\ f.data_index = e.data_index
              /\ f.producer_id = e.producer_id
              /\ f.translated = v /\ f.fetched = e.fetched
         /\ \A f : f = [e EXCEPT !.fetched = v] =>
              /\ f \in LsqType(Index)
              /\ f.rob_index = e.rob_index /\ f.data_index = e.data_index
              /\ f.producer_id = e.producer_id
              /\ f.translated = e.translated /\ f.fetched = v
BY DEF LsqType, Stage

\* What a change of one entry in use does to the sets that the lists hold.
LEMMA Moves ==
  ASSUME NEW Index, NEW l, NEW m, NEW q \in Index, NEW e,
         \A p \in Index : m[p] = IF p = q THEN e ELSE l[p],
         Used(l, q), Used(m, q)
  PROVE  /\ Sending(m, Index) = IF e.translated = "no" THEN Sending(l, Index) \cup {q}
                                ELSE Sending(l, Index) \ {q}
         /\ Reading(m, Index) = IF e.translated = "COMPLETED" /\ e.fetched = "no"
                                THEN Reading(l, Index) \cup {q}
                                ELSE Reading(l, Index) \ {q}
BY DEF Sending, Reading, Used

LEMMA TranslateLoadMem ==
  ASSUME CInv, MInv, TranslateLoad
  PROVE  MInv'
<1> DEFINE q == Head(rtl[1])
           e == [lq[q] EXCEPT !.translated = "INFLIGHT"]
<1>1. /\ rtl = <<rtl[1], rtl[2]>> /\ rtl[1] \in Seq(LqIndex) /\ rtl[2] \in Seq(LqIndex)
      /\ rtl[1] # <<>> /\ lq \in [LqIndex -> LsqType(LqIndex)]
      /\ Enumerates(rtl[1], Sending(lq, LqIndex))
      /\ Enumerates(rtl[2], Reading(lq, LqIndex))
      /\ LoadLinks(rob, lq)
  BY DEF TranslateLoad, MInv, MemTypes, LoadSide
<1>2. /\ q \in Sending(lq, LqIndex) /\ q \in LqIndex /\ Tail(rtl[1]) \in Seq(LqIndex)
      /\ Enumerates(Tail(rtl[1]), Sending(lq, LqIndex) \ {q})
  BY <1>1, EnumTail
<1>3. /\ lq' = [lq EXCEPT ![q] = e]
      /\ rtl' = [rtl EXCEPT ![1] = Tail(rtl[1])]
      /\ UNCHANGED <<program, instr_unique_id, rob, head, next_schedule, rte, rts, sq,
                     sq_head, sq_tail, sta, inflight, memory, seen>>
  BY DEF TranslateLoad, front, history
<1>4. /\ e \in LsqType(LqIndex)
      /\ e.rob_index = lq[q].rob_index /\ e.data_index = lq[q].data_index
      /\ e.producer_id = lq[q].producer_id
      /\ e.translated = "INFLIGHT" /\ e.fetched = lq[q].fetched
  <2>1. lq[q] \in LsqType(LqIndex) /\ "INFLIGHT" \in Stage
    BY <1>1, <1>2 DEF Stage
  <2> QED
    BY <2>1, EntryUpdate
<1> HIDE DEF q, e
<1>5. /\ Used(lq, q) /\ lq[q].translated = "no" /\ lq[q].fetched = "no"
      /\ lq[q].rob_index \in RobIndex
  BY <1>1, <1>2 DEF Sending, LoadLinks
<1>6. \A p \in LqIndex : lq'[p] = IF p = q THEN e ELSE lq[p]
  BY <1>1, <1>2, <1>3
<1>7. Used(lq', q)
  BY <1>2, <1>4, <1>5, <1>6, UsedIndex DEF Used
<1>8. /\ Sending(lq', LqIndex) = Sending(lq, LqIndex) \ {q}
      /\ Reading(lq', LqIndex) = Reading(lq, LqIndex)
  <2>1. /\ Sending(lq', LqIndex) = Sending(lq, LqIndex) \ {q}
        /\ Reading(lq', LqIndex) = Reading(lq, LqIndex) \ {q}
    BY <1>2, <1>4, <1>5, <1>6, <1>7, Moves
  <2>2. q \notin Reading(lq, LqIndex)
    BY <1>5 DEF Reading
  <2> QED
    BY <2>1, <2>2
<1>9. /\ rtl' = <<rtl'[1], rtl'[2]>> /\ rtl'[1] = Tail(rtl[1]) /\ rtl'[2] = rtl[2]
  BY <1>1, <1>3, PairUpdate
<1>10. /\ rtl'[1] \in Seq(LqIndex) /\ rtl'[2] \in Seq(LqIndex)
       /\ Enumerates(rtl'[1], Sending(lq', LqIndex))
       /\ Enumerates(rtl'[2], Reading(lq', LqIndex))
  BY <1>1, <1>2, <1>8, <1>9
<1>11. /\ e.producer_id # NoProducer => e.translated = "INFLIGHT"
       /\ e.translated # "COMPLETED" => e.fetched = "no"
       /\ e.fetched # "COMPLETED"
  BY <1>4, <1>5
<1>12. rtl' = <<rtl'[1], rtl'[2]>>
  BY <1>9
<1> QED
  BY <1>2, <1>3, <1>4, <1>5, <1>10, <1>11, <1>12, LoadStep

LEMMA ExecuteLoadMem ==
  ASSUME CInv, MInv, ExecuteLoad
  PROVE  MInv'
<1> DEFINE q == Head(rtl[2])
           e == [lq[q] EXCEPT !.fetched = "INFLIGHT"]
<1>1. /\ rtl = <<rtl[1], rtl[2]>> /\ rtl[1] \in Seq(LqIndex) /\ rtl[2] \in Seq(LqIndex)
      /\ rtl[2] # <<>> /\ lq \in [LqIndex -> LsqType(LqIndex)]
      /\ Enumerates(rtl[1], Sending(lq, LqIndex))
      /\ Enumerates(rtl[2], Reading(lq, LqIndex))
      /\ LoadLinks(rob, lq)
  BY DEF ExecuteLoad, MInv, MemTypes, LoadSide
<1>2. /\ q \in Reading(lq, LqIndex) /\ q \in LqIndex /\ Tail(rtl[2]) \in Seq(LqIndex)
      /\ Enumerates(Tail(rtl[2]), Reading(lq, LqIndex) \ {q})
  BY <1>1, EnumTail
<1>3. /\ lq' = [lq EXCEPT ![q] = e]
      /\ rtl' = [rtl EXCEPT ![2] = Tail(rtl[2])]
      /\ UNCHANGED <<program, instr_unique_id, rob, head, next_schedule, rte, rts, sq,
                     sq_head, sq_tail, sta, inflight, memory, seen>>
  BY DEF ExecuteLoad, front, history
<1>4. /\ e \in LsqType(LqIndex)
      /\ e.rob_index = lq[q].rob_index /\ e.data_index = lq[q].data_index
      /\ e.producer_id = lq[q].producer_id
      /\ e.translated = lq[q].translated /\ e.fetched = "INFLIGHT"
  <2>1. lq[q] \in LsqType(LqIndex) /\ "INFLIGHT" \in Stage
    BY <1>1, <1>2 DEF Stage
  <2> QED
    BY <2>1, EntryUpdate
<1> HIDE DEF q, e
<1>5. /\ Used(lq, q) /\ lq[q].translated = "COMPLETED" /\ lq[q].fetched = "no"
      /\ lq[q].rob_index \in RobIndex /\ lq[q].producer_id = NoProducer
  BY <1>1, <1>2 DEF Reading, LoadLinks
<1>6. \A p \in LqIndex : lq'[p] = IF p = q THEN e ELSE lq[p]
  BY <1>1, <1>2, <1>3
<1>7. Used(lq', q)
  BY <1>2, <1>4, <1>5, <1>6, UsedIndex DEF Used
<1>8. /\ Sending(lq', LqIndex) = Sending(lq, LqIndex)
      /\ Reading(lq', LqIndex) = Reading(lq, LqIndex) \ {q}
  <2>1. /\ Sending(lq', LqIndex) = Sending(lq, LqIndex) \ {q}
        /\ Reading(lq', LqIndex) = Reading(lq, LqIndex) \ {q}
    BY <1>2, <1>4, <1>5, <1>6, <1>7, Moves
  <2>2. q \notin Sending(lq, LqIndex)
    BY <1>5 DEF Sending
  <2> QED
    BY <2>1, <2>2
<1>9. /\ rtl' = <<rtl'[1], rtl'[2]>> /\ rtl'[2] = Tail(rtl[2]) /\ rtl'[1] = rtl[1]
  BY <1>1, <1>3, PairUpdate
<1>10. /\ rtl'[1] \in Seq(LqIndex) /\ rtl'[2] \in Seq(LqIndex)
       /\ Enumerates(rtl'[1], Sending(lq', LqIndex))
       /\ Enumerates(rtl'[2], Reading(lq', LqIndex))
  BY <1>1, <1>2, <1>8, <1>9
<1>11. /\ e.producer_id # NoProducer => e.translated = "INFLIGHT"
       /\ e.translated # "COMPLETED" => e.fetched = "no"
       /\ e.fetched # "COMPLETED"
  BY <1>4, <1>5
<1>12. rtl' = <<rtl'[1], rtl'[2]>>
  BY <1>9
<1> QED
  BY <1>2, <1>3, <1>4, <1>5, <1>10, <1>11, <1>12, LoadStep

LEMMA LoadTranslatedMem ==
  ASSUME CInv, MInv, NEW q \in LqIndex, LoadTranslated(q)
  PROVE  MInv'
<1> DEFINE e == [lq[q] EXCEPT !.translated = "COMPLETED"]
<1>1. /\ rtl = <<rtl[1], rtl[2]>> /\ rtl[1] \in Seq(LqIndex) /\ rtl[2] \in Seq(LqIndex)
      /\ lq \in [LqIndex -> LsqType(LqIndex)]
      /\ Enumerates(rtl[1], Sending(lq, LqIndex))
      /\ Enumerates(rtl[2], Reading(lq, LqIndex))
      /\ LoadLinks(rob, lq)
  BY DEF MInv, MemTypes, LoadSide
<1>2. /\ lq[q].translated = "INFLIGHT" /\ lq[q].producer_id = NoProducer
      /\ lq' = [lq EXCEPT ![q] = e]
      /\ rtl' = [rtl EXCEPT ![2] = Append(rtl[2], q)]
      /\ UNCHANGED <<program, instr_unique_id, rob, head, next_schedule, rte, rts, sq,
                     sq_head, sq_tail, sta, inflight, memory, seen>>
  BY DEF LoadTranslated, front, history
<1>3. /\ e \in LsqType(LqIndex)
      /\ e.rob_index = lq[q].rob_index /\ e.data_index = lq[q].data_index
      /\ e.producer_id = lq[q].producer_id
      /\ e.translated = "COMPLETED" /\ e.fetched = lq[q].fetched
  <2>1. lq[q] \in LsqType(LqIndex) /\ "COMPLETED" \in Stage
    BY <1>1 DEF Stage
  <2> QED
    BY <2>1, EntryUpdate
<1> HIDE DEF e
<1>4. /\ Used(lq, q) /\ lq[q].fetched = "no" /\ lq[q].rob_index \in RobIndex
  <2>1. EmptyLsq.translated = "no"
    BY DEF EmptyLsq
  <2>2. Used(lq, q)
    BY <1>2, <2>1 DEF Used
  <2> QED
    BY <1>1, <1>2, <2>2 DEF LoadLinks
<1>5. \A p \in LqIndex : lq'[p] = IF p = q THEN e ELSE lq[p]
  BY <1>1, <1>2
<1>6. Used(lq', q)
  BY <1>3, <1>4, <1>5, UsedIndex DEF Used
<1>7. /\ Sending(lq', LqIndex) = Sending(lq, LqIndex)
      /\ Reading(lq', LqIndex) = Reading(lq, LqIndex) \cup {q}
      /\ q \notin Reading(lq, LqIndex)
  <2>1. /\ Sending(lq', LqIndex) = Sending(lq, LqIndex) \ {q}
        /\ Reading(lq', LqIndex) = Reading(lq, LqIndex) \cup {q}
    BY <1>3, <1>4, <1>5, <1>6, Moves
  <2>2. q \notin Sending(lq, LqIndex) /\ q \notin Reading(lq, LqIndex)
    BY <1>2 DEF Sending, Reading
  <2> QED
    BY <2>1, <2>2
<1>8. /\ rtl' = <<rtl'[1], rtl'[2]>> /\ rtl'[2] = Append(rtl[2], q) /\ rtl'[1] = rtl[1]
  BY <1>1, <1>2, PairUpdate
<1>9. /\ Append(rtl[2], q) \in Seq(LqIndex)
      /\ Enumerates(Append(rtl[2], q), Reading(lq, LqIndex) \cup {q})
  BY <1>1, <1>7, EnumAppend
<1>10. /\ rtl'[1] \in Seq(LqIndex) /\ rtl'[2] \in Seq(LqIndex)
       /\ Enumerates(rtl'[1], Sending(lq', LqIndex))
       /\ Enumerates(rtl'[2], Reading(lq', LqIndex))
  BY <1>1, <1>7, <1>8, <1>9
<1>11. /\ e.producer_id # NoProducer => e.translated = "INFLIGHT"
       /\ e.translated # "COMPLETED" => e.fetched = "no"
       /\ e.fetched # "COMPLETED"
  BY <1>2, <1>3, <1>4
<1>12. rtl' = <<rtl'[1], rtl'[2]>>
  BY <1>8
<1> QED
  BY <1>2, <1>3, <1>4, <1>10, <1>11, <1>12, LoadStep

-----------------------------------------------------------------------------
(* A store moves on in its queue.                                          *)

\* Each entry stays that of the same store.
LEMMA StoreSideStep ==
  ASSUME StoreSide, SameOrder, UNCHANGED <<instr_unique_id, sq_head, sq_tail, sta>>,
         \A k \in RobIndex : SameQueues(rob'[k], rob[k]),
         \A p \in SqIndex :
           /\ sq'[p].rob_index = sq[p].rob_index
           /\ sq'[p].data_index = sq[p].data_index
           /\ Used(sq', p) <=> Used(sq, p)
           /\ Used(sq', p) /\ sq'[p].translated # "COMPLETED" => sq'[p].fetched = "no",
         Indices(rob),
         Enumerates(rts'[1], Sending(sq', SqIndex)),
         Enumerates(rts'[2], Reading(sq', SqIndex))
  PROVE  StoreSide'
<1>1. \A k \in RobIndex : Stores(k)' = Stores(k)
  BY SameProgram
<1>2. \A k \in RobIndex : Busy(k)' <=> Busy(k)
  BY SameProgram
<1>3. StoreLinks(rob, sq)'
  <2>1. ASSUME NEW q \in SqIndex, Used(sq', q)
        PROVE  /\ sq'[q].rob_index \in RobIndex /\ Busy(sq[q].rob_index)'
               /\ sq'[q].data_index \in 1 .. Stores(sq[q].rob_index)'
               /\ rob'[sq'[q].rob_index].sq_index[sq'[q].data_index] = q
               /\ sq'[q].translated # "COMPLETED" => sq'[q].fetched = "no"
    <3>1. PICK i : i = sq[q].rob_index
      OBVIOUS
    <3>2. /\ i \in RobIndex /\ Busy(i) /\ sq[q].data_index \in 1 .. Stores(i)
          /\ rob[i].sq_index[sq[q].data_index] = q
      BY <2>1, <3>1 DEF StoreSide, StoreLinks
    <3>3. Busy(i)' /\ sq[q].data_index \in 1 .. Stores(i)'
      BY <1>1, <1>2, <3>2
    <3>4. sq'[q].rob_index = i /\ sq'[q].data_index = sq[q].data_index
      BY <3>1
    <3>5. rob'[i].sq_index = rob[i].sq_index
      BY <3>2 DEF SameQueues
    <3> QED
      BY <2>1, <3>2, <3>3, <3>4, <3>5 DEF Busy, Stores, Op
  <2>2. ASSUME NEW i \in RobIndex, NEW k \in 1 .. Stores(i)', rob'[i].sq_index[k] # NoIndex
        PROVE  /\ sq'[rob'[i].sq_index[k]].rob_index = i
               /\ sq'[rob'[i].sq_index[k]].data_index = k
    <3>1. rob'[i].sq_index = rob[i].sq_index /\ k \in 1 .. Stores(i)
      BY <1>1, <2>2 DEF SameQueues
    <3>2. PICK q : q = rob[i].sq_index[k]
      OBVIOUS
    <3>3. sq[q].rob_index = i /\ sq[q].data_index = k
      BY <2>2, <3>1, <3>2 DEF StoreSide, StoreLinks
    <3>4. q \in SqIndex
      BY <2>2, <3>1, <3>2 DEF Indices
    <3> QED
      BY <3>1, <3>2, <3>3, <3>4
  <2> QED
    BY <2>1, <2>2 DEF StoreLinks, Used
<1>4. \A q \in SqIndex : Used(sq, q) => StoreId(sq[q])' = StoreId(sq[q])
  <2>1. \A q \in SqIndex : Used(sq, q) => sq[q].rob_index \in RobIndex
    BY DEF StoreSide, StoreLinks
  <2> QED
    BY <2>1 DEF StoreId, SameOrder, SameId
<1>5. StaOrder(sq, sta)'
  BY <1>4 DEF StoreSide, StaOrder, Used
<1>6. \E n \in 0 .. SqSize : Queued(sq, sq_head, sq_tail, n)'
  <2>1. PICK n \in 0 .. SqSize : Queued(sq, sq_head, sq_tail, n)
    BY DEF StoreSide
  <2>2. Queued(sq, sq_head, sq_tail, n)'
    BY <1>4, <2>1 DEF Queued, Used, Pos
  <2> QED
    BY <2>2
<1>7. /\ Enumerates(rts[1], Sending(sq, SqIndex))'
      /\ Enumerates(rts[2], Reading(sq, SqIndex))'
  BY DEF Enumerates, Sending, Reading, Used
<1> QED
  BY <1>3, <1>5, <1>6, <1>7 DEF StoreSide

\* A store's entry e is sent to the DTLB or comes back.
LEMMA StoreStep ==
  ASSUME CInv, MInv, NEW q \in SqIndex, Used(sq, q), NEW e \in LsqType(SqIndex),
         sq' = [sq EXCEPT ![q] = e],
         e.rob_index = sq[q].rob_index, e.data_index = sq[q].data_index,
         e.fetched = sq[q].fetched, e.fetched = "no",
         UNCHANGED <<program, instr_unique_id, rob, head, next_schedule, rte, rtl, lq,
                     sq_head, sq_tail, sta, inflight, memory, seen>>,
         rts' = <<rts'[1], rts'[2]>>,
         rts'[1] \in Seq(SqIndex), rts'[2] \in Seq(SqIndex),
         Enumerates(rts'[1], Sending(sq', SqIndex)),
         Enumerates(rts'[2], Reading(sq', SqIndex))
  PROVE  MInv'
<1>1. sq \in [SqIndex -> LsqType(SqIndex)] /\ StoreLinks(rob, sq) /\ LoadWaits(rob, lq, sq)
  BY DEF MInv, MemTypes, LoadSide, StoreSide
<1>2. /\ sq' \in [SqIndex -> LsqType(SqIndex)]
      /\ \A p \in SqIndex : sq'[p] = IF p = q THEN e ELSE sq[p]
  BY <1>1
<1>3. Used(sq', q)
  <2>1. e.rob_index \in RobIndex
    BY <1>1 DEF StoreLinks
  <2> QED
    BY <1>2, <2>1, UsedIndex DEF Used
<1>4. \A p \in SqIndex : /\ sq'[p].rob_index = sq[p].rob_index
                         /\ sq'[p].data_index = sq[p].data_index
                         /\ sq'[p].fetched = sq[p].fetched
                         /\ Used(sq', p) <=> Used(sq, p)
  BY <1>2, <1>3 DEF Used
<1>5. SameOrder
  BY DEF SameOrder, SameId
<1>6. \A k \in RobIndex : /\ SameQueues(rob'[k], rob[k]) /\ SameOps(rob'[k], rob[k])
                          /\ SameSched(rob'[k], rob[k]) /\ rob'[k].executed = rob[k].executed
  BY DEF SameQueues, SameOps, SameSched
<1>7. \A k \in RobIndex : Loads(k)' = Loads(k) /\ Stores(k)' = Stores(k)
  BY <1>5, SameProgram
<1>8. Indices(rob) /\ Indices(rob)'
  BY <1>7 DEF MInv, MemTypes, Indices
<1>9. MemTypes'
  BY <1>2, <1>8 DEF MInv, MemTypes
<1>10. StageTypes'
  BY DEF MInv, StageTypes
<1>11. ReadyListed'
  BY <1>5, <1>6, ReadyFrame DEF MInv
<1>12. StoreSide'
  <2>1. \A p \in SqIndex : Used(sq', p) /\ sq'[p].translated # "COMPLETED" =>
                             sq'[p].fetched = "no"
    BY <1>1, <1>2, <1>4 DEF StoreLinks
  <2> QED
    BY <1>4, <1>5, <1>6, <1>8, <2>1, StoreSideStep DEF MInv
<1>13. LoadSide'
  <2>1. LoadLinks(rob, lq)'
    BY DEF MInv, LoadSide, LoadLinks, Used, Busy, Loads, Op
  <2>2. LoadWaits(rob, lq, sq)'
    <3>1. \A i, k \in RobIndex : \A a :
            /\ StoresTo(i, a)' = StoresTo(i, a)
            /\ LastStore(k, i, a)' <=> LastStore(k, i, a)
      BY <1>5, SameProgram
    <3>2. \A p \in SqIndex : StoreAddr(sq[p])' = StoreAddr(sq[p])
      BY <1>4 DEF StoreAddr, Op
    <3>3. rob' = rob /\ program' = program /\ lq' = lq
      OBVIOUS
    <3>4. \A p \in LqIndex : LoadAddr(lq[p])' = LoadAddr(lq[p])
      BY <3>3 DEF LoadAddr, Op
    <3>5. ASSUME NEW p \in LqIndex, NEW i \in RobIndex, NEW a, NEW id,
                 Used(lq', p), lq'[p].rob_index = i, LoadAddr(lq[p])' = a,
                 lq'[p].producer_id = id
          PROVE  Follows(rob, sq, i, a, id)'
      <4>1. Follows(rob, sq, i, a, id)
        BY <1>1, <3>3, <3>4, <3>5 DEF LoadWaits
      <4> QED
        <5>1. StoresTo(i, a)' = {} => id = NoProducer
          BY <3>1, <4>1 DEF Follows
        <5>2. ASSUME NEW k \in RobIndex, LastStore(k, i, a)'
              PROVE  id = rob'[k].id /\ i \in rob'[k].mem_depend_on_me /\ Unstored(sq, k, a)'
          <6>1. LastStore(k, i, a)
            BY <3>1, <5>2
          <6>2. id = rob[k].id /\ i \in rob[k].mem_depend_on_me /\ Unstored(sq, k, a)
            BY <4>1, <6>1 DEF Follows
          <6>3. Unstored(sq, k, a)'
            BY <1>4, <3>2, <6>2 DEF Unstored, Used
          <6> QED
            BY <3>3, <6>2, <6>3
        <5> QED
          BY <5>1, <5>2 DEF Follows
    <3> QED
      BY <3>5 DEF LoadWaits, Used
  <2>3. /\ Enumerates(rtl[1], Sending(lq, LqIndex))'
        /\ Enumerates(rtl[2], Reading(lq, LqIndex))'
    BY DEF MInv, LoadSide, Enumerates, Sending, Reading, Used
  <2> QED
    BY <2>1, <2>2, <2>3 DEF LoadSide
<1>14. Counting'
  <2>1. \A i \in RobIndex : /\ WaitingLoads(rob, lq, i)' = WaitingLoads(rob, lq, i)
                            /\ WaitingStores(rob, sq, i)' = WaitingStores(rob, sq, i)
    <3>1. ASSUME NEW i \in RobIndex, NEW j \in 1 .. Stores(i)
          PROVE  rob[i].sq_index[j] # NoIndex => rob[i].sq_index[j] \in SqIndex
      BY <1>8 DEF Indices
    <3>2. \A i \in RobIndex : WaitingStores(rob, sq, i)' = WaitingStores(rob, sq, i)
      BY <1>4, <1>7, <3>1 DEF WaitingStores
    <3>3. \A i \in RobIndex : WaitingLoads(rob, lq, i)' = WaitingLoads(rob, lq, i)
      BY <1>7 DEF WaitingLoads
    <3> QED
      BY <3>2, <3>3
  <2>2. OpsLeft(rob, lq, sq)'
    BY <2>1 DEF MInv, Counting, OpsLeft
  <2>3. Executes(rob)' /\ Running' = Running /\ Finishes(rob)' = Finishes(rob)
    BY DEF MInv, Counting, Executes, Running, Finishes, IsMemory, Loads, Stores, Busy, Op
  <2> QED
    BY <2>2, <2>3 DEF MInv, Counting
<1>15. History'
  BY <1>5, HistoryFrame DEF MInv
<1> QED
  BY <1>9, <1>10, <1>11, <1>12, <1>13, <1>14, <1>15 DEF MInv

LEMMA TranslateStoreMem ==
  ASSUME CInv, MInv, TranslateStore
  PROVE  MInv'
<1> DEFINE q == Head(rts[1])
           e == [sq[q] EXCEPT !.translated = "INFLIGHT"]
<1>1. /\ rts = <<rts[1], rts[2]>> /\ rts[1] \in Seq(SqIndex) /\ rts[2] \in Seq(SqIndex)
      /\ rts[1] # <<>> /\ sq \in [SqIndex -> LsqType(SqIndex)]
      /\ Enumerates(rts[1], Sending(sq, SqIndex))
      /\ Enumerates(rts[2], Reading(sq, SqIndex))
      /\ StoreLinks(rob, sq)
  BY DEF TranslateStore, MInv, MemTypes, StoreSide
<1>2. /\ q \in Sending(sq, SqIndex) /\ q \in SqIndex /\ Tail(rts[1]) \in Seq(SqIndex)
      /\ Enumerates(Tail(rts[1]), Sending(sq, SqIndex) \ {q})
  BY <1>1, EnumTail
<1>3. /\ sq' = [sq EXCEPT ![q] = e]
      /\ rts' = [rts EXCEPT ![1] = Tail(rts[1])]
      /\ UNCHANGED <<program, instr_unique_id, rob, head, next_schedule, rte, rtl, lq,
                     sq_head, sq_tail, sta, inflight, memory, seen>>
  BY DEF TranslateStore, front, history
<1>4. /\ e \in LsqType(SqIndex)
      /\ e.rob_index = sq[q].rob_index /\ e.data_index = sq[q].data_index
      /\ e.producer_id = sq[q].producer_id
      /\ e.translated = "INFLIGHT" /\ e.fetched = sq[q].fetched
  <2>1. sq[q] \in LsqType(SqIndex) /\ "INFLIGHT" \in Stage
    BY <1>1, <1>2 DEF Stage
  <2> QED
    BY <2>1, EntryUpdate
<1> HIDE DEF q, e
<1>5. /\ Used(sq, q) /\ sq[q].translated = "no" /\ sq[q].fetched = "no"
      /\ sq[q].rob_index \in RobIndex
  BY <1>1, <1>2 DEF Sending, StoreLinks
<1>6. \A p \in SqIndex : sq'[p] = IF p = q THEN e ELSE sq[p]
  BY <1>1, <1>2, <1>3
<1>7. Used(sq', q)
  BY <1>2, <1>4, <1>5, <1>6, UsedIndex DEF Used
<1>8. /\ Sending(sq', SqIndex) = Sending(sq, SqIndex) \ {q}
      /\ Reading(sq', SqIndex) = Reading(sq, SqIndex)
  <2>1. /\ Sending(sq', SqIndex) = Sending(sq, SqIndex) \ {q}
        /\ Reading(sq', SqIndex) = Reading(sq, SqIndex) \ {q}
    BY <1>2, <1>4, <1>5, <1>6, <1>7, Moves
  <2>2. q \notin Reading(sq, SqIndex)
    BY <1>5 DEF Reading
  <2> QED
    BY <2>1, <2>2
<1>9. /\ rts' = <<rts'[1], rts'[2]>> /\ rts'[1] = Tail(rts[1]) /\ rts'[2] = rts[2]
  BY <1>1, <1>3, PairUpdate
<1>10. /\ rts'[1] \in Seq(SqIndex) /\ rts'[2] \in Seq(SqIndex)
       /\ Enumerates(rts'[1], Sending(sq', SqIndex))
       /\ Enumerates(rts'[2], Reading(sq', SqIndex))
  BY <1>1, <1>2, <1>8, <1>9
<1>11. e.fetched = "no" /\ e.fetched = sq[q].fetched
  BY <1>4, <1>5
<1>12. rts' = <<rts'[1], rts'[2]>>
  BY <1>9
<1> QED
  BY <1>2, <1>3, <1>4, <1>5, <1>10, <1>11, <1>12, StoreStep

LEMMA StoreTranslatedMem ==
  ASSUME CInv, MInv, NEW q \in SqIndex, StoreTranslated(q)
  PROVE  MInv'
<1> DEFINE e == [sq[q] EXCEPT !.translated = "COMPLETED"]
<1>1. /\ rts = <<rts[1], rts[2]>> /\ rts[1] \in Seq(SqIndex) /\ rts[2] \in Seq(SqIndex)
      /\ sq \in [SqIndex -> LsqType(SqIndex)]
      /\ Enumerates(rts[1], Sending(sq, SqIndex))
      /\ Enumerates(rts[2], Reading(sq, SqIndex))
      /\ StoreLinks(rob, sq)
  BY DEF MInv, MemTypes, StoreSide
<1>2. /\ sq[q].translated = "INFLIGHT"
      /\ sq' = [sq EXCEPT ![q] = e]
      /\ rts' = [rts EXCEPT ![2] = Append(rts[2], q)]
      /\ UNCHANGED <<program, instr_unique_id, rob, head, next_schedule, rte, rtl, lq,
                     sq_head, sq_tail, sta, inflight, memory, seen>>
  BY DEF StoreTranslated, front, history
<1>3. /\ e \in LsqType(SqIndex)
      /\ e.rob_index = sq[q].rob_index /\ e.data_index = sq[q].data_index
      /\ e.producer_id = sq[q].producer_id
      /\ e.translated = "COMPLETED" /\ e.fetched = sq[q].fetched
  <2>1. sq[q] \in LsqType(SqIndex) /\ "COMPLETED" \in Stage
    BY <1>1 DEF Stage
  <2> QED
    BY <2>1, EntryUpdate
<1> HIDE DEF e
<1>4. /\ Used(sq, q) /\ sq[q].fetched = "no" /\ sq[q].rob_index \in RobIndex
  <2>1. EmptyLsq.translated = "no"
    BY DEF EmptyLsq
  <2>2. Used(sq, q)
    BY <1>2, <2>1 DEF Used
  <2> QED
    BY <1>1, <1>2, <2>2 DEF StoreLinks
<1>5. \A p \in SqIndex : sq'[p] = IF p = q THEN e ELSE sq[p]
  BY <1>1, <1>2
<1>6. Used(sq', q)
  BY <1>3, <1>4, <1>5, UsedIndex DEF Used
<1>7. /\ Sending(sq', SqIndex) = Sending(sq, SqIndex)
      /\ Reading(sq', SqIndex) = Reading(sq, SqIndex) \cup {q}
      /\ q \notin Reading(sq, SqIndex)
  <2>1. /\ Sending(sq', SqIndex) = Sending(sq, SqIndex) \ {q}
        /\ Reading(sq', SqIndex) = Reading(sq, SqIndex) \cup {q}
    BY <1>3, <1>4, <1>5, <1>6, Moves
  <2>2. q \notin Sending(sq, SqIndex) /\ q \notin Reading(sq, SqIndex)
    BY <1>2 DEF Sending, Reading
  <2> QED
    BY <2>1, <2>2
<1>8. /\ rts' = <<rts'[1], rts'[2]>> /\ rts'[2] = Append(rts[2], q) /\ rts'[1] = rts[1]
  BY <1>1, <1>2, PairUpdate
<1>9. /\ Append(rts[2], q) \in Seq(SqIndex)
      /\ Enumerates(Append(rts[2], q), Reading(sq, SqIndex) \cup {q})
  BY <1>1, <1>7, EnumAppend
<1>10. /\ rts'[1] \in Seq(SqIndex) /\ rts'[2] \in Seq(SqIndex)
       /\ Enumerates(rts'[1], Sending(sq', SqIndex))
       /\ Enumerates(rts'[2], Reading(sq', SqIndex))
  BY <1>1, <1>7, <1>8, <1>9
<1>11. e.fetched = "no" /\ e.fetched = sq[q].fetched
  BY <1>3, <1>4
<1>12. rts' = <<rts'[1], rts'[2]>>
  BY <1>8
<1> QED
  BY <1>2, <1>3, <1>4, <1>10, <1>11, <1>12, StoreStep
=============================================================================
