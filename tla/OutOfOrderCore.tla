-------------------------- MODULE OutOfOrderCore --------------------------
(* One O3_CPU of ooo_cpu.cc: the reorder buffer, the register dependences,  *)
(* the load and store queues with forwarding, and in-order retirement.      *)
(* The TLBs and first-level caches answer at any time; cycles are left out. *)
EXTENDS Integers, Sequences, FiniteSets, SequencesExt

CONSTANTS
  RobSize, LqSize, SqSize,  \* ROB_SIZE, LQ_SIZE, SQ_SIZE
  Addr, Reg,                \* virtual addresses, registers
  Programs                  \* the traces: sequences of Instr records

ASSUME CoreSizes ==
  /\ RobSize \in Nat /\ RobSize >= 2
  /\ LqSize \in Nat \ {0}
  /\ SqSize \in Nat \ {0}

(* An instruction of the trace: source registers and loads by position,     *)
(* destination registers, stores by position.                               *)
Instr == [src : Seq(Reg), dst : SUBSET Reg, loads : Seq(Addr), stores : Seq(Addr),
          branch : BOOLEAN]

ASSUME ProgramsAreTraces == \A p \in Programs : p \in Seq(Instr)

RobIndex == 0 .. RobSize - 1
LqIndex == 0 .. LqSize - 1
SqIndex == 0 .. SqSize - 1
NoIndex == -1       \* UINT32_MAX
NoProducer == 0     \* producer_id = UINT64_MAX; instructions count from 1
NoValue == -1
Stage == {"no", "INFLIGHT", "COMPLETED"}

VARIABLES
  program,            \* the trace, and how far it has been read
  instr_unique_id,
  fetch_stall,
  rob, head, tail,    \* ROB.entry, ROB.head, ROB.tail
  last_read, last_fetch, next_schedule,
  itlb,               \* ROB indices with a request at the ITLB
  rte,                \* Ready-To-Execute lists RTE0, RTE1
  lq, sq,             \* LQ.entry, SQ.entry
  sq_head, sq_tail,
  sta,                \* ids of the stores that have not entered the SQ
  rtl, rts,           \* Ready-To-Load RTL0, RTL1; Ready-To-Store RTS0, RTS1
  inflight,           \* inflight_reg_executions, inflight_mem_executions
  memory, seen        \* history: what retired stores wrote, what loads read

front == <<instr_unique_id, tail, last_read, last_fetch, itlb>>
lists == <<rte, rtl, rts>>
history == <<memory, seen>>
vars == <<program, front, fetch_stall, rob, head, next_schedule, lists, lq, sq,
          sq_head, sq_tail, sta, inflight, history>>

-----------------------------------------------------------------------------
(* The reorder buffer.                                                       *)

EmptyInstr ==
  [id |-> 0, mispredicted |-> FALSE, translated |-> "no", fetched |-> "no",
   scheduled |-> "no", executed |-> "no", reg_ready |-> FALSE,
   num_reg_dependent |-> 0, num_mem_ops |-> 0,
   regs_depend_on_me |-> {}, mem_depend_on_me |-> {},
   lq_index |-> <<>>, sq_index |-> <<>>, got |-> <<>>]

\* Mutant of Decoded: a misprediction is not remembered.
Decoded_Predicted(id, miss) ==
  [EmptyInstr EXCEPT
     !.id = id, !.num_mem_ops = Len(program[id].loads) + Len(program[id].stores),
     !.lq_index = [j \in DOMAIN program[id].loads |-> NoIndex],
     !.sq_index = [k \in DOMAIN program[id].stores |-> NoIndex],
     !.got = [j \in DOMAIN program[id].loads |-> NoValue]]

(* source_added[j] is lq_index[j] # NoIndex, destination_added[k] is         *)
(* sq_index[k] # NoIndex; got[j] is the value load j has read.               *)
Decoded(id, miss) ==
  LET op == program[id] IN
  [EmptyInstr EXCEPT
     !.id = id, !.mispredicted = miss,
     !.num_mem_ops = Len(op.loads) + Len(op.stores),
     !.lq_index = [j \in DOMAIN op.loads |-> NoIndex],
     !.sq_index = [k \in DOMAIN op.stores |-> NoIndex],
     !.got = [j \in DOMAIN op.loads |-> NoValue]]

Next1(i, size) == (i + 1) % size
Busy(i) == rob[i].id # 0
Occupancy == Cardinality({i \in RobIndex : Busy(i)})
Op(i) == program[rob[i].id]
Age(i) == (i - head + RobSize) % RobSize
Older(i) == {k \in RobIndex : Age(k) < Age(i)}
Youngest(S) == CHOOSE k \in S : \A m \in S : Age(m) <= Age(k)
IsMemory(i) == Busy(i) /\ Len(Op(i).loads) + Len(Op(i).stores) > 0
Writes(i, a) == \E k \in DOMAIN Op(i).stores : Op(i).stores[k] = a

(* The load and store queues.  An empty entry belongs to no instruction.     *)
EmptyLsq == [rob_index |-> NoIndex, data_index |-> 0, producer_id |-> NoProducer,
             translated |-> "no", fetched |-> "no"]
LsqEntry(i, d) == [EmptyLsq EXCEPT !.rob_index = i, !.data_index = d]
LoadAddr(e) == Op(e.rob_index).loads[e.data_index]
StoreAddr(e) == Op(e.rob_index).stores[e.data_index]
StoreId(e) == rob[e.rob_index].id
SqOccupancy == Cardinality({q \in SqIndex : sq[q] # EmptyLsq})

Init ==
  /\ program \in Programs
  /\ instr_unique_id = 1
  /\ fetch_stall = FALSE
  /\ rob = [i \in RobIndex |-> EmptyInstr]
  /\ head = 0 /\ tail = 0
  /\ last_read = RobSize - 1 /\ last_fetch = RobSize - 1 /\ next_schedule = 0
  /\ itlb = {}
  /\ rte = <<<<>>, <<>>>>
  /\ lq = [q \in LqIndex |-> EmptyLsq]
  /\ sq = [q \in SqIndex |-> EmptyLsq]
  /\ sq_head = 0 /\ sq_tail = 0
  /\ sta = <<>>
  /\ rtl = <<<<>>, <<>>>> /\ rts = <<<<>>, <<>>>>
  /\ inflight = [reg |-> 0, mem |-> 0]
  /\ memory = [a \in Addr |-> 0]
  /\ seen = <<>>

-----------------------------------------------------------------------------
(* Fetch.                                                                    *)

(* handle_branch: read one instruction of the trace into the ROB; its stores *)
(* enter the STA.  A mispredicted branch stalls reading until it executes.   *)
(* Latencies keep translation ahead: the ROB does not fill up before its     *)
(* oldest instruction is translated.                                         *)
HandleBranch ==
  /\ ~fetch_stall
  /\ instr_unique_id <= Len(program)
  /\ Occupancy < RobSize
  /\ Occupancy + 1 = RobSize => rob[head].translated = "COMPLETED"
  /\ \E miss \in {FALSE, program[instr_unique_id].branch} :
       /\ rob' = [rob EXCEPT ![tail] = Decoded(instr_unique_id, miss)]
       /\ fetch_stall' = miss
  /\ sta' = sta \o [k \in DOMAIN program[instr_unique_id].stores |-> instr_unique_id]
  /\ tail' = Next1(tail, RobSize)
  /\ instr_unique_id' = instr_unique_id + 1
  /\ UNCHANGED <<program, head, last_read, last_fetch, next_schedule, itlb, lists,
                 lq, sq, sq_head, sq_tail, inflight, history>>

(* fetch_instruction, first half: the next instruction's page goes to the ITLB. *)
Translate ==
  LET i == Next1(last_read, RobSize) IN
  /\ Busy(i) /\ rob[i].translated = "no"
  /\ itlb' = itlb \cup {i}
  /\ last_read' = i
  /\ UNCHANGED <<program, instr_unique_id, tail, last_fetch, fetch_stall, rob, head,
                 next_schedule, lists, lq, sq, sq_head, sq_tail, sta, inflight, history>>

(* fetch_instruction, second half: the next translated one goes to the L1I.  *)
Fetch ==
  LET i == Next1(last_fetch, RobSize) IN
  /\ rob[i].translated = "COMPLETED" /\ rob[i].fetched = "no"
  /\ rob' = [rob EXCEPT ![i].fetched = "INFLIGHT"]
  /\ last_fetch' = i
  /\ UNCHANGED <<program, instr_unique_id, tail, last_read, itlb, fetch_stall, head,
                 next_schedule, lists, lq, sq, sq_head, sq_tail, sta, inflight, history>>

(* complete_instr_fetch for one instruction of an answered ITLB or L1I packet. *)
CompleteTranslation(i) ==
  /\ i \in itlb
  /\ itlb' = itlb \ {i}
  /\ rob' = [rob EXCEPT ![i].translated = "COMPLETED"]
  /\ UNCHANGED <<program, instr_unique_id, tail, last_read, last_fetch, fetch_stall, head,
                 next_schedule, lists, lq, sq, sq_head, sq_tail, sta, inflight, history>>

CompleteFetch(i) ==
  /\ rob[i].fetched = "INFLIGHT"
  /\ rob' = [rob EXCEPT ![i].fetched = "COMPLETED"]
  /\ UNCHANGED <<program, front, fetch_stall, head, next_schedule, lists, lq, sq,
                 sq_head, sq_tail, sta, inflight, history>>

-----------------------------------------------------------------------------
(* Register scheduling and execution.                                        *)

\* Mutant of RegProducer: a writer in execution is not waited for.
RegProducer_SkipsInFlight(i, j) ==
  LET writers == {k \in Older(i) : /\ rob[k].executed = "no"
                                   /\ Op(i).src[j] \in Op(k).dst}
  IN IF writers = {} THEN NoIndex ELSE Youngest(writers)

(* reg_dependency: for source j, the youngest older instruction that writes  *)
(* the register and has not executed; NoIndex if there is none.              *)
RegProducer(i, j) ==
  LET writers == {k \in Older(i) : /\ rob[k].executed # "COMPLETED"
                                   /\ Op(i).src[j] \in Op(k).dst}
  IN IF writers = {} THEN NoIndex ELSE Youngest(writers)

(* schedule_instruction and do_scheduling of one instruction.  The scan goes *)
(* from the head in order up to the first instruction not fetched, and never *)
(* past the end of the array: its limit next_fetch[1] stays 0.               *)
Schedule ==
  /\ rob[next_schedule].scheduled = "no"
  /\ \E i \in head .. RobSize - 1 :
       /\ \A k \in head .. i : rob[k].fetched = "COMPLETED"
       /\ rob[i].scheduled = "no"
       /\ \A k \in head .. i - 1 : rob[k].scheduled # "no"
       /\ LET waits == {j \in DOMAIN Op(i).src : RegProducer(i, j) # NoIndex}
              on(k) == {<<i, j>> : j \in {j \in waits : RegProducer(i, j) = k}}
              linked == [k \in RobIndex |->
                [rob[k] EXCEPT !.regs_depend_on_me = @ \cup on(k)]]
          IN /\ rob' = [linked EXCEPT
                  ![i].num_reg_dependent = Cardinality(waits),
                  ![i].reg_ready = (waits = {}),
                  ![i].scheduled = IF IsMemory(i) THEN "INFLIGHT" ELSE "COMPLETED"]
             /\ rte' = IF waits = {} /\ ~IsMemory(i)
                       THEN [rte EXCEPT ![2] = Append(@, i)] ELSE rte
       /\ next_schedule' = Next1(i, RobSize)
  /\ UNCHANGED <<program, front, fetch_stall, head, rtl, rts, lq, sq, sq_head, sq_tail,
                 sta, inflight, history>>

(* execute_instruction and do_execution: RTE0 and RTE1 are served in order.  *)
Execute(n) ==
  /\ rte[n] # <<>>
  /\ rob' = [rob EXCEPT ![Head(rte[n])].executed = "INFLIGHT"]
  /\ rte' = [rte EXCEPT ![n] = Tail(@)]
  /\ inflight' = [inflight EXCEPT !.reg = @ + 1]
  /\ UNCHANGED <<program, front, fetch_stall, head, next_schedule, rtl, rts, lq, sq,
                 sq_head, sq_tail, sta, history>>

\* A set of ROB indices in the order of the array, as a sequence.
Increasing(S) ==
  {s \in [1 .. Cardinality(S) -> S] : \A m, n \in DOMAIN s : m < n => s[m] < s[n]}

(* complete_execution with reg_RAW_release: the instructions whose last      *)
(* operand this was become ready, those without memory operands in RTE0.     *)
CompleteExecution(i) ==
  /\ inflight.reg > 0 \/ inflight.mem > 0
  /\ Busy(i) /\ rob[i].executed = "INFLIGHT"
  /\ IsMemory(i) => rob[i].num_mem_ops = 0
  /\ LET left(d) == rob[d].num_reg_dependent
                      - Cardinality({e \in rob[i].regs_depend_on_me : e[1] = d})
         ready == {d \in RobIndex : left(d) = 0 /\ rob[d].num_reg_dependent > 0}
         released(d) ==
           IF d \in ready
           THEN [rob[d] EXCEPT !.num_reg_dependent = 0, !.reg_ready = TRUE,
                   !.scheduled = IF IsMemory(d) THEN "INFLIGHT" ELSE "COMPLETED"]
           ELSE [rob[d] EXCEPT !.num_reg_dependent = left(d)]
     IN /\ rob' = [[d \in RobIndex |-> released(d)] EXCEPT ![i].executed = "COMPLETED"]
        /\ \E order \in Increasing({d \in ready : ~IsMemory(d)}) :
             rte' = [rte EXCEPT ![1] = @ \o order]
  /\ inflight' = IF IsMemory(i) THEN [inflight EXCEPT !.mem = @ - 1]
                                ELSE [inflight EXCEPT !.reg = @ - 1]
  /\ fetch_stall' = (fetch_stall /\ ~rob[i].mispredicted)
  /\ UNCHANGED <<program, front, head, next_schedule, rtl, rts, lq, sq, sq_head, sq_tail,
                 sta, history>>

-----------------------------------------------------------------------------
(* The load and store queues.                                                *)

(* One memory operation of instruction i is done: num_mem_ops--, and the last *)
(* one makes the instruction one of inflight_mem_executions.                  *)
Finished(r, D) ==
  [i \in RobIndex |-> [r[i] EXCEPT
     !.num_mem_ops = @ - Cardinality({d \in D : d[1] = i})]]
\* Mutants of NowDone: every operation counts, or none does.
NowDone_Each(r, D) == Cardinality({d[1] : d \in D})
NowDone_Never(r, D) == 0

NowDone(r, D) ==
  Cardinality({i \in {d[1] : d \in D} :
    r[i].num_mem_ops = Cardinality({d \in D : d[1] = i})})
Read(r, D, value) ==
  [i \in RobIndex |-> [r[i] EXCEPT
     !.got = [j \in DOMAIN @ |-> IF <<i, j>> \in D THEN value ELSE @[j]]]]

\* Mutants of StoreProducer: the oldest store, or stores are not searched.
StoreProducer_Oldest(i, a) ==
  LET stores == {k \in Older(i) : Writes(k, a)}
  IN IF stores = {} THEN NoIndex
     ELSE CHOOSE k \in stores : \A m \in stores : Age(k) <= Age(m)
StoreProducer_None(i, a) == NoIndex

(* add_load_queue and mem_RAW_dependency: the youngest older store to a.     *)
StoreProducer(i, a) ==
  LET stores == {k \in Older(i) : Writes(k, a)}
  IN IF stores = {} THEN NoIndex ELSE Youngest(stores)

(* The SQ holds the data of store k to a.                                    *)
CanForward(k, a) ==
  \E p \in SqIndex :
    /\ sq[p] # EmptyLsq /\ StoreId(sq[p]) = rob[k].id /\ StoreAddr(sq[p]) = a
    /\ sq[p].fetched = "COMPLETED"

(* add_load_queue: load j of instruction i takes the first free entry.  A    *)
(* load with a producer is completed from the SQ or waits for execute_store; *)
(* another joins RTL0.  s is the part of the state that check_and_add_lsq    *)
(* changes for loads.                                                        *)
AddLoad(s, i, j) ==
  LET free == {q \in LqIndex : s.lq[q] = EmptyLsq}
      q == CHOOSE q \in free : \A p \in free : q <= p
      a == Op(i).loads[j]
      prior == StoreProducer(i, a)
      added == [s.rob EXCEPT ![i].lq_index[j] = q]
      known == [added EXCEPT ![prior].mem_depend_on_me = @ \cup {i}]
      id == rob[prior].id
  IN CASE prior = NoIndex ->
            [s EXCEPT !.rob = added, !.lq[q] = LsqEntry(i, j), !.rtl0 = Append(@, q)]
       [] prior # NoIndex /\ CanForward(prior, a) ->
            [s EXCEPT !.rob = Read(Finished(known, {<<i, j>>}), {<<i, j>>}, id),
                      !.mem = @ + NowDone(known, {<<i, j>>})]
       [] OTHER ->
            [s EXCEPT !.rob = known,
                      !.lq[q] = [LsqEntry(i, j) EXCEPT
                        !.producer_id = id, !.translated = "INFLIGHT"]]

(* check_and_add_lsq: load j of i, unless it is in the LQ or that is full.   *)
AddIfRoom(s, i, j) ==
  IF rob[i].lq_index[j] = NoIndex /\ \E q \in LqIndex : s.lq[q] = EmptyLsq
  THEN AddLoad(s, i, j) ELSE s

\* All loads of i in turn, so that those the LQ has room for enter it.
AddLoads(i) ==
  LET start == [rob |-> rob, lq |-> lq, rtl0 |-> rtl[1], mem |-> inflight.mem]
      after[j \in 0 .. Len(Op(i).loads)] ==
        IF j = 0 THEN start ELSE AddIfRoom(after[j - 1], i, j)
  IN after[Len(Op(i).loads)]

\* Mutant of StoresToAdd: stores enter in the order they become ready.
StoresToAdd_AnyOrder(i) ==
  LET left == {k \in DOMAIN Op(i).stores : rob[i].sq_index[k] = NoIndex}
      room == SqSize - SqOccupancy
  IN {k \in left : Cardinality({m \in left : m <= k}) <= room}

(* add_store_queue: the stores of i enter the SQ while it has room, and only *)
(* when the STA says that it is their turn.                                  *)
StoresToAdd(i) ==
  LET left == {k \in DOMAIN Op(i).stores : rob[i].sq_index[k] = NoIndex}
      room == SqSize - SqOccupancy
  IN IF sta # <<>> /\ Head(sta) = rob[i].id
     THEN {k \in left : Cardinality({m \in left : m <= k}) <= room} ELSE {}

CanAdd(i) ==
  \/ StoresToAdd(i) # {}
  \/ /\ \E j \in DOMAIN Op(i).loads : rob[i].lq_index[j] = NoIndex
     /\ \E q \in LqIndex : lq[q] = EmptyLsq

(* schedule_memory_instruction's scan: from the head to next_schedule,       *)
(* memory instructions with their registers ready.                           *)
Scanned(i) ==
  /\ IF head < next_schedule THEN i \in head .. next_schedule - 1
                             ELSE i >= head \/ i < next_schedule
  /\ IsMemory(i) /\ rob[i].fetched = "COMPLETED"
  /\ rob[i].reg_ready /\ rob[i].scheduled = "INFLIGHT"

(* add_store_queue: each takes the SQ's tail, leaves the STA and joins RTS0. *)
(* r is the ROB after the loads were added.                                  *)
AddStores(r, i) ==
  LET new == StoresToAdd(i)
      slot(k) == (sq_tail + Cardinality({m \in new : m < k})) % SqSize
      taken == [m \in 1 .. Cardinality(new) |-> (sq_tail + m - 1) % SqSize]
  IN [rob |-> [r EXCEPT ![i].sq_index =
                [k \in DOMAIN @ |-> IF k \in new THEN slot(k) ELSE @[k]]],
      sq |-> [q \in SqIndex |-> IF \E k \in new : slot(k) = q
                THEN LsqEntry(i, CHOOSE k \in new : slot(k) = q) ELSE sq[q]],
      sq_tail |-> (sq_tail + Cardinality(new)) % SqSize,
      sta |-> SubSeq(sta, Cardinality(new) + 1, Len(sta)),
      rts0 |-> rts[1] \o taken]

(* do_memory_scheduling with check_and_add_lsq, for the oldest instruction   *)
(* that can make progress: the scan tries older ones first every cycle.      *)
ScheduleMemory(i) ==
  /\ Scanned(i) /\ CanAdd(i)
  /\ \A k \in Older(i) : ~(Scanned(k) /\ CanAdd(k))
  /\ LET l == AddLoads(i)
         s == AddStores(l.rob, i)
         all == NoIndex \notin Range(s.rob[i].lq_index) \cup Range(s.rob[i].sq_index)
     IN /\ rob' = IF all THEN [s.rob EXCEPT ![i].scheduled = "COMPLETED",
                                            ![i].executed = "INFLIGHT"]
                         ELSE s.rob
        /\ lq' = l.lq
        /\ rtl' = [rtl EXCEPT ![1] = l.rtl0]
        /\ inflight' = [inflight EXCEPT !.mem = l.mem]
        /\ sq' = s.sq /\ sq_tail' = s.sq_tail /\ sta' = s.sta
        /\ rts' = [rts EXCEPT ![1] = s.rts0]
  /\ UNCHANGED <<program, front, fetch_stall, head, next_schedule, rte, sq_head, history>>

\* Mutant of TranslateStore: the entry stays in RTS0.
TranslateStore_Again ==
  /\ rts[1] # <<>>
  /\ sq' = [sq EXCEPT ![Head(rts[1])].translated = "INFLIGHT"]
  /\ UNCHANGED <<program, front, fetch_stall, rob, head, next_schedule, lists, lq,
                 sq_head, sq_tail, sta, inflight, history>>

(* operate_lsq: the four lists.  RTS0 and RTL0 send to the DTLB, RTL1 to the *)
(* L1D.                                                                      *)
TranslateStore ==
  /\ rts[1] # <<>>
  /\ sq' = [sq EXCEPT ![Head(rts[1])].translated = "INFLIGHT"]
  /\ rts' = [rts EXCEPT ![1] = Tail(@)]
  /\ UNCHANGED <<program, front, fetch_stall, rob, head, next_schedule, rte, rtl, lq,
                 sq_head, sq_tail, sta, inflight, history>>

TranslateLoad ==
  /\ rtl[1] # <<>>
  /\ lq' = [lq EXCEPT ![Head(rtl[1])].translated = "INFLIGHT"]
  /\ rtl' = [rtl EXCEPT ![1] = Tail(@)]
  /\ UNCHANGED <<program, front, fetch_stall, rob, head, next_schedule, rte, rts, sq,
                 sq_head, sq_tail, sta, inflight, history>>

ExecuteLoad ==
  /\ rtl[2] # <<>>
  /\ lq' = [lq EXCEPT ![Head(rtl[2])].fetched = "INFLIGHT"]
  /\ rtl' = [rtl EXCEPT ![2] = Tail(@)]
  /\ UNCHANGED <<program, front, fetch_stall, rob, head, next_schedule, rte, rts, sq,
                 sq_head, sq_tail, sta, inflight, history>>

(* execute_store: the store is done, and so is the load in each LQ entry     *)
(* that a registered dependent got for its address, whoever has it now.      *)
Dependents(q) ==
  UNION {{<<d, j>> : j \in {n \in DOMAIN rob[d].lq_index :
                              /\ rob[d].lq_index[n] # NoIndex
                              /\ Op(d).loads[n] = StoreAddr(sq[q])}} :
         d \in rob[sq[q].rob_index].mem_depend_on_me}
LqOf(d) == rob[d[1]].lq_index[d[2]]
Forwarded(q) == {<<lq[LqOf(d)].rob_index, lq[LqOf(d)].data_index>> : d \in Dependents(q)}

(* Its assertion: each of these entries names the store as its producer,     *)
(* also after those before it were released.  A store whose assertion would  *)
(* fail is not executed: the program has aborted.                            *)
Matched(q) ==
  \A d \in Dependents(q) :
    /\ lq[LqOf(d)].producer_id = StoreId(sq[q])
    /\ \A e \in Dependents(q) : LqOf(d) = LqOf(e) => d = e

ExecuteStore ==
  /\ rts[2] # <<>>
  /\ Matched(Head(rts[2]))
  /\ LET q == Head(rts[2])
         D == Forwarded(q)
         done == D \cup {<<sq[q].rob_index, 0>>}
     IN /\ sq' = [sq EXCEPT ![q].fetched = "COMPLETED"]
        /\ rob' = Read(Finished(rob, done), D, StoreId(sq[q]))
        /\ inflight' = [inflight EXCEPT !.mem = @ + NowDone(rob, done)]
        /\ lq' = [l \in LqIndex |->
             IF \E d \in Dependents(q) : LqOf(d) = l THEN EmptyLsq ELSE lq[l]]
  /\ rts' = [rts EXCEPT ![2] = Tail(@)]
  /\ UNCHANGED <<program, front, fetch_stall, head, next_schedule, rte, rtl, sq_head,
                 sq_tail, sta, history>>

(* complete_data_fetch for one operation of an answered DTLB packet, its own *)
(* or a merged one (handle_merged_translation).                              *)
StoreTranslated(q) ==
  /\ sq[q].translated = "INFLIGHT"
  /\ sq' = [sq EXCEPT ![q].translated = "COMPLETED"]
  /\ rts' = [rts EXCEPT ![2] = Append(@, q)]
  /\ UNCHANGED <<program, front, fetch_stall, rob, head, next_schedule, rte, rtl, lq,
                 sq_head, sq_tail, sta, inflight, history>>

LoadTranslated(q) ==
  /\ lq[q].translated = "INFLIGHT" /\ lq[q].producer_id = NoProducer
  /\ lq' = [lq EXCEPT ![q].translated = "COMPLETED"]
  /\ rtl' = [rtl EXCEPT ![2] = Append(@, q)]
  /\ UNCHANGED <<program, front, fetch_stall, rob, head, next_schedule, rte, rts, sq,
                 sq_head, sq_tail, sta, inflight, history>>

\* Mutant of LoadDone: the LQ entry is not released.
LoadDone_Kept(q) ==
  /\ lq[q].fetched = "INFLIGHT"
  /\ LET D == {<<lq[q].rob_index, lq[q].data_index>>}
     IN /\ rob' = Read(Finished(rob, D), D, memory[LoadAddr(lq[q])])
        /\ inflight' = [inflight EXCEPT !.mem = @ + NowDone(rob, D)]
  /\ UNCHANGED <<program, front, fetch_stall, head, next_schedule, lists, lq, sq,
                 sq_head, sq_tail, sta, history>>

(* complete_data_fetch for one load of an answered L1D packet, its own or a  *)
(* merged one (handle_merged_load), with release_load_queue.                 *)
LoadDone(q) ==
  /\ lq[q].fetched = "INFLIGHT"
  /\ LET D == {<<lq[q].rob_index, lq[q].data_index>>}
     IN /\ rob' = Read(Finished(rob, D), D, memory[LoadAddr(lq[q])])
        /\ inflight' = [inflight EXCEPT !.mem = @ + NowDone(rob, D)]
  /\ lq' = [lq EXCEPT ![q] = EmptyLsq]
  /\ UNCHANGED <<program, front, fetch_stall, head, next_schedule, lists, sq,
                 sq_head, sq_tail, sta, history>>

-----------------------------------------------------------------------------
(* retire_rob: the head leaves when it has executed; its stores go to the    *)
(* L1D write queue (which has room at some time) and leave the SQ.           *)
Retire ==
  /\ Busy(head) /\ rob[head].executed = "COMPLETED"
  /\ LET op == Op(head)
         freed == Range(rob[head].sq_index) \ {NoIndex}
     IN /\ memory' = [a \in Addr |-> IF Writes(head, a) THEN rob[head].id ELSE memory[a]]
        /\ seen' = Append(seen, rob[head].got)
        /\ sq' = [q \in SqIndex |-> IF q \in freed THEN EmptyLsq ELSE sq[q]]
        /\ sq_head' = (sq_head + Cardinality(freed)) % SqSize
  /\ rob' = [rob EXCEPT ![head] = EmptyInstr]
  /\ head' = Next1(head, RobSize)
  /\ UNCHANGED <<program, front, fetch_stall, next_schedule, lists, lq, sq_tail, sta,
                 inflight>>

Next ==
  \/ HandleBranch \/ Translate \/ Fetch
  \/ \E i \in RobIndex :
       \/ CompleteTranslation(i) \/ CompleteFetch(i)
       \/ CompleteExecution(i) \/ ScheduleMemory(i)
  \/ Schedule
  \/ \E n \in 1 .. 2 : Execute(n)
  \/ TranslateStore \/ TranslateLoad \/ ExecuteLoad \/ ExecuteStore
  \/ \E q \in SqIndex : StoreTranslated(q)
  \/ \E q \in LqIndex : LoadTranslated(q) \/ LoadDone(q)
  \/ Retire

Spec == Init /\ [][Next]_vars

(* Every handler runs every cycle, the caches answer every request, and the  *)
(* L1D write queue has room again and again (AccessesComplete and            *)
(* FullWriteQueueDrains are about them): while a step is possible, one is    *)
(* taken.  No more is needed, since every step moves an instruction forward. *)
FairSpec == Spec /\ WF_vars(Next)

-----------------------------------------------------------------------------
(* Type invariant. *)
LsqType(Index) ==
  [rob_index : RobIndex \cup {NoIndex}, data_index : Nat, producer_id : Nat,
   translated : Stage, fetched : Stage]

TypeOK ==
  /\ program \in Programs
  /\ instr_unique_id \in 1 .. Len(program) + 1
  /\ fetch_stall \in BOOLEAN
  /\ \A i \in RobIndex :
       /\ rob[i].id \in 0 .. Len(program)
       /\ rob[i].num_mem_ops \in Nat /\ rob[i].num_reg_dependent \in Nat
       /\ {rob[i].translated, rob[i].fetched, rob[i].scheduled, rob[i].executed} \subseteq Stage
       /\ Range(rob[i].lq_index) \subseteq LqIndex \cup {NoIndex}
       /\ Range(rob[i].sq_index) \subseteq SqIndex \cup {NoIndex}
       /\ rob[i].mem_depend_on_me \subseteq RobIndex
  /\ {head, tail, last_read, last_fetch, next_schedule} \subseteq RobIndex
  /\ itlb \subseteq RobIndex
  /\ lq \in [LqIndex -> LsqType(LqIndex)] /\ sq \in [SqIndex -> LsqType(SqIndex)]
  /\ {sq_head, sq_tail} \subseteq SqIndex
  /\ inflight \in [reg : Nat, mem : Nat]
  /\ memory \in [Addr -> Nat]
  /\ Len(seen) < instr_unique_id

(* The assertions of fetch_instruction: translation and fetch run through    *)
(* the ROB in order, and their next entry has already been handled only if   *)
(* they have come round to the head; no instruction is sent twice.  Reading  *)
(* the trace is stalled exactly while a mispredicted branch is unresolved.   *)
FetchIsInOrder ==
  LET r == Next1(last_read, RobSize)
      f == Next1(last_fetch, RobSize)
  IN /\ Busy(r) /\ rob[r].translated # "no" => r = head
     /\ Busy(f) /\ rob[f].fetched # "no" => f = head
     /\ Busy(r) /\ rob[r].translated = "no" => r \notin itlb
     /\ fetch_stall <=> \E i \in RobIndex : /\ rob[i].mispredicted
                                            /\ rob[i].executed # "COMPLETED"

(* reg_dependency and reg_RAW_release together: an instruction executes, or  *)
(* a memory operation of it enters a queue, only when the youngest older     *)
(* writer of each of its registers has executed.                             *)
Started(i) ==
  \/ rob[i].executed # "no"
  \/ \E n \in 1 .. 2 : i \in Range(rte[n])
  \/ (Range(rob[i].lq_index) \cup Range(rob[i].sq_index)) \ {NoIndex} # {}

OperandsAreReady ==
  \A i \in RobIndex : Busy(i) /\ Started(i) =>
    \A j \in DOMAIN Op(i).src :
      LET writers == {k \in Older(i) : Op(i).src[j] \in Op(k).dst}
      IN writers # {} => rob[Youngest(writers)].executed = "COMPLETED"

(* add_load_queue: a load in the queue waits for the youngest older store to *)
(* its address, which knows of it and has not executed, and for no other; a  *)
(* load that goes to the caches has no older store to its address in the ROB. *)
LoadsWaitForYoungestStore ==
  \A q \in LqIndex : lq[q] # EmptyLsq =>
    LET i == lq[q].rob_index
        stores == {k \in Older(i) : Writes(k, LoadAddr(lq[q]))}
        k == Youngest(stores)
    IN IF stores = {} THEN lq[q].producer_id = NoProducer
       ELSE /\ lq[q].producer_id = rob[k].id
            /\ i \in rob[k].mem_depend_on_me
            /\ \A p \in Range(rob[k].sq_index) \ {NoIndex} :
                 StoreAddr(sq[p]) = LoadAddr(lq[q]) => sq[p].fetched # "COMPLETED"

(* The assertion of execute_store, and more: the LQ entries a store completes *)
(* wait for it and still belong to the loads that got them.                  *)
ForwardingMatches ==
  \A q \in SqIndex : sq[q] # EmptyLsq /\ sq[q].fetched # "COMPLETED" =>
    \A d \in Dependents(q) :
      /\ lq[LqOf(d)].producer_id = StoreId(sq[q])
      /\ lq[LqOf(d)].rob_index = d[1] /\ lq[LqOf(d)].data_index = d[2]

(* num_mem_ops is the number of operations not done yet, and the two inflight *)
(* counters count the instructions complete_execution must still visit; they  *)
(* are decremented in other functions than they are incremented in.           *)
Undone(i) ==
  LET load(j) == rob[i].lq_index[j] # NoIndex =>
        LET e == lq[rob[i].lq_index[j]] IN e.rob_index = i /\ e.data_index = j
      store(k) == rob[i].sq_index[k] # NoIndex =>
        sq[rob[i].sq_index[k]].fetched # "COMPLETED"
  IN Cardinality({j \in DOMAIN rob[i].lq_index : load(j)})
       + Cardinality({k \in DOMAIN rob[i].sq_index : store(k)})

CountersMatch ==
  /\ \A i \in RobIndex : rob[i].num_mem_ops = Undone(i)
  /\ inflight.reg = Cardinality({i \in RobIndex :
       Busy(i) /\ ~IsMemory(i) /\ rob[i].executed = "INFLIGHT"})
  /\ inflight.mem = Cardinality({i \in RobIndex :
       IsMemory(i) /\ rob[i].num_mem_ops = 0 /\ rob[i].executed # "COMPLETED"})

(* Every instruction ready to execute and every queue entry is in exactly one *)
(* ready list or waits for exactly one answer: no entry is lost, sent twice or *)
(* kept in a list after its release, and so no list overflows.                *)
Times(x, s) == Cardinality({n \in DOMAIN s : s[n] = x})
InOnePlace ==
  /\ \A i \in RobIndex : Times(i, rte[1]) + Times(i, rte[2]) =
       IF /\ Busy(i) /\ ~IsMemory(i) /\ rob[i].reg_ready
          /\ rob[i].scheduled = "COMPLETED" /\ rob[i].executed = "no"
       THEN 1 ELSE 0
  /\ \A q \in LqIndex :
       LET e == lq[q]
           used == e # EmptyLsq
       IN /\ Times(q, rtl[1]) = IF used /\ e.translated = "no" THEN 1 ELSE 0
          /\ Times(q, rtl[2]) =
               IF used /\ e.translated = "COMPLETED" /\ e.fetched = "no" THEN 1 ELSE 0
  /\ \A q \in SqIndex :
       LET e == sq[q]
           used == e # EmptyLsq
       IN /\ Times(q, rts[1]) = IF used /\ e.translated = "no" THEN 1 ELSE 0
          /\ Times(q, rts[2]) =
               IF used /\ e.translated = "COMPLETED" /\ e.fetched = "no" THEN 1 ELSE 0

(* Stores enter the SQ in program order and leave it in that order: the SQ   *)
(* from its head followed by the STA is the list of stores not yet retired,  *)
(* although instructions become ready in any order.                          *)
StoresKeepOrder ==
  LET slot(n) == (sq_head + n - 1) % SqSize
      queued == [n \in 1 .. SqOccupancy |-> StoreId(sq[slot(n)])]
      stores(id) == [k \in DOMAIN program[id].stores |-> id]
      live == [n \in 1 .. instr_unique_id - 1 - Len(seen) |-> stores(Len(seen) + n)]
  IN /\ \A n \in 1 .. SqOccupancy : sq[slot(n)] # EmptyLsq
     /\ queued \o sta = FlattenSeq(live)

(* A store keeps one list of its readers for all its addresses, so one that  *)
(* reads one of them through a younger store is found too.  The trace gives  *)
(* no such case: no instruction stores twice to an address, and when one     *)
(* stores to two addresses and a younger one loads both, no store to either  *)
(* comes between them.                                                       *)
StoredBy(p, x, a) == \E k \in 1 .. Len(p[x].stores) : p[x].stores[k] = a
LoadedBy(p, x, a) == \E j \in 1 .. Len(p[x].loads) : p[x].loads[j] = a
Uncrossed(p) ==
  /\ \A x \in 1 .. Len(p) : \A k, m \in 1 .. Len(p[x].stores) :
       p[x].stores[k] = p[x].stores[m] => k = m
  /\ \A x, y, z \in 1 .. Len(p) : \A a, b \in Addr :
       /\ x < y /\ y < z /\ StoredBy(p, x, a) /\ StoredBy(p, x, b)
       /\ StoredBy(p, y, a) /\ LoadedBy(p, z, a) /\ LoadedBy(p, z, b)
       => a = b

(* add_load_queue and execute_store together: in every trace a load waits    *)
(* for the one store whose data it needs; in an uncrossed trace that store   *)
(* completes it and nothing else (in others, execute_store may abort).       *)
LoadsMeetTheirStores ==
  LoadsWaitForYoungestStore /\ (Uncrossed(program) => ForwardingMatches)

(* The core is an in-order machine: each instruction's loads read what the   *)
(* last older store to their address wrote, whether they were forwarded,     *)
(* waited for it or read the cache, and instructions retire in order.        *)
Machine == INSTANCE InOrderMachine
RunsInOrder == Machine!Spec

(* Every instruction retires (main.cc aborts with print_deadlock otherwise)  *)
(* unless the assertion of execute_store ends the run first.                 *)
EveryInstructionRetires == Uncrossed(program) => <>(Len(seen) = Len(program))

=============================================================================
