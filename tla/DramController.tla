--------------------------- MODULE DramController ---------------------------
(***************************************************************************)
(* MEMORY_CONTROLLER of dram_controller.cc, one channel: the read and the  *)
(* write queue, the banks, the scheduler that serves open rows first, and  *)
(* the write mode that hysteresis on the write queue turns on and off.     *)
(* Channels share no state, so one stands for all.                         *)
(*                                                                         *)
(* operate runs a mode switch, at most one schedule and at most one        *)
(* process per cycle.  Time is abstracted: whether an event_cycle or the   *)
(* data bus has come up is a choice.  Requests arrive with event_cycles in *)
(* any order; a scheduled one is due a fixed latency later, so requests    *)
(* come due in the order in which they were scheduled.                     *)
(***************************************************************************)
EXTENDS Integers, Sequences, FiniteSets

CONSTANTS
  Addr,            \* block addresses
  Free,            \* address 0: an empty entry
  Banks, Rows,
  NoRow,           \* open_row == UINT32_MAX
  Bank, Row,       \* dram_get_rank/bank and dram_get_row of an address
  RqSize, WqSize   \* DRAM_RQ_SIZE, DRAM_WQ_SIZE

VARIABLES
  rq, wq,    \* the queues
  bank,      \* bank_request
  writeMode, scheduledReads, scheduledWrites,
  warm,      \* all_warmup_complete == NUM_CPUS
  waiting    \* blocks for which the LLC has an MSHR entry waiting

vars == <<rq, wq, bank, writeMode, scheduledReads, scheduledWrites, warm, waiting>>

ASSUME DramAssumption ==
  /\ Free \notin Addr /\ NoRow \notin Rows
  /\ Bank \in [Addr -> Banks] /\ Row \in [Addr -> Rows]
  /\ RqSize \in Nat \ {0} /\ WqSize \in Nat \ {0}

NoSlot == -1
HighWatermark == (WqSize * 3) \div 4     \* DRAM_WRITE_HIGH_WM
LowWatermark == WqSize \div 4            \* DRAM_WRITE_LOW_WM
-----------------------------------------------------------------------------
(* Queues.  order holds the scheduled slots by event_cycle; unscheduled and *)
(* next are next_schedule_index (only whether there is one matters) and     *)
(* next_process_index, which the code caches and refreshes by hand.         *)
EmptyQueue(size) ==
  [entry |-> [i \in 0..size - 1 |-> Free], order |-> <<>>,
   unscheduled |-> FALSE, next |-> NoSlot]

Used(q) == {i \in DOMAIN q.entry : q.entry[i] # Free}
Occupancy(q) == Cardinality(Used(q))
Full(q) == Used(q) = DOMAIN q.entry
Blocks(q) == {q.entry[i] : i \in Used(q)}
Scheduled(q) == {q.order[i] : i \in DOMAIN q.order}
Unscheduled(q) == Used(q) \ Scheduled(q)

\* Mutant of UpdateSchedule: the cached index is not refreshed.
UpdateSchedule_Stale(q) == q

UpdateSchedule(q) == [q EXCEPT !.unscheduled = Unscheduled(q) # {}]

\* Mutant of UpdateProcess: the newest scheduled request is selected.
UpdateProcess_Newest(q) ==
  [q EXCEPT !.next = IF q.order = <<>> THEN NoSlot ELSE q.order[Len(q.order)]]

UpdateProcess(q) ==
  [q EXCEPT !.next = IF q.order = <<>> THEN NoSlot ELSE Head(q.order)]

\* The schedule s without slot i, which is in it.
Without(s, i) ==
  LET k == CHOOSE j \in DOMAIN s : s[j] = i
  IN [j \in 1..Len(s) - 1 |-> IF j < k THEN s[j] ELSE s[j + 1]]

\* The request is put into the first empty entry; dropped when there is none.
Insert(q, a) ==
  IF Full(q) THEN q
  ELSE LET i == CHOOSE j \in DOMAIN q.entry \ Used(q) :
                  \A k \in DOMAIN q.entry \ Used(q) : j <= k
       IN UpdateSchedule([q EXCEPT !.entry[i] = a])
-----------------------------------------------------------------------------
(* The controller as a record d, so that the steps of one cycle compose.    *)
Queue(d, w) == IF w THEN d.wq ELSE d.rq
SetQueue(d, w, q) == IF w THEN [d EXCEPT !.wq = q] ELSE [d EXCEPT !.rq = q]

IdleBank(row) == [request |-> NoSlot, kind |-> "idle", row |-> row]

\* The banks that serve a scheduled request of q.
BanksOf(q) == {Bank[q.entry[i]] : i \in Scheduled(q)}

\* Mutant of ResetRemaining: the counters are left alone.
ResetRemaining_KeepsCount(d, w) ==
  LET q == Queue(d, w)
      Reset(r) == UpdateProcess(UpdateSchedule(r))
      e == SetQueue(d, w, [q EXCEPT !.order = <<>>])
  IN {[e EXCEPT !.rq = Reset(@), !.wq = Reset(@),
                !.bank = [b \in Banks |-> IF b \notin BanksOf(q) THEN d.bank[b]
                                          ELSE IdleBank(NoRow)]] : closed \in {{}}}

\* reset_remain_requests: what is scheduled becomes unscheduled again.  The
\* row of a bank stays open only if it had been activated already (closed: it
\* had not).
ResetRemaining(d, w) ==
  LET q == Queue(d, w)
      Reset(r) == UpdateProcess(UpdateSchedule(r))
      e == SetQueue(d, w, [q EXCEPT !.order = <<>>])
      Busy(kind) == Cardinality({b \in BanksOf(q) : d.bank[b].kind = kind})
  IN {[e EXCEPT !.rq = Reset(@), !.wq = Reset(@),
                !.reads = @ - Busy("read"), !.writes = @ - Busy("write"),
                !.bank = [b \in Banks |-> IF b \notin BanksOf(q) THEN d.bank[b]
                          ELSE IdleBank(IF b \in closed THEN NoRow ELSE d.bank[b].row)]]
       : closed \in SUBSET BanksOf(q)}

\* Mutant of Switch: the mode changes but the requests stay scheduled.
Switch_NoReset(d) ==
  IF ~d.mode /\ Occupancy(d.wq) >= HighWatermark THEN {[d EXCEPT !.mode = TRUE]}
  ELSE IF d.mode /\ (\/ Occupancy(d.wq) = 0
                     \/ Occupancy(d.rq) # 0 /\ Occupancy(d.wq) < LowWatermark)
  THEN {[d EXCEPT !.mode = FALSE]}
  ELSE {d}

\* Write mode starts at the high watermark; it ends when the queue is empty,
\* or below the low watermark while a read waits.
Switch(d) ==
  IF ~d.mode /\ Occupancy(d.wq) >= HighWatermark
  THEN ResetRemaining([d EXCEPT !.mode = TRUE], FALSE)
  ELSE IF d.mode /\ (\/ Occupancy(d.wq) = 0
                     \/ Occupancy(d.rq) # 0 /\ Occupancy(d.wq) < LowWatermark)
  THEN ResetRemaining([d EXCEPT !.mode = FALSE], TRUE)
  ELSE {d}

\* Mutant of Ready: a busy bank is given a second request.
Ready_Busy(d, q) == Unscheduled(q)

\* Requests of q whose bank is idle.
Ready(d, q) == {i \in Unscheduled(q) : d.bank[Bank[q.entry[i]]].kind = "idle"}

OpenRow(d, q) == {i \in Ready(d, q) : d.bank[Bank[q.entry[i]]].row = Row[q.entry[i]]}

\* schedule: the bank of an open-row request, or else of any ready request,
\* starts working for it.
Assign(d, w, i) ==
  LET q == Queue(d, w)
      a == q.entry[i]
      e == [d EXCEPT !.bank[Bank[a]] = [request |-> i, row |-> Row[a],
                                        kind |-> IF w THEN "write" ELSE "read"],
                     !.writes = IF w THEN @ + 1 ELSE @,
                     !.reads = IF w THEN @ ELSE @ + 1]
  IN SetQueue(e, w, UpdateProcess(UpdateSchedule([q EXCEPT !.order = Append(@, i)])))

Schedule(d, w) ==
  LET q == Queue(d, w)
      choices == IF OpenRow(d, q) # {} THEN OpenRow(d, q) ELSE Ready(d, q)
  IN {d} \cup IF q.unscheduled THEN {Assign(d, w, i) : i \in choices} ELSE {}

\* Mutant of Answered: the read completes but its data is not returned.
Answered_Never(d, w, a) == d.waiting

\* Only reads are returned to the LLC.
Answered(d, w, a) == IF w THEN d.waiting ELSE d.waiting \ {a}

\* process: when the bank and the data bus are ready the request completes; a
\* read is returned to the LLC.
Complete(d, w) ==
  LET q == Queue(d, w)
      a == q.entry[q.next]
      e == [d EXCEPT !.bank[Bank[a]] = IdleBank(@.row),
                     !.writes = IF w THEN @ - 1 ELSE @,
                     !.reads = IF w THEN @ ELSE @ - 1,
                     !.waiting = Answered(d, w, a)]
  IN SetQueue(e, w, UpdateProcess([q EXCEPT !.entry[q.next] = Free,
                                            !.order = Without(@, q.next)]))

Process(d, w) == {d} \cup IF Queue(d, w).next # NoSlot THEN {Complete(d, w)} ELSE {}
-----------------------------------------------------------------------------
State == [rq |-> rq, wq |-> wq, bank |-> bank, mode |-> writeMode,
          reads |-> scheduledReads, writes |-> scheduledWrites, waiting |-> waiting]

\* MEMORY_CONTROLLER::operate.
Operate ==
  /\ \E d \in Switch(State) : \E e \in Schedule(d, d.mode) : \E f \in Process(e, e.mode) :
       /\ rq' = f.rq /\ wq' = f.wq /\ bank' = f.bank /\ writeMode' = f.mode
       /\ scheduledReads' = f.reads /\ scheduledWrites' = f.writes
       /\ waiting' = f.waiting
  /\ UNCHANGED warm

\* Mutant of Forwarded: the write queue is not searched by reads.
Forwarded_Never(a) == ~warm

\* A read that is answered at once: before the warm-up ends, or from WQ.
Forwarded(a) == ~warm \/ a \in Blocks(wq)

\* add_rq, which the LLC calls after allocating an MSHR entry and only while
\* the read queue has room.
AddRq(a) ==
  /\ a \notin waiting /\ ~Full(rq)
  /\ IF Forwarded(a) THEN UNCHANGED <<rq, waiting>>
     ELSE /\ waiting' = waiting \cup {a}
          /\ rq' = IF a \in Blocks(rq) THEN rq ELSE Insert(rq, a)
  /\ UNCHANGED <<wq, bank, writeMode, scheduledReads, scheduledWrites, warm>>

\* add_wq, which the LLC calls only while the write queue has room.
AddWq(a) ==
  /\ ~Full(wq)
  /\ wq' = IF ~warm \/ a \in Blocks(wq) THEN wq ELSE Insert(wq, a)
  /\ UNCHANGED <<rq, bank, writeMode, scheduledReads, scheduledWrites, warm, waiting>>

WarmupComplete ==
  /\ ~warm /\ warm' = TRUE
  /\ UNCHANGED <<rq, wq, bank, writeMode, scheduledReads, scheduledWrites, waiting>>

Init ==
  /\ rq = EmptyQueue(RqSize) /\ wq = EmptyQueue(WqSize)
  /\ bank = [b \in Banks |-> IdleBank(NoRow)]
  /\ writeMode = FALSE /\ scheduledReads = 0 /\ scheduledWrites = 0
  /\ warm = FALSE /\ waiting = {}

Request == \E a \in Addr : AddRq(a) \/ AddWq(a)
Next == Request \/ Operate \/ WarmupComplete
Spec == Init /\ [][Next]_vars

\* operate runs every cycle, and the time of every event comes.
FairSpec == Spec /\ WF_vars(Operate)
-----------------------------------------------------------------------------
Slots(size) == 0..size - 1

QueueType(size) ==
  [entry: [Slots(size) -> Addr \cup {Free}], order: Seq(Slots(size)),
   unscheduled: BOOLEAN, next: Slots(size) \cup {NoSlot}]

\* Every variable keeps its type; the counters of scheduled requests never
\* wrap below zero (they are unsigned) nor exceed the queues.
TypeOK ==
  /\ rq \in QueueType(RqSize) /\ wq \in QueueType(WqSize)
  /\ bank \in [Banks -> [request: Int, kind: {"idle", "read", "write"},
                         row: Rows \cup {NoRow}]]
  /\ writeMode \in BOOLEAN /\ warm \in BOOLEAN
  /\ scheduledReads \in 0..RqSize /\ scheduledWrites \in 0..WqSize
  /\ waiting \subseteq Addr

\* A bank works for exactly one scheduled request and knows its entry, so the
\* assertion of process (request_index of the bank) holds.
BanksMatchQueues ==
  /\ \A w \in BOOLEAN : \A i \in Scheduled(Queue(State, w)) :
       LET q == Queue(State, w)
           b == bank[Bank[q.entry[i]]]
       IN b.request = i /\ b.kind = IF w THEN "write" ELSE "read"
  /\ Cardinality({b \in Banks : bank[b].kind # "idle"})
       = Cardinality(Scheduled(rq)) + Cardinality(Scheduled(wq))

\* The counters agree with the queues, which is what the assertions at the end
\* of reset_remain_requests need, and none of them passes below zero.
CountersMatch ==
  /\ TypeOK
  /\ scheduledReads = Cardinality(Scheduled(rq))
  /\ scheduledWrites = Cardinality(Scheduled(wq))

\* Only the queue that the mode serves has scheduled requests between cycles.
OneDirection == IF writeMode THEN rq.order = <<>> ELSE wq.order = <<>>

\* The cached indices are those a scan of the queue would find, so a request is
\* never overlooked and an empty entry never processed.
CachesAreFresh ==
  \A q \in {rq, wq} :
    /\ q.unscheduled = (Unscheduled(q) # {})
    /\ q.next = IF q.order = <<>> THEN NoSlot ELSE Head(q.order)

\* The LLC waits for exactly the blocks in the read queue: no read is lost by a
\* mode switch or by forwarding, and none is answered twice.  (The merge of two
\* reads is there in add_rq, but the LLC's MSHRs ask for a block only once.)
WaitsAreQueued == waiting = Blocks(rq)

\* The scheduler implements the port that the LLC relies on.
P == INSTANCE MemoryPort WITH reads <- Blocks(rq), writes <- Blocks(wq)
ImplementsPort == P!Spec

\* A full write queue, which blocks fills of the LLC, drains.
FullWriteQueueDrains == Full(wq) ~> ~Full(wq)

\* A read waits for ever only if requests arrive for ever: when they stop (the
\* cores' windows are full) every read is answered, while as long as row hits
\* keep arriving the scheduler may pass over an older read.
ReadsReturn ==
  \A a \in Addr : []<>(a \notin waiting) \/ []<><<Request>>_vars
=============================================================================
