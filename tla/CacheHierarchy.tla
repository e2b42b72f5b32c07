--------------------------- MODULE CacheHierarchy ---------------------------
(***************************************************************************)
(* The miss path of the simulated memory hierarchy: every CACHE object     *)
(* (ITLB, DTLB, STLB, L1I, L1D, L2C, LLC) with its read, write, prefetch   *)
(* and PROCESSED queues and its MSHRs, the handlers that CACHE::operate    *)
(* runs, and the calls by which neighbouring caches exchange packets.      *)
(*                                                                         *)
(* All caches run the same code; cache_type selects the branches.  Here    *)
(* Kind[c] plays the role of cache_type and Lower / Upper that of the      *)
(* lower_level and upper_level_icache / upper_level_dcache pointers that   *)
(* main.cc wires, so one module describes any of those hierarchies.        *)
(*                                                                         *)
(* Abstractions.  Time is abstracted: event_cycle + LATENCY is an          *)
(* arbitrary finite delay, so a handler may run whenever its queue has a   *)
(* head.  One set of blocks per cache is modelled.  The replacement policy *)
(* is "an invalid way first, else any way".  Statistics are left out.      *)
(***************************************************************************)
EXTENDS Integers, Sequences, FiniteSets

CONSTANTS
  Caches,       \* the CACHE objects
  Kind,         \* [Caches -> kind]: cache_type
  Dram,         \* uncore.DRAM, the lower level of the LLC
  NoLower,      \* lower_level == NULL (the STLB)
  Lower,        \* [Caches -> Caches \cup {Dram, NoLower}]
  PortOf,       \* [Caches -> Ports]: the port of the packets a cache issues
  Upper,        \* [Caches \cup {Dram} -> [Ports -> Caches]]
  FillLevel,    \* [Caches -> Nat]: FILL_L1, FILL_L2, FILL_LLC
  Addr,         \* block addresses (page numbers for the TLBs)
  NoAddr,       \* the tag of an invalid block
  NumWay, MshrSize, RqSize, WqSize, PqSize,   \* [Caches -> Nat]
  ProcessedSize,                              \* PROCESSED.SIZE
  DramRqSize, DramWqSize,
  Cpus, RobSize,   \* the reorder buffers
  Demands,      \* the accesses cores make: [cache, addr, type]
  Stores,       \* the stores cores retire: [cache, addr]
  Prefetches    \* what prefetch_line is called with: [cache, addr, fl]

VARIABLES
  block,        \* [Caches -> [way -> block]]
  mshr,         \* [Caches -> set of MSHR entries in use]
  rq, wq, pq,   \* [Caches -> sequence of packets], oldest first
  processed,    \* [Caches -> sequence of sets of instructions to wake]
  dramRq, dramWq,  \* packets and addresses queued in the DRAM controller
  warm,         \* all_warmup_complete == NUM_CPUS
  rob, robHead  \* state of every ROB slot, and the slot retired next

vars == <<block, mshr, rq, wq, pq, processed, dramRq, dramWq, warm, rob, robHead>>
dramVars == <<dramRq, dramWq>>
coreVars == <<rob, robHead>>

Slots == Cpus \X (0..RobSize - 1)
Ports == Cpus \X BOOLEAN      \* <<packet.cpu, packet.instruction>>
Kinds == {"ITLB", "DTLB", "STLB", "L1I", "L1D", "L2C", "LLC"}
Types == {"LOAD", "RFO", "PREFETCH", "WRITEBACK"}
Levels == {1, 2, 4, 8}

Packet == [addr: Addr, type: Types, fl: Levels, port: Ports, deps: SUBSET Slots]
Entry == [addr: Addr, type: Types, fl: Levels, port: Ports, deps: SUBSET Slots,
          returned: BOOLEAN]
EmptyBlock == [valid |-> FALSE, addr |-> NoAddr, dirty |-> FALSE]
Block == {EmptyBlock} \cup [valid: {TRUE}, addr: Addr, dirty: BOOLEAN]

ASSUME HierarchyAssumption ==
  /\ Kind \in [Caches -> Kinds]
  /\ Dram \notin Caches /\ NoLower \notin Caches \cup {Dram}
  /\ Lower \in [Caches -> Caches \cup {Dram, NoLower}]
  /\ \A c \in Caches : Lower[c] # c /\ (Kind[c] = "L1D" => Lower[c] \in Caches)
  /\ PortOf \in [Caches -> Ports]
  /\ Upper \in [Caches \cup {Dram} -> [Ports -> Caches]]
  /\ FillLevel \in [Caches -> {1, 2, 4}]
  /\ NoAddr \notin Addr

\* The caches of translations, which hold nothing that can be written.
Tlbs == {c \in Caches : Kind[c] \in {"ITLB", "DTLB", "STLB"}}

\* main.cc puts L2C and LLC below L1I and L1D, the STLB below the TLBs and the
\* page walk below the STLB only; retire_rob hands its stores to the L1D, and
\* the core's other accesses go to first-level caches.
ASSUME WiringAssumption ==
  /\ \A c \in Caches : Lower[c] \in Caches =>
       Kind[Lower[c]] \in {"STLB", "L2C", "LLC"} /\ (Lower[c] \in Tlbs => c \in Tlbs)
  /\ \A c \in Caches : Lower[c] = NoLower => c \in Tlbs
  /\ \A st \in Stores : Kind[st.cache] = "L1D"
  /\ \A d \in Demands : Kind[d.cache] \in {"ITLB", "DTLB", "L1I", "L1D"}

ASSUME SizeAssumption ==
  /\ NumWay \in [Caches -> Nat \ {0}]
  /\ MshrSize \in [Caches -> Nat] /\ RqSize \in [Caches -> Nat]
  /\ WqSize \in [Caches -> Nat] /\ PqSize \in [Caches -> Nat]
  /\ ProcessedSize \in Nat
  /\ DramRqSize \in Nat /\ DramWqSize \in Nat
  /\ RobSize \in Nat \ {0}

ASSUME InputAssumption ==
  /\ Demands \subseteq [cache: Caches, addr: Addr, type: {"LOAD", "RFO"}]
  /\ Stores \subseteq [cache: Caches, addr: Addr]
  /\ Prefetches \subseteq [cache: Caches, addr: Addr, fl: {1, 2, 4}]
-----------------------------------------------------------------------------
(* Lookups. *)

Ways(c) == 1..NumWay[c]

MinOf(a, b) == IF a < b THEN a ELSE b

\* PACKET_QUEUE::check_queue found the block in the queue.
Queued(q, a) == \E i \in DOMAIN q : q[i].addr = a

\* Ways whose tag matches; check_hit returns the first of them.
HitWays(c, a) == {w \in Ways(c) : block[c][w].valid /\ block[c][w].addr = a}
Hit(c, a) == HitWays(c, a) # {}
HitWay(c, a) == CHOOSE w \in HitWays(c, a) : \A v \in HitWays(c, a) : w <= v

\* check_mshr and check_dram_queue, on a set of entries.
InFlight(S, a) == \E e \in S : e.addr = a
\* Mutant of InMshr: the MSHRs are not searched before one is allocated.
InMshr_Skipped(c, a) == FALSE
InMshr(c, a) == InFlight(mshr[c], a)
\* Mutant of MshrFull: one entry too many is admitted.
MshrFull_Late(c) == Cardinality(mshr[c]) > MshrSize[c]
MshrFull(c) == Cardinality(mshr[c]) = MshrSize[c]

\* find_victim: the first invalid way, else any way; the policies of the LLC
\* (llc_find_victim) do not all prefer an invalid one.
InvalidWays(c) == {w \in Ways(c) : ~block[c][w].valid}
Victims(c) ==
  IF InvalidWays(c) = {} \/ Kind[c] = "LLC" THEN Ways(c)
  ELSE {w \in InvalidWays(c) : \A v \in InvalidWays(c) : w <= v}

\* Mutant of WqMatch: reads do not look into the write queue.
WqMatch_Skipped(c, a, word) == FALSE

\* The L1D write queue is searched by full address: word tells whether an
\* access to a queued block is to the same word.  Other queues ignore it.
WqMatch(c, a, word) == Queued(wq[c], a) /\ (Kind[c] = "L1D" => word)

NewEntry(p, r) == [addr |-> p.addr, type |-> p.type, fl |-> p.fl,
                   port |-> p.port, deps |-> p.deps, returned |-> r]

\* The packet as the next level sees it: only the first level wakes
\* instructions, so the copy sent down carries none.
Down(p) == [p EXCEPT !.deps = {}]

Pop(q, c) == [q EXCEPT ![c] = Tail(@)]
-----------------------------------------------------------------------------
(* Calls between caches.  m and q are the values of mshr and of the queue  *)
(* just before the call, which may already reflect the caller's updates.   *)

\* return_data of cache u: its MSHR entry for a becomes COMPLETED.
ReturnData(m, u, a) ==
  [m EXCEPT ![u] = {IF e.addr = a THEN [e EXCEPT !.returned = TRUE] ELSE e : e \in @}]

\* Mutant of Answer: the upper level is never told.
Answer_Never(m, c, p) == m

\* The "check fill level" block: answer the upper level if it waits.
Answer(m, c, p) ==
  IF p.fl < FillLevel[c] THEN ReturnData(m, Upper[c][p.port], p.addr) ELSE m

\* Push a completion on PROCESSED, dropped when the queue is full.
PushProcessed(c, deps) ==
  IF Len(processed[c]) < ProcessedSize
  THEN [processed EXCEPT ![c] = Append(@, deps)] ELSE processed

\* A duplicate read joins the packet queued for its block.
JoinRead(s, p) ==
  [i \in DOMAIN s |-> IF s[i].addr = p.addr
                      THEN [s[i] EXCEPT !.deps = @ \cup p.deps] ELSE s[i]]

\* Mutant of MergeRead: the duplicate read is dropped.
MergeRead_Forgets(q, l, p) == q

MergeRead(q, l, p) == [q EXCEPT ![l] = JoinRead(@, p)]

\* CACHE::add_rq of cache l.
AddRq(m, q, l, p, word) ==
  IF WqMatch(l, p.addr, word)
  THEN /\ mshr' = Answer(m, l, p)
       /\ processed' = IF Kind[l] = "L1D" THEN PushProcessed(l, p.deps) ELSE processed
       /\ rq' = q
  ELSE /\ mshr' = m
       /\ UNCHANGED processed
       /\ rq' = IF Queued(q[l], p.addr) THEN MergeRead(q, l, p)
                ELSE IF Len(q[l]) = RqSize[l] THEN q
                ELSE [q EXCEPT ![l] = Append(@, p)]

\* MEMORY_CONTROLLER::add_rq.
DramRqFull == Cardinality(dramRq) = DramRqSize

DramAddRq(m, p) ==
  IF ~warm \/ p.addr \in dramWq
  THEN /\ mshr' = ReturnData(m, Upper[Dram][p.port], p.addr)
       /\ UNCHANGED dramRq
  ELSE /\ mshr' = m
       /\ dramRq' = IF DramRqFull \/ InFlight(dramRq, p.addr)
                    THEN dramRq ELSE dramRq \cup {Down(p)}

\* lower_level->get_occupancy(2) = get_size(2): no room for a writeback.
LowerWqFull(c) ==
  IF Lower[c] = Dram THEN Cardinality(dramWq) = DramWqSize
  ELSE Len(wq[Lower[c]]) = WqSize[Lower[c]]

\* lower_level->add_wq, q being the write queues just before the call.
AddWq(q, l, p, word) ==
  IF \E i \in DOMAIN q[l] : q[l][i].addr = p.addr /\ (Kind[l] = "L1D" => word)
  THEN q ELSE [q EXCEPT ![l] = Append(@, p)]

\* A writeback carries the cpu that caused it and instruction == 0.
WritebackPacket(c, a, port) ==
  [addr |-> a, type |-> "WRITEBACK", fl |-> 2 * FillLevel[c],
   port |-> <<port[1], FALSE>>, deps |-> {}]

\* The eviction of way w of c: nothing for a clean block; a dirty one needs
\* room below (the caller's guard) and is handed to the lower level.
EvictOk(c, w) == block[c][w].dirty /\ Lower[c] # NoLower => ~LowerWqFull(c)

Evict(c, w, q, port) ==
  IF ~block[c][w].dirty \/ Lower[c] = NoLower
  THEN wq' = q /\ UNCHANGED dramWq
  ELSE IF Lower[c] = Dram
  THEN /\ wq' = q
       /\ dramWq' = IF warm THEN dramWq \cup {block[c][w].addr} ELSE dramWq
  ELSE /\ wq' = AddWq(q, Lower[c], WritebackPacket(c, block[c][w].addr, port), TRUE)
       /\ UNCHANGED dramWq

FillCache(c, w, a, dirty) ==
  block' = [block EXCEPT ![c][w] = [valid |-> TRUE, addr |-> a, dirty |-> dirty]]
-----------------------------------------------------------------------------
(* CACHE::handle_fill: the returned MSHR entry for a is installed in way w,*)
(* the upper level and the core are told, the entry is freed.  When the    *)
(* victim is dirty and the lower write queue is full nothing happens.      *)
\* Mutant of Fillable: an entry is filled before its data returned.
Fillable_Early(e) == TRUE

\* Mutant of FillsDirty: the RFO does not mark its block.
FillsDirty_Never(c, e) == FALSE

\* update_fill_cycle selects among the COMPLETED entries.
Fillable(e) == e.returned

\* "RFO marks cache line dirty".
FillsDirty(c, e) == Kind[c] = "L1D" /\ e.type = "RFO"

HandleFill(c, a) ==
  \E e \in mshr[c], w \in Victims(c) :
    /\ e.addr = a /\ Fillable(e)
    /\ EvictOk(c, w)
    /\ Evict(c, w, wq, e.port)
    /\ FillCache(c, w, a, FillsDirty(c, e))
    /\ mshr' = Answer([mshr EXCEPT ![c] = @ \ {e}], c, e)
    /\ processed' = IF \/ Kind[c] \in {"ITLB", "DTLB", "L1I"}
                      \/ (Kind[c] = "L1D" /\ e.type # "PREFETCH")
                    THEN PushProcessed(c, e.deps) ELSE processed
    /\ UNCHANGED <<rq, pq, dramRq, warm, coreVars>>

\* Mutant of MergeDemand: a prefetch in flight is not replaced.
MergeDemand_Keeps(e, p) == [e EXCEPT !.fl = MinOf(p.fl, @), !.deps = @ \cup p.deps]

\* Mutant of MergeDemand: the merged consumer is not recorded.
MergeDemand_Forgets(e, p) == [e EXCEPT !.fl = MinOf(p.fl, @)]

\* An access that finds its block in flight joins the MSHR entry; a prefetch
\* entry is replaced by the demand and keeps only whether it has returned.
MergeDemand(e, p) ==
  IF e.type = "PREFETCH" THEN NewEntry(p, e.returned)
  ELSE [e EXCEPT !.fl = MinOf(p.fl, @), !.deps = @ \cup p.deps]

Replace(c, e, f) == [mshr EXCEPT ![c] = (@ \ {e}) \cup {f}]

(* CACHE::handle_writeback. *)
WriteHit(c, p) ==
  /\ Hit(c, p.addr)
  /\ block' = [block EXCEPT ![c][HitWay(c, p.addr)].dirty = TRUE]
  /\ mshr' = Answer(mshr, c, p)
  /\ wq' = Pop(wq, c)
  /\ UNCHANGED <<rq, processed, dramVars>>

RfoNewMiss(c, p) ==
  /\ Kind[c] = "L1D" /\ ~Hit(c, p.addr)
  /\ ~InMshr(c, p.addr) /\ ~MshrFull(c)
  /\ AddRq([mshr EXCEPT ![c] = @ \cup {NewEntry(p, FALSE)}], rq, Lower[c], Down(p), TRUE)
  /\ wq' = Pop(wq, c)
  /\ UNCHANGED <<block, dramVars>>

RfoMerge(c, p) ==
  /\ Kind[c] = "L1D" /\ ~Hit(c, p.addr)
  /\ \E e \in mshr[c] :
       /\ e.addr = p.addr
       /\ mshr' = Replace(c, e, IF e.type = "PREFETCH" THEN NewEntry(p, e.returned)
                                ELSE [e EXCEPT !.fl = MinOf(p.fl, @)])
  /\ wq' = Pop(wq, c)
  /\ UNCHANGED <<block, rq, processed, dramVars>>

\* A writeback that misses below the L1D allocates without reading memory.
WriteAllocate(c, p) ==
  /\ Kind[c] # "L1D" /\ ~Hit(c, p.addr)
  /\ \E w \in Victims(c) :
       /\ EvictOk(c, w)
       /\ Evict(c, w, Pop(wq, c), p.port)
       /\ FillCache(c, w, p.addr, TRUE)
  /\ mshr' = Answer(mshr, c, p)
  /\ UNCHANGED <<rq, processed, dramRq>>

HandleWriteback(c) ==
  /\ wq[c] # <<>>
  /\ LET p == Head(wq[c]) IN
       WriteHit(c, p) \/ RfoNewMiss(c, p) \/ RfoMerge(c, p) \/ WriteAllocate(c, p)
  /\ UNCHANGED <<pq, warm, coreVars>>

(* CACHE::handle_read. *)
ReadHit(c, p) ==
  /\ Hit(c, p.addr)
  /\ processed' = IF Kind[c] \in {"ITLB", "DTLB", "L1I", "L1D"}
                  THEN PushProcessed(c, p.deps) ELSE processed
  /\ mshr' = Answer(mshr, c, p)
  /\ rq' = Pop(rq, c)
  /\ UNCHANGED dramRq

\* Below the STLB there is no cache: va_to_pa translates and the STLB calls
\* its own return_data at once.
ReadNewMiss(c, p) ==
  /\ ~Hit(c, p.addr) /\ ~InMshr(c, p.addr) /\ ~MshrFull(c)
  /\ LET Added(r) == [mshr EXCEPT ![c] = @ \cup {NewEntry(p, r)}] IN
       \/ /\ Lower[c] \in Caches
          /\ AddRq(Added(FALSE), Pop(rq, c), Lower[c], Down(p), TRUE)
          /\ UNCHANGED dramRq
       \/ /\ Lower[c] = Dram /\ ~DramRqFull
          /\ DramAddRq(Added(FALSE), p)
          /\ rq' = Pop(rq, c)
          /\ UNCHANGED processed
       \/ /\ Lower[c] = NoLower
          /\ mshr' = Added(TRUE)
          /\ rq' = Pop(rq, c)
          /\ UNCHANGED <<processed, dramRq>>

ReadMerge(c, p) ==
  /\ ~Hit(c, p.addr)
  /\ \E e \in mshr[c] : e.addr = p.addr /\ mshr' = Replace(c, e, MergeDemand(e, p))
  /\ rq' = Pop(rq, c)
  /\ UNCHANGED <<processed, dramRq>>

HandleRead(c) ==
  /\ rq[c] # <<>>
  /\ LET p == Head(rq[c]) IN ReadHit(c, p) \/ ReadNewMiss(c, p) \/ ReadMerge(c, p)
  /\ UNCHANGED <<block, wq, pq, dramWq, warm, coreVars>>
-----------------------------------------------------------------------------
\* A duplicate prefetch only lowers the fill level of the queued one.
JoinPrefetch(s, p) ==
  [i \in DOMAIN s |-> IF s[i].addr = p.addr
                      THEN [s[i] EXCEPT !.fl = MinOf(p.fl, @)] ELSE s[i]]

(* CACHE::add_pq of cache l. *)
AddPq(m, q, l, p, word) ==
  IF WqMatch(l, p.addr, word)
  THEN mshr' = Answer(m, l, p) /\ pq' = q
  ELSE /\ mshr' = m
       /\ pq' = IF Queued(q[l], p.addr)
                THEN [q EXCEPT ![l] = JoinPrefetch(@, p)]
                ELSE IF Len(q[l]) = PqSize[l] THEN q
                ELSE [q EXCEPT ![l] = Append(@, p)]

(* CACHE::handle_prefetch, which operate calls only when RQ is empty. *)
PrefetchHit(c, p) ==
  /\ Hit(c, p.addr)
  /\ mshr' = Answer(mshr, c, p)
  /\ pq' = Pop(pq, c)
  /\ UNCHANGED dramRq

\* A prefetch takes an MSHR only when it is to be filled at this level or above.
TakesMshr(c, p) == p.fl <= FillLevel[c]

PrefetchNewMiss(c, p) ==
  /\ ~Hit(c, p.addr) /\ ~InMshr(c, p.addr) /\ ~MshrFull(c)
  /\ LET m == IF TakesMshr(c, p)
              THEN [mshr EXCEPT ![c] = @ \cup {NewEntry(p, FALSE)}] ELSE mshr
     IN \/ /\ Lower[c] \in Caches /\ Len(pq[Lower[c]]) # PqSize[Lower[c]]
           /\ AddPq(m, Pop(pq, c), Lower[c], p, TRUE)
           /\ UNCHANGED dramRq
        \/ /\ Lower[c] = Dram /\ ~DramRqFull
           /\ DramAddRq(m, p)
           /\ pq' = Pop(pq, c)

PrefetchMerge(c, p) ==
  /\ ~Hit(c, p.addr)
  /\ \E e \in mshr[c] :
       e.addr = p.addr /\ mshr' = Replace(c, e, [e EXCEPT !.fl = MinOf(p.fl, @)])
  /\ pq' = Pop(pq, c)
  /\ UNCHANGED dramRq

HandlePrefetch(c) ==
  /\ pq[c] # <<>> /\ rq[c] = <<>>
  /\ LET p == Head(pq[c]) IN
       PrefetchHit(c, p) \/ PrefetchNewMiss(c, p) \/ PrefetchMerge(c, p)
  /\ UNCHANGED <<block, rq, wq, processed, dramWq, warm, coreVars>>
-----------------------------------------------------------------------------
(* The DRAM controller as the LLC sees it: reads are answered and writes   *)
(* drained in any order (its scheduling is the module DramController).     *)
DramReturn(a) ==
  /\ \E p \in dramRq : /\ p.addr = a
                       /\ mshr' = ReturnData(mshr, Upper[Dram][p.port], a)
                       /\ dramRq' = dramRq \ {p}
  /\ UNCHANGED <<block, rq, wq, pq, processed, dramWq, warm, coreVars>>

DramWrite(a) ==
  /\ a \in dramWq
  /\ dramWq' = dramWq \ {a}
  /\ UNCHANGED <<block, mshr, rq, wq, pq, processed, dramRq, warm, coreVars>>

WarmupComplete ==
  /\ ~warm
  /\ warm' = TRUE
  /\ UNCHANGED <<block, mshr, rq, wq, pq, processed, dramVars, coreVars>>

(* Prefetchers call prefetch_line from their hooks, for any block. *)
PrefetchLine(c, a, fl, word) ==
  /\ Len(pq[c]) < PqSize[c]
  /\ AddPq(mshr, pq, c, [addr |-> a, type |-> "PREFETCH", fl |-> fl,
                         port |-> PortOf[c], deps |-> {}], word)
  /\ UNCHANGED <<block, rq, wq, processed, dramVars, warm, coreVars>>
-----------------------------------------------------------------------------
(* The core.  An instruction occupies the ROB slot s, makes one access d   *)
(* through add_rq (retried while the queue is full), is woken by the       *)
(* PROCESSED queue and retires in order, sending its store to the L1D.     *)
Issue(s, d, word) ==
  /\ rob[s] = "free" /\ PortOf[d.cache][1] = s[1]
  /\ \/ WqMatch(d.cache, d.addr, word) \/ Queued(rq[d.cache], d.addr)
     \/ Len(rq[d.cache]) < RqSize[d.cache]
  /\ AddRq(mshr, rq, d.cache,
           [addr |-> d.addr, type |-> d.type, fl |-> FillLevel[d.cache],
            port |-> PortOf[d.cache], deps |-> {s}], word)
  /\ rob' = [rob EXCEPT ![s] = "waiting"]
  /\ UNCHANGED <<block, wq, pq, dramVars, warm, robHead>>

\* complete_instr_fetch / complete_data_fetch and the merged consumers.
CompleteFetch(c) ==
  /\ processed[c] # <<>>
  /\ rob' = [s \in Slots |-> IF s \in Head(processed[c]) THEN "done" ELSE rob[s]]
  /\ processed' = Pop(processed, c)
  /\ UNCHANGED <<block, mshr, rq, wq, pq, dramVars, warm, robHead>>

\* Mutant of NextSlot: the ROB head does not wrap.
NextSlot_NoWrap(i) == i + 1

NextSlot(i) == (i + 1) % RobSize

\* retire_rob of a slot without stores, and of one with the store st.
RetireSlot(cpu) ==
  /\ rob[<<cpu, robHead[cpu]>>] = "done"
  /\ rob' = [rob EXCEPT ![<<cpu, robHead[cpu]>>] = "free"]
  /\ robHead' = [robHead EXCEPT ![cpu] = NextSlot(@)]
  /\ UNCHANGED <<block, mshr, rq, pq, processed, dramVars, warm>>

Retire(cpu) == RetireSlot(cpu) /\ UNCHANGED wq

RetireStore(cpu, st, word) ==
  /\ RetireSlot(cpu)
  /\ PortOf[st.cache][1] = cpu
  /\ Len(wq[st.cache]) + 1 <= WqSize[st.cache]
  /\ wq' = AddWq(wq, st.cache,
                 [addr |-> st.addr, type |-> "RFO", fl |-> FillLevel[st.cache],
                  port |-> PortOf[st.cache], deps |-> {}], word)
-----------------------------------------------------------------------------
Init ==
  /\ block = [c \in Caches |-> [w \in Ways(c) |-> EmptyBlock]]
  /\ mshr = [c \in Caches |-> {}]
  /\ rq = [c \in Caches |-> <<>>]
  /\ wq = [c \in Caches |-> <<>>]
  /\ pq = [c \in Caches |-> <<>>]
  /\ processed = [c \in Caches |-> <<>>]
  /\ dramRq = {} /\ dramWq = {}
  /\ warm = FALSE
  /\ rob = [s \in Slots |-> "free"]
  /\ robHead = [cpu \in Cpus |-> 0]

CacheStep(c) ==
  \/ \E a \in Addr : HandleFill(c, a)
  \/ HandleWriteback(c) \/ HandleRead(c) \/ HandlePrefetch(c)

CoreStep ==
  \/ \E s \in Slots, d \in Demands, word \in BOOLEAN : Issue(s, d, word)
  \/ \E c \in Caches : CompleteFetch(c)
  \/ \E cpu \in Cpus : Retire(cpu)
  \/ \E cpu \in Cpus, st \in Stores, word \in BOOLEAN : RetireStore(cpu, st, word)
  \/ \E p \in Prefetches, word \in BOOLEAN : PrefetchLine(p.cache, p.addr, p.fl, word)

DramStep ==
  \/ \E a \in Addr : DramReturn(a) \/ DramWrite(a)
  \/ WarmupComplete

Next == (\E c \in Caches : CacheStep(c)) \/ CoreStep \/ DramStep

Spec == Init /\ [][Next]_vars

\* operate runs every handler once per cycle, so a handler that can make
\* progress does; update_fill_cycle selects returned entries in event_cycle
\* order, so every one of them comes first in the end.  The DRAM controller
\* must write only when its write queue is full (DramController shows it does,
\* FullWriteQueueDrains, and that it returns the reads, ReadsReturn).
Fairness ==
  /\ \A c \in Caches :
       /\ \A a \in Addr : WF_vars(HandleFill(c, a))
       /\ WF_vars(HandleWriteback(c)) /\ WF_vars(HandleRead(c))
       /\ WF_vars(HandlePrefetch(c)) /\ WF_vars(CompleteFetch(c))
  /\ \A a \in Addr : WF_vars(DramReturn(a))
  /\ WF_vars(Cardinality(dramWq) = DramWqSize /\ \E a \in Addr : DramWrite(a))

FairSpec == Spec /\ Fairness

(***************************************************************************)
(* Properties                                                              *)
(***************************************************************************)

\* Every variable keeps its type: in particular the ROB head stays a slot.
TypeOK ==
  /\ block = [c \in Caches |-> block[c]]
  /\ \A c \in Caches : block[c] \in [Ways(c) -> Block]
  /\ mshr \in [Caches -> SUBSET Entry]
  /\ rq \in [Caches -> Seq(Packet)]
  /\ wq \in [Caches -> Seq(Packet)]
  /\ pq \in [Caches -> Seq(Packet)]
  /\ processed \in [Caches -> Seq(SUBSET Slots)]
  /\ dramRq \subseteq Packet /\ dramWq \subseteq Addr
  /\ warm \in BOOLEAN
  /\ rob \in [Slots -> {"free", "waiting", "done"}]
  /\ robHead \in [Cpus -> 0..RobSize - 1]

\* No queue, MSHR file or DRAM queue holds more than its SIZE: the code tests
\* occupancy in some callers and trusts the sizes of cache.h in the others.
WithinCapacity ==
  /\ \A c \in Caches :
       /\ Cardinality(mshr[c]) <= MshrSize[c]
       /\ Len(rq[c]) <= RqSize[c] /\ Len(wq[c]) <= WqSize[c] /\ Len(pq[c]) <= PqSize[c]
  /\ Cardinality(dramRq) <= DramRqSize /\ Cardinality(dramWq) <= DramWqSize

InFlightEntry(c, a) == \E e \in mshr[c] : e.addr = a /\ ~e.returned

\* The copies of the request of cache c for a in the level below it.
Carriers(c, a) ==
  LET l == Lower[c]
      For(p) == p.addr = a /\ (l = Dram \/ p.fl < FillLevel[l]) /\ Upper[l][p.port] = c
  IN IF l = Dram THEN {<<"dram", p>> : p \in {r \in dramRq : For(r)}}
     ELSE {<<"rq", i>> : i \in {j \in DOMAIN rq[l] : For(rq[l][j])}}
          \cup {<<"pq", i>> : i \in {j \in DOMAIN pq[l] : For(pq[l][j])}}
          \cup {<<"mshr", e>> : e \in {f \in mshr[l] : For(f)}}

\* A request that will be answered has an MSHR entry still waiting for it in
\* the cache that will receive the answer, so the assertion of return_data
\* ("cannot find a matching entry!") and a double return never happen.
RequestsAreOwned ==
  /\ \A c \in Caches :
       LET Owned(p) == p.fl < FillLevel[c] => InFlightEntry(Upper[c][p.port], p.addr)
       IN /\ \A i \in DOMAIN rq[c] : Owned(rq[c][i])
          /\ \A i \in DOMAIN pq[c] : Owned(pq[c][i])
          /\ \A e \in mshr[c] : Owned(e)
  /\ \A p \in dramRq : InFlightEntry(Upper[Dram][p.port], p.addr)

\* A miss that waits has exactly one request below it: it was neither
\* dropped nor redirected by a merge, and it cannot be answered twice.
EveryMissHasOneRequest ==
  \A c \in Caches : Lower[c] # NoLower =>
    \A e \in mshr[c] : ~e.returned => Cardinality(Carriers(c, e.addr)) = 1

\* Callers of add_rq below the core ignore its result -2 (queue full): the
\* lower read queue must have room whenever an upper cache can allocate.
RoomForEveryMiss ==
  \A c \in Caches : Lower[c] \in Caches /\ ~MshrFull(c) =>
    Len(rq[Lower[c]]) < RqSize[Lower[c]]

\* An MSHR file has one entry per block; two would race for the answer.
OneEntryPerBlock == \A c \in Caches : \A e, f \in mshr[c] : e.addr = f.addr => e = f

\* The places where the instruction in slot s waits to be woken.
WakeupPlaces(s) ==
  UNION {{<<c, "rq", i>> : i \in {j \in DOMAIN rq[c] : s \in rq[c][j].deps}}
         \cup {<<c, "mshr", e>> : e \in {f \in mshr[c] : s \in f.deps}}
         \cup {<<c, "processed", i>> : i \in {j \in DOMAIN processed[c] : s \in processed[c][j]}}
         : c \in Caches}

\* Merging in RQ, in MSHRs and over a prefetch entry, forwarding from WQ and
\* PROCESSED neither lose nor duplicate the wake-up of an instruction.
NoLostWakeup ==
  \A s \in Slots : Cardinality(WakeupPlaces(s)) = IF rob[s] = "waiting" THEN 1 ELSE 0

\* A second copy of a block, which makes hits depend on the way that is found
\* first, appears in one case only: a prefetch is in flight when handle_writeback
\* allocates the block without looking at the MSHR.  A fill that answers a
\* demand, and every other step, leaves one copy.
OneCopyUnlessPrefetched ==
  [][\A c \in Caches, a \in Addr :
       Cardinality(HitWays(c, a)) <= 1 /\ Cardinality(HitWays(c, a))' > 1 =>
         \E e \in mshr[c] : e.addr = a /\ e.type = "PREFETCH"]_vars

\* Where the memory system remembers that block a holds a store.
RfoPending(a) ==
  \E c \in Caches : Kind[c] = "L1D" /\
    (Queued(wq[c], a) \/ \E e \in mshr[c] : e.addr = a /\ e.type = "RFO")
Dirty(a) == \E c \in Caches : \E w \in Ways(c) : block[c][w].addr = a /\ block[c][w].dirty
WritebackPending(a) ==
  a \in dramWq \/ \E c \in Caches : Kind[c] # "L1D" /\ Queued(wq[c], a)
Modified(a) == RfoPending(a) \/ Dirty(a) \/ WritebackPending(a)

\* The one step that forgets a store: an RFO that joins a load in flight.
RfoJoinsLoad(a) ==
  \E c \in Caches : /\ Kind[c] = "L1D" /\ wq[c] # <<>> /\ Head(wq[c]).addr = a
                    /\ wq'[c] = Tail(wq[c])
                    /\ \E e \in mshr[c] : e.addr = a /\ e.type = "LOAD"

\* "RFO marks cache line dirty" (handle_fill), and the block stays modified
\* somewhere in the hierarchy until DRAM writes it; only the warm-up, which drops
\* DRAM writes, and RfoJoinsLoad break the chain of dirty bits, write-backs and
\* their merges.
ModifiedUntilWritten ==
  [][\A a \in Addr : Modified(a) /\ ~Modified(a)' =>
       a \in dramWq \/ ~warm \/ RfoJoinsLoad(a)]_vars

\* main.cc aborts ("print_deadlock") when the ROB head makes no progress: an
\* instruction that waits for its access is eventually woken.
AccessesComplete == \A s \in Slots : rob[s] = "waiting" ~> rob[s] = "done"
=============================================================================
