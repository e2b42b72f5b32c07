# A formal model of the simulator

This directory models and verifies the simulator of this repository: a
trace-driven, multi-core, out-of-order CPU simulator with a full memory
hierarchy (a ChampSim descendant), in which prefetchers and replacement policies
are plugged in. What can be wrong in such a program without a test noticing is
the bookkeeping between its parts: packets that merge, wait, are answered and
freed in orders nobody wrote down. That bookkeeping is what is modelled here.

## The system

One `O3_CPU` per core (`src/src/ooo_cpu.cc`) holds a reorder buffer, a load and
a store queue and six `CACHE` objects: ITLB, DTLB, STLB, L1I, L1D, L2C. The
cores share the `UNCORE`: one LLC (also a `CACHE`) and the `MEMORY_CONTROLLER`.
The main loop (`src/src/main.cc`) runs, every cycle and for every core, fetch,
schedule, execute, the memory operations, every cache's `operate`, `update_rob`
and `retire_rob`, then the LLC and the DRAM controller.

| Component | State | Operations | Interacts by |
|---|---|---|---|
| `CACHE` (`src/src/cache.cc`) | blocks, RQ, WQ, PQ, PROCESSED, MSHR | `handle_fill`, `handle_writeback`, `handle_read`, `handle_prefetch`, `add_rq/wq/pq`, `return_data`, `prefetch_line` | calls `add_*` of `lower_level`, `return_data` of `upper_level_icache/dcache`, fills PROCESSED for the core |
| `PACKET_QUEUE` (`src/src/block.cc`) | circular buffer, head, tail, occupancy | `check_queue`, `add_queue`, `remove_queue` | used by every cache |
| `MEMORY_CONTROLLER` (`src/src/dram_controller.cc`) | RQ, WQ, banks with open rows, write mode, scheduled counters, cached next indices | `operate`, `schedule`, `process`, `reset_remain_requests`, `add_rq`, `add_wq` | `return_data` of the LLC |
| `O3_CPU` | ROB, LQ, SQ, STA, RTE/RTS/RTL lists | fetch, schedule, execute, forward, complete, retire | `add_rq` of TLBs and L1s, `add_wq` of the L1D, reads PROCESSED |
| page table (`va_to_pa`) | `page_table`, `inverse_table`, `page_queue` | allocate, swap | called by the STLB, invalidates TLB and cache entries |
| `fastset` (`src/inc/set.h`) | sorted array or bit vector | insert, search, join, expand | merged consumers of a packet |
| replacement (`src/replacement`) | LRU positions, RRPVs, SHCT, PSEL, OPTgen | victim, update | called by fills and hits |
| prefetchers, branch predictors | tables | predict, train | call `prefetch_line`; answer fetch |

What is hard: requests for one block meet in every queue and at every level and
merge; answers are routed by a fill level, a cpu number and an instruction bit
remembered in one MSHR entry; full queues push back upwards while answers flow
down; the DRAM controller undoes its schedule when it changes direction; several
values (`next_fill_index`, `next_schedule_index`, counters) are caches of a scan
and refreshed by hand. Everything is single-threaded: the interleavings are those
of handlers and latencies, not of threads. The simulator asserts rather than
recovers, so "no assertion fires" and "the ROB head always makes progress"
(`print_deadlock`) are its two correctness conditions.

## Modules

| Module | Models | Notes |
|---|---|---|
| `CacheHierarchy` | every `CACHE` object, the packets between levels, the core's side (issue, completion, in-order retirement) and the DRAM as the LLC sees it | the wiring is a parameter: `Kind`, `Lower`, `Upper`, `PortOf`, `FillLevel` |
| `SeparateBlocks` | no state: what main.cc's wiring, cache.h's sizes and a program that shares no block guarantee `CacheHierarchy`, as assumptions | needed by `Requests_proofs` |
| `MCHierarchy`, `MCSeparate` | its instances, and those of them that satisfy `SeparateBlocks` | data side, data side with DTLB and STLB, split L1, two cores |
| `CacheHierarchy_proofs`, `Requests_proofs` | theorems | |
| `PacketQueue`, `Fifo` | the circular buffer, and the queue it implements | refinement |
| `PacketQueue_proofs` | theorems | |
| `DramController`, `MemoryPort` | one DRAM channel, and what the LLC may rely on | refinement |
| `DramController_proofs` | theorems | |
| `PageTable` | `va_to_pa`, the TLBs its answers pass through, the frames each core caches | |
| `PageTable_proofs` | theorems | |
| `FastSet`, `IndexSet` | the two representations of a dependence set, and the set they implement | refinement |
| `OutOfOrderCore`, `InOrderMachine` | one `O3_CPU`: ROB, register dependences, load and store queues, forwarding, retirement; and the in-order machine it implements | refinement |
| `OutOfOrderCore_proofs`, `MemoryQueues_proofs` | theorems | |
| `Replacement` | one LLC set under LRU or Hawkeye, with OPTgen and the predictor | |
| `Replacement_proofs` | theorems | |
| `OptimalCache` | the most hits any schedule of a cache can have (Belady), against which OPTgen is checked | reference |
| `MCPacketQueue`, `MCDram`, `MCPageTable`, `MCFastSet`, `MCCore`, `MCReplacement` | their instances | |

### CacheHierarchy and the code

`block`, `mshr`, `rq`, `wq`, `pq`, `processed` are the members of `CACHE` with
the same names; an MSHR file is a set of entries because only `check_mshr`
(search by address) and `update_fill_cycle` (the returned entry with the smallest
cycle) look into it. Queues are sequences: that the circular buffer behaves as
one is what `PacketQueue` shows. A packet keeps its block address, type, fill
level, `<<cpu, instruction>>` (its *port*, which selects the upper cache to
answer) and the set of instructions it wakes: `rob_index`, `lq_index`, `sq_index`
and the three `*_index_depend_on_me` sets with their `*_merged` flags are all one
set of ROB slots here. A copy sent to the next level carries no wake-ups, because
only the first level's copy reaches PROCESSED.

Each handler is one action with one disjunct per outcome in the code: hit, new
miss, merge with an in-flight miss, allocate. Where the code changes nothing and
retries in a later cycle (MSHR full, lower queue full, dirty victim without room)
the action is disabled. Calls between caches (`add_rq`, `add_pq`, `add_wq`,
`return_data`) are part of the caller's action and see the caller's updates.

Abstractions: event cycles and latencies are arbitrary finite delays; one set of
blocks per cache is modelled; the victim is an invalid way if there is one and
otherwise any way, in the LLC always any way, which covers every replacement
policy (Hawkeye does not prefer invalid ways); prefetchers may call
`prefetch_line` at any moment for any block of `Prefetches`, which covers every
prefetcher; the L1D write queue, searched by full address, matches or not by
choice (`word`). An instruction makes one access and retires at most one store
at a time. The page walk answers the STLB at once, as `va_to_pa` does.

### DramController and the code

Queue entries keep their slots, since `add_rq` takes the first free slot and the
banks remember slot numbers. `order` lists the scheduled slots by `event_cycle`
(one is scheduled per cycle with a constant latency, so completion order is
schedule order); `unscheduled` and `next` are the hand-maintained
`next_schedule_index` and `next_process_index`. `Operate` is one call of
`operate`: mode switch, then at most one `schedule`, then at most one `process`;
whether a cycle has come is a choice. `waiting` is the LLC's view, a set of
blocks with an unanswered MSHR entry.

### PageTable and the code

`page_table` and `inverse_table` are the two maps, a key being `<<cpu, page>>`
(`va_to_pa` puts the cpu in the high bits of the page; this separates the cores
when `NUM_CPUS` is a power of two). `PageWalk` is an STLB miss: `Found`,
`Allocate` or `Swap` is the call of `va_to_pa`, and its answer waits in `walk`,
the answered STLB MSHR: one at a time, since `va_to_pa` stalls the core for 100 cycles
and the STLB fills before it reads. `FillStlb`, `StlbHit` and `FillTlb` carry translations
through `stlb` and `fill` to `tlb`; `Access` caches a block of the frame. The
fill and the TLB are one set for ITLB and DTLB together. `recent_page` is never
filled, so the page swapped out is the first of the map; `page_queue` is written
and never read, and left out.

`PageTable` and `CacheHierarchy` meet in one assumption: a merged request
remembers one cpu, so `CacheHierarchy` is right only if two cores never request
one block (letting both prefetch one block violates `RequestsAreOwned` at once).
`CoresShareNoFrame` is that assumption for demand accesses; it holds until the
first swap and is proved. `SeparateAssumption` of `SeparateBlocks` states it for
`CacheHierarchy`, together with the same for code and data; the `twin` run gives the
cores disjoint blocks.

### FastSet and the code

`set[s]` is one object: `card`, and the union as two fields of which one is in
use. `InsertSmall`, `SmallToBit`, `Inserted`, `Joined`, `Search` and `Expand` are
the methods. `Clear` and `Copy` are what happens to the sets inside a packet that
is removed from a queue or copied to an MSHR. `N` is `ROB_SIZE` (128): all
elements are below it. `CacheHierarchy` uses plain sets for them.

### OutOfOrderCore and the code

| Definition | Code |
|---|---|
| `HandleBranch` | `handle_branch`: one traced instruction enters the ROB at `tail`, its stores enter the STA; a mispredicted branch sets `fetch_stall` |
| `Translate`, `Fetch`, `CompleteTranslation`, `CompleteFetch` | the two halves of `fetch_instruction`, `complete_instr_fetch` |
| `Schedule` | `schedule_instruction`, `do_scheduling`, `reg_dependency` |
| `Execute`, `CompleteExecution` | `execute_instruction`, `do_execution`, `complete_execution`, `reg_RAW_release` |
| `ScheduleMemory` | `schedule_memory_instruction`, `do_memory_scheduling`, `check_and_add_lsq`, `add_load_queue`, `add_store_queue`, `mem_RAW_dependency` |
| `TranslateStore`, `TranslateLoad`, `ExecuteLoad`, `ExecuteStore` | `operate_lsq` with `execute_load` and `execute_store`: lists RTS0, RTL0, RTL1, RTS1 |
| `StoreTranslated`, `LoadTranslated`, `LoadDone` | `complete_data_fetch`, `handle_merged_translation`, `handle_merged_load`, `release_load_queue` |
| `Retire` | `retire_rob` |

The variables have the names of the members of `O3_CPU`; an instruction keeps
its number (`instr_id`, counted from 1 here and from 0 in the code), so that an
empty entry is the one with number 0. `regs_depend_on_me` holds
`<<instruction, source>>` pairs, the registers' dependence sets and
`reg_RAW_checked` together; `lq_index` and `sq_index` stand for themselves and
for `source_added` and `destination_added`. The ready lists are sequences:
in the code they are circular arrays, written without a test for room, and
`InOnePlace` is why they do not overflow.

What is left out is time. Widths (`FETCH_WIDTH`, `SCHEDULER_SIZE`, ...) and
event cycles only say how many steps a cycle takes, and every step is small
here. The TLBs and L1s answer a request at any time and in any order, which
covers hits, misses and the merged answers; that they answer is
`CacheHierarchy`'s business. An L1D answer reads `memory`, what retired stores
wrote. One assumption about time is needed: `HandleBranch` does not
fill the last ROB entry while the head is still in the ITLB. An instruction sent
to the ITLB is not marked, and the next one to send is found by
`last_read + 1`; in a ROB full of untranslated instructions the scan would come
round and send the head again. A real ROB of 128 entries cannot fill while the
head waits only for its own page unless a page walk takes very long.

`memory`, `seen` and `got` are history: values are named by the instruction that
stored them. They let `RunsInOrder` say that the core, from outside, is
`InOrderMachine`: every retired load read what the last older store wrote,
whichever of the three ways (forwarding from an executed store, waiting for
`execute_store`, reading the cache) it took.

### Replacement and the code

`policy` is the `.llc_repl` file built in. `LruVictim` and `LruUpdate` are
`lru_victim` and `lru_update` of `base_replacement.cc`; `lru` is the member of
`BLOCK`, which wraps at `LruWrap` (2^32 in the code). `HawkeyeVictim`,
`HawkeyeUpdate` and `Promoted` are `llc_find_victim` and
`llc_update_replacement_state` of `hawkeye_simple.llc_repl`; `ShouldCache` with the
two updates in `HawkeyeUpdate` is `OPTgen::should_cache` and `add_access`;
`shct` is the predictor, whose absent entries behave as `Middle`. Each PC has an
entry of its own (the code hashes PCs to 2048).

The actions are what the LLC does: `Hit` and `Fill` for demands and prefetches,
`WritebackFill` for a write-back that allocates, `VictimNotReplaced` for a call
of `find_victim` after which the handler stalls or, for METADATA, returns; and
`SetAssoc`, the last statements of the Triage prefetchers. `younger` (the ways
updated after a way), `unused`, `resized` and `best` are history. Only LRU looks at `current_assoc`: Hawkeye also
evicts from the ways a prefetcher has taken.

## Runs

Queue and MSHR sizes keep the relations of `cache.h`: the read queue of a level
holds at least all MSHRs above it (L2C: 32+32 <= 128; STLB: 2+2 <= 32; LLC: 24
per core, the L2C MSHRs). They are otherwise as small as still lets every queue be full.

| Run | Instance | Shows |
|---|---|---|
| `data` | L1D, 2-way L2C, LLC; 3 blocks, loads, stores, and a prefetch of the stored block by the L2C for itself | `OneEntryPerBlock`, `OneCopyUnlessPrefetched`, `ModifiedUntilWritten` |
| `live` | the same with 1-way caches, DTLB and STLB, 2 blocks, an L2 prefetch, fair; every write queue can be full of dirty blocks | `AccessesComplete` |
| `twin` | a core that loads and stores, a core that fetches and has an idle L1D, shared LLC; one L1D prefetches into its L2C, the other L2C prefetches code for itself | `NoLostWakeup`, `WithinCapacity`, `RoomForEveryMiss`, `RequestsAreOwned` (no failing `return_data`), `EveryMissHasOneRequest`: routing and room across cores and under fill-level merges |
| `sharedblock` | code and data in one block | **violation** of `AccessesComplete` |
| `queue` | 4 slots, 5 addresses | the circular buffer implements `Fifo` |
| `dram` | 2 banks of 2 rows, 4 blocks, RQ 2, WQ 4 (watermarks 3 and 1, so write mode ends on an empty queue) | consistency of banks, counters and cached indices; implements `MemoryPort`; liveness |
| `pipeline` | ROB of 4, LQ and SQ of 2, 2 addresses, 2 registers; every trace of 3 from 5 instructions and 8 chosen traces of 3 to 6, 2 of them crossed | the assertions of `fetch_instruction` and (uncrossed) `execute_store`, operands, counters, lists, order of stores; implements `InOrderMachine`; `EveryInstructionRetires` |
| `storeorder` | one trace of 6, LQ of 1 | **violation** of `EveryInstructionRetires` |
| `paging` | 2 cores with 2 pages, 3 frames of memory, draws that collide with contiguous runs | the maps are inverse, counted and stable; the cores share no frame before a swap |
| `staletlb` | one core, one frame of memory | **violation** of `TlbsFollowPageTable` |
| `fastset` | two sets of 7 indices, array up to 4, words of 2 bits | implements `IndexSet`; search and expand are exact (`ReadsAreExact`) |
| `replacement` | 3 ways, 4 blocks, 2 PCs, ages and counters of 2 bits, 6 accesses; LRU with 2 or 3 ways for blocks | `LruEvictsOldest`; `OptgenIsOptimal`; `LinesMatchHistory`: Hawkeye's ages and signatures |

Why the bounds suffice: a block that is dirty needs another block of the same set
to be evicted, and a duplicate needs a third, hence 2 or 3 blocks; merges need
two requests for a block, hence 2 ROB slots or 1 slot and a prefetch; every
queue can be full. Two banks of two rows give row hits, row misses and busy
banks together. Memory for 3 of 4 pages makes every core fault both into free and
into full memory. 7 indices cross the array's limit with elements on either side,
use linear search (2 elements) and binary search (3 and 4), and fill four words, the
last in part. A write queue whose low watermark is above 1 would need six blocks: that
a switch to reads undoes scheduled writes is left to the proofs, which hold for
every size.

In `replacement`, 4 blocks over 3 ways evict, and 6 accesses (the timer of the
set, capped by `MaxAccesses`) over a capacity of 2 give OPTgen intervals that
nest, cross and share ends, and more of them than fit; ages of 2 bits saturate.

The traces of `pipeline` are inputs: short ones are exhaustive over stores with
and without an operand, loads that define or need a register or touch two
addresses, and register operations that overwrite their source; the six longer
ones wrap the ROB and both queues and add branches that may be mispredicted,
several writers of a register, chains load - ALU - branch - store, an
instruction that loads and stores, and one with two stores. A ROB of 4 wraps in
traces of 5 and 6; an LQ and SQ of 2 fill whenever two loads or stores wait.

`PROCESSED` is sized so that it is never full: in the code it has `ROB_SIZE`
(128) entries and the core drains it every cycle. A full PROCESSED would drop
a completion; the size at which that cannot happen (waiting instructions plus L1D
WQ plus MSHRs) is what the bound in the configurations reflects.

### Fairness

Every handler runs every cycle, so an enabled one is eventually executed: weak
fairness of each handler of each cache and of `CompleteFetch`. `HandleFill` is
fair per block, because `update_fill_cycle` picks returned entries in order of
their cycle. `HandlePrefetch` is only weakly fair: the code serves PQ when RQ is
empty. Nothing is assumed of the core (it need not issue) nor of the prefetchers.
In `OutOfOrderCore` weak fairness of `Next` is enough: the code runs every handler
in every cycle, so it takes a step whenever one is possible, and every step
moves an instruction forward, so that there are finitely many. That the caches
answer at all is `AccessesComplete`; that the L1D write queue has room
for a retiring store follows from it and `FullWriteQueueDrains`.
The DRAM must return reads and must write *when its write queue is full*; these
two assumptions are discharged by `FullWriteQueueDrains` and `ReadsReturn` of
`DramController`, under weak fairness of `operate` only. `ReadsReturn` says
that a read waits for ever only if requests arrive for ever: while row hits keep
arriving the row-hit-first scheduler may pass over an older read; once the cores'
windows are full, nothing arrives.

### Findings

- `sharedblock`: an instruction fetch and a load that miss on one block merge in
  the L2C into one packet or MSHR entry, whose single instruction bit sends the
  answer to L1I or to L1D. The other cache's MSHR entry is never returned, and the
  ROB head waits until `print_deadlock` aborts. The other
  runs therefore keep code and data apart (the STLB has the same flaw for pages).
- `staletlb`: the comment of the swap says it invalidates the page "from the cache
  hierarchy"; a translation that waits in an answered ITLB or DTLB MSHR escapes and
  is filled afterwards. With several cores the swap moreover invalidates only the
  faulting core's entries, by a key that carries the owner's cpu bits while TLB
  tags do not.
- `storeorder`: comments at `ooo_cpu.cc:65` and `:194` say the STA lets
  stores execute "without deadlock". It orders stores only; loads take LQ
  entries as soon as their registers are ready. When loads that wait for a younger store fill
  the LQ, and that store may not enter the SQ before an older one whose
  operand comes from a load that finds the LQ full, nothing moves until
  `print_deadlock` aborts. The run's LQ has one entry; the code's has 72, and
  needs as many waiting loads.

Observed while modelling, and kept as the code has it:

- The comment in `handle_fill` says an RFO marks its block dirty; an RFO that
  merges into a load in flight (`cache.cc:377`) is not recorded, the block is
  filled clean and the store never written back. `ModifiedUntilWritten` shows that
  this step (`RfoJoinsLoad`) and the warm-up, which drops DRAM writes, are the only
  ways to lose a modified block.
- A block that the L2C prefetches for itself may meanwhile be stored to by the L1D
  and written back: the write-back misses in the L2C, takes a way without looking
  into the MSHRs (`cache.cc:424`), and the prefetch then fills a second way with an
  older copy. Later hits take the way with the lower number.
  `OneCopyUnlessPrefetched` shows that this is the only way to a second copy; the
  `data` run makes such a prefetch.
- When a prefetcher shrinks `current_assoc` and all ways left hold positions beyond
  it (ways 0 to 7 of a set of 16 used before ways 8 to 15, cut to 8), `lru_victim`
  raises them all until the 32-bit counters wrap: about 2^32 rounds for one
  eviction. After any change of `current_assoc` LRU may evict a newer block;
  `LruEvictsOldest` speaks of the time before.
- Hawkeye takes no notice of write-backs: a block a write-back installs keeps
  the age and signature of the block it replaces, and its eviction trains that
  block's PC. A fill that stalls on a dirty victim trains the victim's PC again in
  every cycle.
- `next_fetch[1]` is never updated, so the scheduling scan stops at the end of
  the array and resumes at its start only when the head has come there.
- `reg_dependency` takes the youngest older writer that has *not executed*: a
  younger writer that has executed does not stop the search, and an instruction may
  wait for a register value that has since been overwritten. This costs time only;
  `OperandsAreReady` holds.
- The assertion of `execute_store` (line 1300) fails for one kind of trace: an
  instruction stores to x and y, a younger one stores to x, and a third loads
  both. The load is registered with the first store for y, so when
  the first store to x executes, its load of x, whose producer is the
  younger store, is taken for a dependent too, and the program aborts unless the
  older store executed before the load entered the queue. `Uncrossed` describes the
  traces without this pattern. `ExecuteStore` has the assertion as a guard (`Matched`);
  `LoadsMeetTheirStores` says that it holds in uncrossed traces, `EveryInstructionRetires`
  is about those, and the other properties of the core hold in crossed traces too, up to
  the abort.

## Proofs

`CacheHierarchy_proofs`: `TypeCorrect` proves `TypeOK` for every wiring, size and
input that satisfies the module's assumptions. It needs one lemma per helper
(`ReturnData`, `Answer`, `PushProcessed`, `AddRq`, `AddWq`, `AddPq`, `Evict`...)
stating the type of what the helper builds, then one step per action.
`OneEntry` proves `OneEntryPerBlock`: `TypeOK` and the invariant are inductive
together, since every allocation is guarded by `~InMshr` and `ReturnData`,
`Replace` and the fill keep the address of an entry. `CapacityCorrect` proves
`WithinCapacity`. Its inductive invariant (`Capacity`) adds that MSHR files and
DRAM queues are finite; `ReturnData` maps a file onto its image, a merge
exchanges one entry, and for each `add` the room its caller tested is still
there when the call happens. This uses that no cache is its own lower level:
`handle_writeback` pops its own queue between the test and the `add_wq`.

`WakeupsAreKept` proves `NoLostWakeup` in every behaviour in which the PROCESSED queues
keep room (`ProcessedHasRoom`). That hypothesis is not a formality: `handle_read`,
`handle_fill` and `add_rq` drop the completion when PROCESSED is full
(`cache.cc:210-228`, `574-594`, `1253`) and the instruction would wait for ever; how
many completions can be outstanding follows from the core, which takes one from each
PROCESSED queue in every cycle, and not from any check in the cache. The invariant
(`Wakeups`) has a function from ROB slots to places, where a place is a
cache and one of RQ, MSHR, PROCESSED, or nowhere: the packets, entries and elements of
each container wake exactly the slots placed there, no two of them the same one, and a
slot waits if and only if it has a place (`Located`). Each handler moves the
instructions of one packet or entry to one other place. The second part (`Quiet`)
says who may carry instructions at all: demands of first-level
caches, never a prefetch, a store or a packet below. Without it a fill of the L2C, which
tells PROCESSED nothing, or a demand that replaces a prefetch entry, would lose
them, and a read forwarded from a write queue elsewhere than in an L1D would too. For
that `WiringAssumption` says that cores access first-level caches and that no
first-level cache is below another.

`StoresAreKept` proves the action property `ModifiedUntilWritten`. A modified block is on record in one of four places: a
write queue, an RFO entry of an L1D, a dirty way, DRAM's write queue (`Held`). Each
lemma follows the record through one call: `ReturnData` and merges keep the type
of an entry, a queue loses a packet only at its head, a victim is in the lower write
queue before its way is overwritten. The property needs an invariant of its own
(`Placed`): an L1D's write queue holds stores only, no MSHR entry, read or prefetch
packet is a write-back, and the TLBs and the STLB hold nothing dirty, since a dirty
victim of a cache with no lower level would vanish. `Placed` rests on
`WiringAssumption`, the part of main.cc's wiring it uses: a level below is an STLB,
L2C or LLC, only translation caches lie above the STLB, only it has no lower level, stores go to
the L1D.

`Requests_proofs`: `AnswersAreExpected`, `OneRequestPerMiss` and `ReadQueuesSuffice`
prove `RequestsAreOwned`, `EveryMissHasOneRequest` and `RoomForEveryMiss`. They are
false for an arbitrary hierarchy (`sharedblock` is one), so `SeparateBlocks` says what
they need, and TLC evaluates it on `data`, `live` and `twin`:

- `RouteAssumption`: fill levels double on the way down, one cache is above DRAM,
  and the upper level pointers lead back along the way a packet came
  (`main.cc:648-700`).
- `SourceAssumption`: cores access first-level caches, and a prefetcher fills its own
  level or one below it.
- `SeparateAssumption`: accesses to one block that meet in a cache *and are
  answered* come from one cache above it. It excludes code and data in one block and
  blocks of two cores; it does not exclude what the L2C or the LLC prefetches for
  itself, of whichever side or core, since nobody is answered then.
- `RoomAssumption`: a read queue has an entry for each MSHR above it (`cache.h:18-80`).

The invariant (`Ready`) has two parts. `Shape` is about single packets: a queue holds a
block once, each packet and entry carries a port of its block, and one that leads back
unless nobody waits for it (`Legit`), read packets below another cache are always
answered, and the level of a prefetch packet is one that a prefetcher here or above
asked for (`PqLevels`). `Links` is about neighbouring levels, block by block: the caches
whose read packet, prefetch packet or MSHR entry is a request that will be answered are
disjoint sets `R`, `Q`, `T`; each of these caches has a cache above that waits, and each
cache that waits, in the set `W`, has such a request in the level below, or in DRAM
(`Linked`). A merge may lower the fill level of an entry that asked for nobody, which
then asks; by `SeparateAssumption` it can only be in the name of the cache the merged request
came from. Every handler takes one or two links away or adds them at adjacent levels, and
there is a lemma for each such change (`LinkedAnswer`, `LinkedRead`, `LinkedMove`, ...).
Room follows by counting: the packets of a read queue are requests of different MSHR
entries above that wait, and a cache that can still allocate has one entry to spare.

`PacketQueue_proofs`: the inductive invariant is `TypeOK /\ SlotsInUse`
(`QueueInvariant`): `tail` is `occupancy` places after `head` and the entries in
use are exactly those between. From it follow `SearchCorrect`, that the two-range
search visits exactly the occupied slots in age order, and `QueueIsFifo`, the
refinement step by step: `AddQueue` maps to `Put`, `RemoveQueue` to `Get`.
Both hold for every size, whether or not the caller checks for duplicates.

`PageTable_proofs`: `TypeCorrect`, `TablesInverse`, `NoFrameShared`,
`AllocatedCorrect`, `MappingsStable`. The inductive invariant adds to the types
and the inverse tables that, before the first swap, every translation in flight
or in a TLB is current (`TranslationsAreCurrent`) and every cached frame is one of
its core's (`CachedIsOwned`): `CoresShareNoFrame` is not inductive without them,
since a stale translation would cache a frame later. The theorems assume only
that the random draw has more values than memory has pages.

`DramController_proofs`: `CountersCorrect`, `BanksCorrect`, `OneDirectionHolds`,
`CachesFresh`, `WaitsQueued` and `PortImplemented`, for every number of slots,
banks, rows and blocks and any mapping of blocks to them. None of the five
invariants is inductive alone, so one invariant carries them all (`DInv`): in
each queue the scheduled slots are distinct and used and the two cached indices
fresh; each counter is the number of scheduled slots; the working banks are in
bijection with the scheduled slots of the queue in service (`Serves`); the other
queue has none; `waiting` is the blocks of the read queue. `DInv` speaks of a
controller record, not of the variables, because one `operate` goes through
several of them: `Switch`, `Schedule` and `Process` each take a record with
`DInv` to one with `DInv`. `PortImplemented` follows: a step of `Process` removes
one block from one queue (`Return` or `Drain`), `AddRq` and `AddWq` map to
`Read` and `Write`, everything else stutters.

`Replacement_proofs`: `LruCorrect` needs that the positions are a permutation of
the ways (`Positions`): injective *and* onto, with `younger[w]` the ways of
smaller position. Injectivity alone is not enough, since `lru_victim` looks for
the position `NumWay - 1` and ages the ways until one has it; onto is what makes
it find one at once. `LinesCorrect` carries the ages and signatures of
Hawkeye through hits, fills, write-back fills and calls of `find_victim` that
evict nothing; it needs that no block is in two ways (`OneTagPerBlock`), which
holds because a fill follows a miss.

`OutOfOrderCore_proofs`: `FetchInOrder` and `OperandsReady`, for every size of
the ROB and of the load and store queues and for every trace. Neither property
is inductive. `FetchIsInOrder` looks at the two entries fetch visits next, and what
it finds there after a step was an entry farther on before it. The invariant
(`FrontEnd`) is therefore about the whole ROB: from the head on it holds `n`
consecutive instructions, of which the first `t` were sent to the ITLB, the
first `f` to the L1I, and `tail`, `last_read` and `last_fetch` are where `n`, `t`
and `f` put them (`Window`). That the buffer may be full, where the ages 0 and
`RobSize` fall on the same entry, is the case the head's `COMPLETED`
translation decides. `OperandsAreReady` rests on the counting of
`reg_dependency` and `reg_RAW_release`: `num_reg_dependent` is the number of
sources that wait (`Counts`), a source waits for one instruction at a time, an older
one that is in the ROB (`Deps`), it waits for the youngest older writer of its
register unless that has executed (`Operands`), and only instructions
whose count is 0 are in a ready list, each once, execute or enter a queue (`Lists`,
`Ready`). One completion may release several sources of several
instructions; `Retire` frees an entry only when nothing that waits depends on
it. `Stall` says that reading the trace is stalled for one
mispredicted branch at a time; with it `fetch_stall = 0` on a completion is right.

`MemoryQueues_proofs`: `CoreTypes`, `EveryEntryInOnePlace`, `CountersAreExact` and
`LoadsMeetStores` prove `TypeOK`, `InOnePlace`, `CountersMatch` and
`LoadsMeetTheirStores`, for every size of the ROB, LQ and SQ and every trace. The
invariant is the one above and `MInv`, which has a part for each thing the two
queues and the ROB keep about each other. `LoadLinks` and `StoreLinks` say that an
entry and the ROB slot it belongs to name each other; an entry of the LQ is cleared
when its load is done, so `lq_index` may name an entry that another load uses by then,
and an operation counts as waiting only if its entry still names it (`WaitingLoads`).
With that `num_mem_ops` is the number of operations that wait (`OpsLeft`), and an
instruction enters `inflight.mem` when it reaches 0 (`Executes`). `LoadWaits` says
that an entry of the LQ has for its `producer_id` the youngest older store to its address,
which lists the load's instruction in `mem_depend_on_me` and has not executed; it
survives a retirement because a store retires only after it executed. `StoreSide`
orders the entries of the SQ from its head by the age of their stores, older than what
is left in the STA. A lemma per action follows these parts through it; the
ones that complete operations (`LoadDone`, `ExecuteStore`, a forwarded load) share
one about any set of operations (`OpsDone`).

The first half of `LoadsMeetTheirStores` follows from `LoadWaits`. The second
needs `Tracked` as well: whoever is in `mem_depend_on_me` has the store for its youngest at
one of its addresses (`Readers`), and a load stays in the LQ as long as the store
it waits for has not executed (`Held`). Then, in an uncrossed trace, a load of
such an instruction at the address of the executing store waits for this store
and no other (`Matches`). In a crossed trace `execute_store` may fail its
assertion; that is a guard of `ExecuteStore`, so there the theorems are about the steps up
to the abort.

`CoreRunsInOrder` proves the refinement `RunsInOrder`, in every trace. Its invariant
`Right` says of every load that is done and still in the ROB that it read what the
youngest older store to its address writes, or `memory` when there is none. A
forwarded load and one that `execute_store` completes get it from `LoadWaits`, a
load that the L1D answers waits for no store, so it reads `memory`; and when
the head retires, what it wrote moves into `memory` for the loads that had it for
their youngest. `Retire` is then the machine's step, for the head has no older
stores and no operation left; every other step is a stutter.

Only model-checked:

- In `OutOfOrderCore`, `StoresKeepOrder`: it compares flattened sequences, whose
  proof needs induction over the trace.
- `FastSet` (its join and its binary
  search need induction over data), `OptgenIsOptimal` (it compares with a search
  over all schedules, a recursive definition).
- `OneCopyUnlessPrefetched`: it depends on what the levels hold of a block together.
- All liveness, which is out of the prover's reach.

## Not modelled yet, or not at all

METADATA packets (on-chip Triage metadata), `kpc_prefetch_line`,
`invalidate_entry` in the data caches, and the branch predictors' counters. SRRIP,
DRRIP and SHiP: an age per line and, in two of them, saturating counters, with
nothing to relate them to. OPTgen's sampled set (`SAMPLING` is not defined) and
the predictor classes no file uses. `handle_o3_fetch` is never called. The
prefetchers' heuristics are not modelled: any prefetch may be issued at any time.
Statistics, option parsing, the tracer and the scripts have no behaviour worth a
model.

## Plan

1. `invalidate_entry` and METADATA packets in `CacheHierarchy`.
