----------------------------- MODULE PageTable -----------------------------
(* Virtual to physical translation: va_to_pa of src/src/main.cc, called by  *)
(* the STLB on a miss, with the TLBs its answers are kept in and the blocks *)
(* each core's private caches hold under them.                              *)
(*                                                                          *)
(* A key of page_table is <<cpu, page>>: va_to_pa puts the cpu number in    *)
(* the high bits of the page (rotr64), which keeps the pages of the cores   *)
(* apart when NUM_CPUS is a power of two.  The TLBs are tagged with the     *)
(* page alone.                                                              *)
EXTENDS Naturals, FiniteSets

CONSTANTS
  Cpus,        \* 0..NUM_CPUS - 1
  Pages,       \* virtual page numbers, the same in every core
  MaxFrame,    \* bound: physical pages are 0..MaxFrame, and a contiguous
               \* run ends there
  Draws,       \* the physical pages champsim_rand can draw
  DramPages,   \* DRAM_PAGES
  RunLengths,  \* values of 1 << (rand() % 10)
  TlbSize,     \* ways of a TLB
  MshrSize     \* MSHRs of the ITLB and the DTLB; the STLB has as many

Frames == 0..MaxFrame
Keys == Cpus \X Pages
Translation == Pages \X Frames

\* draw_rand has 2^36 values, more than DRAM_PAGES: a free page is found.
ASSUME PageAssumption ==
  /\ Cpus \subseteq Nat /\ Pages \subseteq Nat
  /\ MaxFrame \in Nat /\ DramPages \in Nat \ {0}
  /\ Draws \subseteq Frames /\ Cardinality(Draws) > DramPages
  /\ RunLengths \subseteq Nat \ {0}
  /\ TlbSize \in Nat \ {0} /\ MshrSize \in Nat \ {0}

VARIABLES
  page_table, inverse_table,  \* the maps: key to frame and frame to key
  previous_ppage, num_adjacent_page, allocated_pages,
  swapped,       \* a page was swapped out: some major_fault[cpu] > 0
  walk,          \* the translation in an answered STLB MSHR, not yet filled
  stlb,          \* translations the STLB holds
  fill,          \* translations in answered ITLB and DTLB MSHRs
  tlb,           \* translations the ITLB and the DTLB hold
  cached         \* frames with blocks in the core's L1I, L1D or L2C

tableVars == <<page_table, inverse_table, previous_ppage, num_adjacent_page,
               allocated_pages, swapped>>
vars == <<tableVars, walk, stlb, fill, tlb, cached>>

\* Mutant of Mapped: the page table is not searched.
Mapped_Never(k) == FALSE
Mapped(k) == k \in DOMAIN page_table

\* Mutant of Free: the inverse table is not consulted.
Free_Unchecked(f) == f \in Frames
Free(f) == f \in Frames \ DOMAIN inverse_table

\* Mutants of MemoryFull: off by one, either way.
MemoryFull_Early == allocated_pages >= DramPages - 1
MemoryFull_Late == allocated_pages > DramPages
MemoryFull == allocated_pages >= DramPages

\* std::map::begin: the smallest key, the cpu being its high bits.
KeyBefore(k, l) == k[1] < l[1] \/ (k[1] = l[1] /\ k[2] <= l[2])
IsFirst(k) == Mapped(k) /\ \A l \in DOMAIN page_table : KeyBefore(k, l)

\* Whether a TLB tag equals the key k, cpu bits included.
TagMatches(page, k) == k = <<0, page>>
Invalidated(T, k) == {t \in T : ~TagMatches(t[1], k)}

\* Every walk or fill in flight holds an MSHR of the ITLB or the DTLB.
MshrFree(c) == Cardinality(walk[c]) + Cardinality(fill[c]) < MshrSize

\* A fill, which replaces an entry when the TLB is full.
Filled(T, t) ==
  IF Cardinality(T) < TlbSize THEN {T \cup {t}}
  ELSE {(T \ {victim}) \cup {t} : victim \in T}
-----------------------------------------------------------------------------
(* va_to_pa.  A page that has a frame keeps it. *)
Found(k) == Mapped(k) /\ UNCHANGED <<tableVars, stlb, tlb, cached>>

\* The page the allocation takes: the one after the previous page while a
\* contiguous run lasts, else one drawn at random, which starts a new run.
NextInRun(f, n) ==
  num_adjacent_page > 0 /\ f = previous_ppage + 1 /\ n = num_adjacent_page - 1
Drawn(f, n) ==
  /\ num_adjacent_page = 0 \/ ~Free(previous_ppage + 1)
  /\ f \in Draws /\ n \in RunLengths

Allocate(k) ==
  /\ ~Mapped(k) /\ ~MemoryFull
  /\ \E f \in Frames, n \in RunLengths \cup 0..num_adjacent_page :
       /\ NextInRun(f, n) \/ Drawn(f, n)
       /\ Free(f)
       /\ page_table' = [l \in DOMAIN page_table \cup {k} |->
                           IF l = k THEN f ELSE page_table[l]]
       /\ inverse_table' = [g \in DOMAIN inverse_table \cup {f} |->
                              IF g = f THEN k ELSE inverse_table[g]]
       /\ previous_ppage' = f
       /\ num_adjacent_page' = n
  /\ allocated_pages' = allocated_pages + 1
  /\ UNCHANGED <<swapped, stlb, tlb, cached>>

\* Mutant of Reassigned: the frame keeps its old page.
Reassigned_Not(f, k) == inverse_table
Reassigned(f, k) == [inverse_table EXCEPT ![f] = k]

\* Memory is full.  recent_page is never filled, so the page swapped out is
\* always the first of page_table; page_queue is written and never read.
\* Only the TLBs and caches of the faulting core c are invalidated.
Swap(c, k) ==
  /\ ~Mapped(k) /\ MemoryFull
  /\ \E v \in DOMAIN page_table :
       LET f == page_table[v] IN
       /\ IsFirst(v)
       /\ page_table' = [l \in (DOMAIN page_table \ {v}) \cup {k} |->
                           IF l = k THEN f ELSE page_table[l]]
       /\ inverse_table' = Reassigned(f, k)
       /\ stlb' = [stlb EXCEPT ![c] = Invalidated(@, v)]
       /\ tlb' = [tlb EXCEPT ![c] = Invalidated(@, v)]
       /\ cached' = [cached EXCEPT ![c] = @ \ {f}]
  /\ swapped' = TRUE
  /\ UNCHANGED <<previous_ppage, num_adjacent_page, allocated_pages>>

(* handle_read of the STLB on a miss: the walk is answered at once, and     *)
(* waits in the MSHR for handle_fill.  va_to_pa stalls the core, its TLBs   *)
(* included, for far more cycles than the STLB's latency, and operate calls *)
(* handle_fill first: the next walk comes when this one has been filled.    *)
PageWalk(c, page) ==
  /\ walk[c] = {}
  /\ \A t \in stlb[c] : t[1] # page
  /\ MshrFree(c)
  /\ Found(<<c, page>>) \/ Allocate(<<c, page>>) \/ Swap(c, <<c, page>>)
  /\ walk' = [walk EXCEPT ![c] = @ \cup {<<page, page_table'[<<c, page>>]>>}]
  /\ UNCHANGED fill
-----------------------------------------------------------------------------
(* The way of a translation up to the core. *)
FillStlb(c) ==
  /\ \E t \in walk[c] :
       /\ walk' = [walk EXCEPT ![c] = @ \ {t}]
       /\ \E T \in Filled(stlb[c], t) : stlb' = [stlb EXCEPT ![c] = T]
       /\ fill' = [fill EXCEPT ![c] = @ \cup {t}]
  /\ UNCHANGED <<tableVars, tlb, cached>>

StlbHit(c) ==
  /\ MshrFree(c)
  /\ \E t \in stlb[c] \ fill[c] : fill' = [fill EXCEPT ![c] = @ \cup {t}]
  /\ UNCHANGED <<tableVars, walk, stlb, tlb, cached>>

FillTlb(c) ==
  /\ \E t \in fill[c] :
       /\ fill' = [fill EXCEPT ![c] = @ \ {t}]
       /\ \E T \in Filled(tlb[c], t) : tlb' = [tlb EXCEPT ![c] = T]
  /\ UNCHANGED <<tableVars, walk, stlb, cached>>

\* A translated demand access brings blocks of its frame in, and may evict
\* the last block of another.
Access(c) ==
  /\ \E t \in tlb[c] :
       \E X \in {{}} \cup {{f} : f \in cached[c]} :
         cached' = [cached EXCEPT ![c] = (@ \ X) \cup {t[2]}]
  /\ UNCHANGED <<tableVars, walk, stlb, fill, tlb>>

Init ==
  /\ page_table = <<>> /\ inverse_table = <<>>
  /\ previous_ppage = 0 /\ num_adjacent_page = 0 /\ allocated_pages = 0
  /\ swapped = FALSE
  /\ walk = [c \in Cpus |-> {}] /\ stlb = [c \in Cpus |-> {}]
  /\ fill = [c \in Cpus |-> {}] /\ tlb = [c \in Cpus |-> {}]
  /\ cached = [c \in Cpus |-> {}]

Next == \E c \in Cpus :
  \/ \E page \in Pages : PageWalk(c, page)
  \/ FillStlb(c)
  \/ StlbHit(c)
  \/ FillTlb(c)
  \/ Access(c)

Spec == Init /\ [][Next]_vars
-----------------------------------------------------------------------------
TableTypes ==
  /\ DOMAIN page_table \subseteq Keys
  /\ page_table \in [DOMAIN page_table -> Frames]
  /\ DOMAIN inverse_table \subseteq Frames
  /\ inverse_table \in [DOMAIN inverse_table -> Keys]
  /\ previous_ppage \in Frames /\ num_adjacent_page \in Nat
  /\ allocated_pages \in 0..DramPages
  /\ swapped \in BOOLEAN

TlbTypes ==
  /\ walk \in [Cpus -> SUBSET Translation] /\ stlb \in [Cpus -> SUBSET Translation]
  /\ fill \in [Cpus -> SUBSET Translation] /\ tlb \in [Cpus -> SUBSET Translation]
  /\ cached \in [Cpus -> SUBSET Frames]

\* Types; the allocated pages never exceed the memory.
TypeOK == TableTypes /\ TlbTypes

\* page_table and inverse_table are inverses of each other through every
\* allocation and swap: no frame has two pages, and the find of the swap
\* (ppage_check) never fails.
TablesAreInverse ==
  /\ \A k \in DOMAIN page_table :
       /\ page_table[k] \in DOMAIN inverse_table
       /\ inverse_table[page_table[k]] = k
  /\ \A f \in DOMAIN inverse_table :
       /\ inverse_table[f] \in DOMAIN page_table
       /\ page_table[inverse_table[f]] = f

\* allocated_pages, which decides between allocating and swapping, counts
\* the pages that have a frame.
AllocatedIsCounted == Cardinality(DOMAIN page_table) = allocated_pages

\* A page keeps its frame as long as it is mapped, and loses it only when
\* the memory is full, one page at a time.
MappingsAreStable ==
  [][LET old == DOMAIN page_table
         lost == old \ DOMAIN page_table'
     IN /\ \A k \in old \ lost : page_table'[k] = page_table[k]
        /\ lost # {} => Cardinality(old) = DramPages /\ Cardinality(lost) = 1]_vars

\* Until a page is swapped out, two cores never hold blocks of one frame in
\* their private caches: CacheHierarchy answers a merged request for one cpu
\* only, and rests on this.
CoresShareNoFrame ==
  ~swapped => \A c, d \in Cpus : c # d => cached[c] \cap cached[d] = {}

\* What the comment of the swap promises ("invalidate corresponding vpage
\* and ppage from the cache hierarchy", main.cc:357): the TLBs hold only
\* translations of the page table.
TlbsFollowPageTable ==
  \A c \in Cpus : \A t \in stlb[c] \cup tlb[c] :
    Mapped(<<c, t[1]>>) /\ page_table[<<c, t[1]>>] = t[2]
=============================================================================
