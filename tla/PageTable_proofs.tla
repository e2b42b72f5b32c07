-------------------------- MODULE PageTable_proofs --------------------------
(* Theorems of PageTable: the two tables stay inverse, and while nothing    *)
(* has been swapped out the private caches of the cores hold no common      *)
(* frame.                                                                   *)
EXTENDS PageTable, FiniteSetTheorems, TLAPS

\* What translations are, before any page is swapped out: current.
Current(c, t) == Mapped(<<c, t[1]>>) /\ page_table[<<c, t[1]>>] = t[2]

InFlight(c) == walk[c] \cup stlb[c] \cup fill[c] \cup tlb[c]

TranslationsAreCurrent ==
  ~swapped => \A c \in Cpus : \A t \in InFlight(c) : Current(c, t)

\* ... and so every frame with blocks in a core's caches is one of its own.
CachedIsOwned ==
  ~swapped => \A c \in Cpus : \A f \in cached[c] :
    \E page \in Pages : Current(c, <<page, f>>)

IInv == TypeOK /\ TablesAreInverse /\ TranslationsAreCurrent /\ CachedIsOwned
-----------------------------------------------------------------------------
LEMMA InitInv == Init => IInv
<1> SUFFICES ASSUME Init PROVE IInv
  OBVIOUS
<1> USE PageAssumption DEF Init
<1>1. DOMAIN page_table = {} /\ DOMAIN inverse_table = {}
  OBVIOUS
<1>2. TableTypes
  <2>1. page_table \in [{} -> Frames] /\ inverse_table \in [{} -> Keys]
    OBVIOUS
  <2>2. previous_ppage \in Frames /\ allocated_pages \in 0..DramPages
    BY DEF Frames
  <2> QED
    BY <1>1, <2>1, <2>2 DEF TableTypes
<1>3. TlbTypes
  BY DEF TlbTypes
<1>4. TablesAreInverse
  BY <1>1 DEF TablesAreInverse
<1>5. TranslationsAreCurrent /\ CachedIsOwned
  BY DEF TranslationsAreCurrent, CachedIsOwned, InFlight
<1> QED
  BY <1>2, <1>3, <1>4, <1>5 DEF IInv, TypeOK
-----------------------------------------------------------------------------
(* One call of va_to_pa. *)

\* An allocation keeps every mapping, and adds one for a free frame.
LEMMA AllocateTables ==
  ASSUME TableTypes, TablesAreInverse, NEW k \in Keys, Allocate(k)
  PROVE  /\ TableTypes' /\ TablesAreInverse'
         /\ Mapped(k)' /\ swapped' = swapped
         /\ \A l \in DOMAIN page_table : Mapped(l)' /\ page_table'[l] = page_table[l]
<1> USE PageAssumption DEF Mapped
<1>1. PICK f \in Frames, n \in RunLengths \cup 0..num_adjacent_page :
        /\ Free(f)
        /\ page_table' = [l \in DOMAIN page_table \cup {k} |->
                            IF l = k THEN f ELSE page_table[l]]
        /\ inverse_table' = [g \in DOMAIN inverse_table \cup {f} |->
                               IF g = f THEN k ELSE inverse_table[g]]
        /\ previous_ppage' = f
        /\ num_adjacent_page' = n
  BY DEF Allocate
<1>2. k \notin DOMAIN page_table /\ f \notin DOMAIN inverse_table
  BY <1>1 DEF Allocate, Free
<1>3. DOMAIN page_table' = DOMAIN page_table \cup {k}
      /\ DOMAIN inverse_table' = DOMAIN inverse_table \cup {f}
  BY <1>1
<1>4. page_table'[k] = f /\ inverse_table'[f] = k
  BY <1>1
<1>5. \A l \in DOMAIN page_table : page_table'[l] = page_table[l]
  BY <1>1, <1>2
<1>6. \A g \in DOMAIN inverse_table : inverse_table'[g] = inverse_table[g]
  BY <1>1, <1>2
<1>7. TableTypes'
  <2>1. page_table' \in [DOMAIN page_table' -> Frames]
    BY <1>1, <1>3 DEF TableTypes
  <2>2. inverse_table' \in [DOMAIN inverse_table' -> Keys]
    BY <1>1, <1>3 DEF TableTypes
  <2>3. n \in Nat
    BY DEF TableTypes
  <2>4. allocated_pages' \in 0..DramPages
    BY DEF Allocate, MemoryFull, TableTypes
  <2> QED
    BY <1>1, <1>3, <2>1, <2>2, <2>3, <2>4 DEF TableTypes, Allocate
<1>8. TablesAreInverse'
  <2>1. ASSUME NEW l \in DOMAIN page_table'
        PROVE  /\ page_table'[l] \in DOMAIN inverse_table'
               /\ inverse_table'[page_table'[l]] = l
    <3>1. CASE l = k
      BY <3>1, <1>3, <1>4
    <3>2. CASE l # k
      BY <3>2, <1>3, <1>5, <1>6 DEF TablesAreInverse
    <3> QED
      BY <3>1, <3>2
  <2>2. ASSUME NEW g \in DOMAIN inverse_table'
        PROVE  /\ inverse_table'[g] \in DOMAIN page_table'
               /\ page_table'[inverse_table'[g]] = g
    <3>1. CASE g = f
      BY <3>1, <1>3, <1>4
    <3>2. CASE g # f
      BY <3>2, <1>3, <1>5, <1>6 DEF TablesAreInverse
    <3> QED
      BY <3>1, <3>2
  <2> QED
    BY <2>1, <2>2 DEF TablesAreInverse
<1> QED
  BY <1>3, <1>5, <1>7, <1>8 DEF Allocate

\* A swap gives the frame of one page to another.
LEMMA SwapTables ==
  ASSUME TableTypes, TablesAreInverse, NEW c \in Cpus, NEW k \in Keys, Swap(c, k)
  PROVE  TableTypes' /\ TablesAreInverse' /\ Mapped(k)' /\ swapped'
<1> USE PageAssumption DEF Mapped
<1>1. PICK v \in DOMAIN page_table :
        /\ page_table' = [l \in (DOMAIN page_table \ {v}) \cup {k} |->
                            IF l = k THEN page_table[v] ELSE page_table[l]]
        /\ inverse_table' = [inverse_table EXCEPT ![page_table[v]] = k]
  BY DEF Swap, Reassigned
<1> DEFINE f == page_table[v]
<1>2. k \notin DOMAIN page_table /\ k # v
  BY DEF Swap
<1>3. DOMAIN page_table' = (DOMAIN page_table \ {v}) \cup {k}
      /\ DOMAIN inverse_table' = DOMAIN inverse_table
  BY <1>1
<1>4. f \in DOMAIN inverse_table /\ inverse_table[f] = v
  BY DEF TablesAreInverse
<1>5. page_table'[k] = f /\ inverse_table'[f] = k
  BY <1>1, <1>4
<1>6. \A l \in DOMAIN page_table \ {v} : page_table'[l] = page_table[l]
  BY <1>1, <1>2
<1>7. \A g \in DOMAIN inverse_table \ {f} : inverse_table'[g] = inverse_table[g]
  BY <1>1
<1>8. TableTypes'
  <2>1. page_table' \in [DOMAIN page_table' -> Frames]
    BY <1>1, <1>3 DEF TableTypes
  <2>2. inverse_table' \in [DOMAIN inverse_table' -> Keys]
    BY <1>1, <1>3 DEF TableTypes
  <2> QED
    BY <1>3, <2>1, <2>2 DEF TableTypes, Swap
<1>9. TablesAreInverse'
  <2>1. ASSUME NEW l \in DOMAIN page_table'
        PROVE  /\ page_table'[l] \in DOMAIN inverse_table'
               /\ inverse_table'[page_table'[l]] = l
    <3>1. CASE l = k
      BY <3>1, <1>3, <1>4, <1>5
    <3>2. CASE l # k
      <4>1. l \in DOMAIN page_table \ {v} /\ page_table[l] # f
        BY <3>2, <1>3, <1>4 DEF TablesAreInverse
      <4> QED
        BY <4>1, <1>3, <1>6, <1>7 DEF TablesAreInverse
    <3> QED
      BY <3>1, <3>2
  <2>2. ASSUME NEW g \in DOMAIN inverse_table'
        PROVE  /\ inverse_table'[g] \in DOMAIN page_table'
               /\ page_table'[inverse_table'[g]] = g
    <3>1. CASE g = f
      BY <3>1, <1>3, <1>5
    <3>2. CASE g # f
      <4>1. g \in DOMAIN inverse_table \ {f} /\ inverse_table[g] # v
        BY <3>2, <1>3 DEF TablesAreInverse
      <4> QED
        BY <4>1, <1>3, <1>6, <1>7 DEF TablesAreInverse
    <3> QED
      BY <3>1, <3>2
  <2> QED
    BY <2>1, <2>2 DEF TablesAreInverse
<1> QED
  BY <1>3, <1>8, <1>9 DEF Swap
-----------------------------------------------------------------------------
(* The steps that only move translations. *)

\* A translation that moves up the TLBs of a core stays as current as it was.
LEMMA MoveInv ==
  ASSUME IInv, UNCHANGED tableVars, TlbTypes', UNCHANGED cached,
         \A d \in Cpus : InFlight(d)' \subseteq InFlight(d)
  PROVE  IInv'
<1>1. TableTypes' /\ TablesAreInverse'
  BY DEF IInv, TypeOK, TableTypes, TablesAreInverse, tableVars
<1>2. \A d \in Cpus : \A t : Current(d, t)' <=> Current(d, t)
  BY DEF Current, Mapped, tableVars
<1>3. TranslationsAreCurrent'
  BY <1>2 DEF IInv, TranslationsAreCurrent, tableVars
<1>4. CachedIsOwned'
  BY <1>2 DEF IInv, CachedIsOwned, tableVars
<1> QED
  BY <1>1, <1>3, <1>4 DEF IInv, TypeOK

\* A fill keeps translations of the TLB and the new one.
LEMMA FilledSubset ==
  ASSUME NEW T, NEW t, NEW S \in Filled(T, t)
  PROVE  S \subseteq T \cup {t}
BY DEF Filled

LEMMA FillStlbInv ==
  ASSUME IInv, NEW c \in Cpus, FillStlb(c)
  PROVE  IInv'
<1>1. PICK t \in walk[c] :
        /\ walk' = [walk EXCEPT ![c] = @ \ {t}]
        /\ \E T \in Filled(stlb[c], t) : stlb' = [stlb EXCEPT ![c] = T]
        /\ fill' = [fill EXCEPT ![c] = @ \cup {t}]
  BY DEF FillStlb
<1>2. PICK T : stlb' = [stlb EXCEPT ![c] = T] /\ T \subseteq stlb[c] \cup {t}
  BY <1>1, FilledSubset
<1>3. UNCHANGED tableVars /\ UNCHANGED tlb /\ UNCHANGED cached
  BY DEF FillStlb
<1>4. TlbTypes
  BY DEF IInv, TypeOK
<1>5. TlbTypes'
  BY <1>1, <1>2, <1>3, <1>4 DEF TlbTypes
<1>6. ASSUME NEW d \in Cpus
      PROVE  InFlight(d)' \subseteq InFlight(d)
  <2>1. CASE d = c
    BY <2>1, <1>1, <1>2, <1>3, <1>4 DEF InFlight, TlbTypes
  <2>2. CASE d # c
    BY <2>2, <1>1, <1>3, <1>4 DEF InFlight, TlbTypes
  <2> QED
    BY <2>1, <2>2
<1> QED
  BY <1>3, <1>5, <1>6, MoveInv

LEMMA StlbHitInv ==
  ASSUME IInv, NEW c \in Cpus, StlbHit(c)
  PROVE  IInv'
<1>1. PICK t \in stlb[c] : fill' = [fill EXCEPT ![c] = @ \cup {t}]
  BY DEF StlbHit
<1>2. UNCHANGED tableVars /\ UNCHANGED <<walk, stlb, tlb, cached>>
  BY DEF StlbHit
<1>3. TlbTypes
  BY DEF IInv, TypeOK
<1>4. TlbTypes'
  BY <1>1, <1>2, <1>3 DEF TlbTypes
<1>5. \A d \in Cpus : InFlight(d)' \subseteq InFlight(d)
  BY <1>1, <1>2, <1>3 DEF InFlight, TlbTypes
<1> QED
  BY <1>2, <1>4, <1>5, MoveInv

LEMMA FillTlbInv ==
  ASSUME IInv, NEW c \in Cpus, FillTlb(c)
  PROVE  IInv'
<1>1. PICK t \in fill[c] :
        /\ fill' = [fill EXCEPT ![c] = @ \ {t}]
        /\ \E T \in Filled(tlb[c], t) : tlb' = [tlb EXCEPT ![c] = T]
  BY DEF FillTlb
<1>2. PICK T : tlb' = [tlb EXCEPT ![c] = T] /\ T \subseteq tlb[c] \cup {t}
  BY <1>1, FilledSubset
<1>3. UNCHANGED tableVars /\ UNCHANGED <<walk, stlb, cached>>
  BY DEF FillTlb
<1>4. TlbTypes
  BY DEF IInv, TypeOK
<1>5. TlbTypes'
  BY <1>1, <1>2, <1>3, <1>4 DEF TlbTypes
<1>6. \A d \in Cpus : InFlight(d)' \subseteq InFlight(d)
  BY <1>1, <1>2, <1>3, <1>4 DEF InFlight, TlbTypes
<1> QED
  BY <1>3, <1>5, <1>6, MoveInv

\* An access caches the frame of a current translation.
LEMMA AccessInv ==
  ASSUME IInv, NEW c \in Cpus, Access(c)
  PROVE  IInv'
<1>1. PICK t \in tlb[c], X \in {{}} \cup {{f} : f \in cached[c]} :
        cached' = [cached EXCEPT ![c] = (@ \ X) \cup {t[2]}]
  BY DEF Access
<1>2. UNCHANGED tableVars /\ UNCHANGED <<walk, stlb, fill, tlb>>
  BY DEF Access
<1>3. TlbTypes
  BY DEF IInv, TypeOK
<1>4. t \in Translation /\ t = <<t[1], t[2]>> /\ t[1] \in Pages /\ t[2] \in Frames
  BY <1>3 DEF TlbTypes, Translation
<1>5. TlbTypes'
  BY <1>1, <1>2, <1>3, <1>4 DEF TlbTypes
<1>6. TableTypes' /\ TablesAreInverse' /\ TranslationsAreCurrent'
  BY <1>2 DEF IInv, TypeOK, TableTypes, TablesAreInverse, TranslationsAreCurrent,
              Current, Mapped, InFlight, tableVars
<1>7. CachedIsOwned'
  <2> SUFFICES ASSUME ~swapped', NEW d \in Cpus, NEW f \in cached'[d]
               PROVE  \E page \in Pages : Current(d, <<page, f>>)'
    BY DEF CachedIsOwned
  <2>1. \A page \in Pages : Current(d, <<page, f>>)' <=> Current(d, <<page, f>>)
    BY <1>2 DEF Current, Mapped, tableVars
  <2>2. ~swapped
    BY <1>2 DEF tableVars
  <2>3. CASE f \in cached[d]
    BY <2>1, <2>2, <2>3 DEF IInv, CachedIsOwned
  <2>4. CASE f \notin cached[d]
    <3>1. d = c /\ f = t[2]
      BY <2>4, <1>1, <1>3 DEF TlbTypes
    <3>2. Current(c, t)
      BY <2>2, <1>1 DEF IInv, TranslationsAreCurrent, InFlight
    <3> QED
      BY <3>1, <3>2, <2>1, <1>4
  <2> QED
    BY <2>3, <2>4
<1> QED
  BY <1>5, <1>6, <1>7 DEF IInv, TypeOK
-----------------------------------------------------------------------------
(* The page walk. *)

\* A walk that swaps nothing out leaves current what was current.
LEMMA WalkKeeps ==
  ASSUME TableTypes, TablesAreInverse, NEW c \in Cpus, NEW page \in Pages,
         PageWalk(c, page), ~swapped'
  PROVE  ~swapped /\ \A d \in Cpus : \A t : Current(d, t) => Current(d, t)'
<1> DEFINE k == <<c, page>>
<1>1. k \in Keys
  BY DEF Keys
<1>2. CASE Found(k)
  BY <1>2 DEF Found, Current, Mapped, tableVars
<1>3. CASE Allocate(k)
  BY <1>1, <1>3, AllocateTables DEF Current, Mapped
<1>4. CASE Swap(c, k)
  BY <1>1, <1>4, SwapTables
<1> QED
  BY <1>2, <1>3, <1>4 DEF PageWalk

\* A walk keeps the tables inverse and maps its page.
LEMMA WalkTables ==
  ASSUME TableTypes, TablesAreInverse, NEW c \in Cpus, NEW page \in Pages,
         PageWalk(c, page)
  PROVE  TableTypes' /\ TablesAreInverse' /\ Mapped(<<c, page>>)'
<1> DEFINE k == <<c, page>>
<1>1. k \in Keys
  BY DEF Keys
<1>2. CASE Found(k)
  BY <1>2 DEF Found, TableTypes, TablesAreInverse, Mapped, tableVars
<1>3. CASE Allocate(k)
  BY <1>1, <1>3, AllocateTables
<1>4. CASE Swap(c, k)
  BY <1>1, <1>4, SwapTables
<1> QED
  BY <1>2, <1>3, <1>4 DEF PageWalk

\* A walk changes the TLBs and caches of its core by invalidation only.
LEMMA WalkInvalidates ==
  ASSUME TlbTypes, NEW c \in Cpus, NEW page \in Pages, PageWalk(c, page)
  PROVE  /\ stlb' \in [Cpus -> SUBSET Translation]
         /\ tlb' \in [Cpus -> SUBSET Translation]
         /\ cached' \in [Cpus -> SUBSET Frames]
         /\ ~swapped' => UNCHANGED <<stlb, tlb, cached>>
<1> DEFINE k == <<c, page>>
<1>1. CASE Found(k)
  BY <1>1 DEF Found, TlbTypes
<1>2. CASE Allocate(k)
  BY <1>2 DEF Allocate, TlbTypes
<1>3. CASE Swap(c, k)
  <2>1. PICK v, f :
          /\ stlb' = [stlb EXCEPT ![c] = Invalidated(@, v)]
          /\ tlb' = [tlb EXCEPT ![c] = Invalidated(@, v)]
          /\ cached' = [cached EXCEPT ![c] = @ \ {f}]
    BY <1>3 DEF Swap
  <2>2. Invalidated(stlb[c], v) \subseteq stlb[c] /\ Invalidated(tlb[c], v) \subseteq tlb[c]
    BY DEF Invalidated
  <2>3. swapped'
    BY <1>3 DEF Swap
  <2> QED
    BY <2>1, <2>2, <2>3 DEF TlbTypes
<1> QED
  BY <1>1, <1>2, <1>3 DEF PageWalk

LEMMA PageWalkInv ==
  ASSUME IInv, NEW c \in Cpus, NEW page \in Pages, PageWalk(c, page)
  PROVE  IInv'
<1> PICK t : t = <<page, page_table'[<<c, page>>]>>
  OBVIOUS
<1>1. TableTypes /\ TablesAreInverse /\ TlbTypes
  BY DEF IInv, TypeOK
<1>2. TableTypes' /\ TablesAreInverse' /\ Mapped(<<c, page>>)'
  BY <1>1, WalkTables
<1>3. t \in Translation /\ Current(c, t)'
  <2>1. page_table'[<<c, page>>] \in Frames
    BY <1>2 DEF Mapped, TableTypes
  <2> QED
    BY <1>2, <2>1 DEF Translation, Current
<1>4. walk' = [walk EXCEPT ![c] = @ \cup {t}] /\ fill' = fill
  BY DEF PageWalk
<1>5. TlbTypes'
  BY <1>1, <1>3, <1>4, WalkInvalidates DEF TlbTypes
<1>6. TranslationsAreCurrent'
  <2> SUFFICES ASSUME ~swapped', NEW d \in Cpus, NEW u \in InFlight(d)'
               PROVE  Current(d, u)'
    BY DEF TranslationsAreCurrent
  <2>1. ~swapped /\ (Current(d, u) => Current(d, u)')
    BY <1>1, WalkKeeps
  <2>2. u \in InFlight(d) \/ (d = c /\ u = t)
    BY <1>1, <1>4, WalkInvalidates DEF InFlight, TlbTypes
  <2> QED
    BY <2>1, <2>2, <1>3 DEF IInv, TranslationsAreCurrent
<1>7. CachedIsOwned'
  <2> SUFFICES ASSUME ~swapped', NEW d \in Cpus, NEW f \in cached'[d]
               PROVE  \E p \in Pages : Current(d, <<p, f>>)'
    BY DEF CachedIsOwned
  <2>1. ~swapped /\ f \in cached[d]
    BY <1>1, WalkKeeps, WalkInvalidates
  <2>2. PICK p \in Pages : Current(d, <<p, f>>)
    BY <2>1 DEF IInv, CachedIsOwned
  <2> QED
    BY <2>2, <1>1, WalkKeeps
<1> QED
  BY <1>2, <1>5, <1>6, <1>7 DEF IInv, TypeOK

LEMMA NextInv == IInv /\ [Next]_vars => IInv'
<1> SUFFICES ASSUME IInv, [Next]_vars PROVE IInv'
  OBVIOUS
<1>1. CASE Next
  <2>1. PICK c \in Cpus : \/ \E page \in Pages : PageWalk(c, page)
                          \/ FillStlb(c) \/ StlbHit(c) \/ FillTlb(c) \/ Access(c)
    BY <1>1 DEF Next
  <2> QED
    BY <2>1, PageWalkInv, FillStlbInv, StlbHitInv, FillTlbInv, AccessInv
<1>2. CASE UNCHANGED vars
  <2>1. UNCHANGED tableVars /\ UNCHANGED <<walk, stlb, fill, tlb, cached>>
    BY <1>2 DEF vars
  <2>2. TlbTypes' /\ \A d \in Cpus : InFlight(d)' \subseteq InFlight(d)
    BY <2>1 DEF IInv, TypeOK, TlbTypes, InFlight
  <2> QED
    BY <2>1, <2>2, MoveInv
<1> QED
  BY <1>1, <1>2

\* The inductive invariant holds in every reachable state.
LEMMA Invariant == Spec => []IInv
BY InitInv, NextInv, PTL DEF Spec
-----------------------------------------------------------------------------
\* Every variable keeps its type and no more pages are allocated than the
\* memory has, for every size of memory, TLBs and draws.
THEOREM TypeCorrect == Spec => []TypeOK
<1>1. IInv => TypeOK
  BY DEF IInv
<1> QED
  BY <1>1, Invariant, PTL

\* The two maps of va_to_pa stay inverse through allocations and swaps.
THEOREM TablesInverse == Spec => []TablesAreInverse
<1>1. IInv => TablesAreInverse
  BY DEF IInv
<1> QED
  BY <1>1, Invariant, PTL

\* Until the first swap, no frame has blocks in the private caches of two
\* cores: every cached frame belongs to a page of its core, and a frame has
\* one page.
THEOREM NoFrameShared == Spec => []CoresShareNoFrame
<1>1. IInv => CoresShareNoFrame
  <2> SUFFICES ASSUME IInv, ~swapped, NEW c \in Cpus, NEW d \in Cpus, c # d,
                      NEW f \in cached[c] \cap cached[d]
               PROVE  FALSE
    BY DEF CoresShareNoFrame
  <2>1. PICK p \in Pages : Current(c, <<p, f>>)
    BY DEF IInv, CachedIsOwned
  <2>2. PICK q \in Pages : Current(d, <<q, f>>)
    BY DEF IInv, CachedIsOwned
  <2>3. inverse_table[f] = <<c, p>> /\ inverse_table[f] = <<d, q>>
    BY <2>1, <2>2 DEF IInv, TablesAreInverse, Current, Mapped
  <2> QED
    BY <2>3
<1> QED
  BY <1>1, Invariant, PTL
-----------------------------------------------------------------------------
(* allocated_pages counts the mapped pages. *)
Counted == IsFiniteSet(DOMAIN page_table) /\ AllocatedIsCounted

LEMMA InitCounted == Init => Counted
<1> SUFFICES ASSUME Init PROVE Counted
  OBVIOUS
<1>1. DOMAIN page_table = {}
  BY DEF Init
<1> QED
  BY <1>1, FS_EmptySet DEF Init, Counted, AllocatedIsCounted

\* An allocation counts the page it maps; a swap maps one page for another.
LEMMA WalkCounted ==
  ASSUME TableTypes, Counted, NEW c \in Cpus, NEW page \in Pages, PageWalk(c, page)
  PROVE  Counted'
<1> DEFINE k == <<c, page>>
           S == DOMAIN page_table
<1>1. CASE Found(k)
  BY <1>1 DEF Found, Counted, AllocatedIsCounted, tableVars
<1>2. CASE Allocate(k)
  <2>1. DOMAIN page_table' = S \cup {k} /\ k \notin S
    BY <1>2 DEF Allocate, Mapped
  <2>2. allocated_pages' = allocated_pages + 1
    BY <1>2 DEF Allocate
  <2> QED
    BY <2>1, <2>2, FS_AddElement DEF Counted, AllocatedIsCounted
<1>3. CASE Swap(c, k)
  <2>1. PICK v \in S : DOMAIN page_table' = (S \ {v}) \cup {k} /\ k \notin S
    BY <1>3 DEF Swap, Mapped
  <2>2. allocated_pages' = allocated_pages
    BY <1>3 DEF Swap
  <2>3. IsFiniteSet(S \ {v}) /\ Cardinality(S \ {v}) = Cardinality(S) - 1
    BY <2>1, FS_RemoveElement DEF Counted
  <2>4. /\ IsFiniteSet((S \ {v}) \cup {k})
        /\ Cardinality((S \ {v}) \cup {k}) = Cardinality(S \ {v}) + 1
    BY <2>1, <2>3, FS_AddElement
  <2> QED
    BY <2>1, <2>2, <2>3, <2>4 DEF Counted, AllocatedIsCounted, TableTypes
<1> QED
  BY <1>1, <1>2, <1>3 DEF PageWalk

LEMMA NextCounted == IInv /\ Counted /\ [Next]_vars => Counted'
<1> SUFFICES ASSUME IInv, Counted, [Next]_vars PROVE Counted'
  OBVIOUS
<1>1. UNCHANGED tableVars => Counted'
  BY DEF Counted, AllocatedIsCounted, tableVars
<1>2. CASE Next
  <2>1. PICK c \in Cpus : \/ \E page \in Pages : PageWalk(c, page)
                          \/ FillStlb(c) \/ StlbHit(c) \/ FillTlb(c) \/ Access(c)
    BY <1>2 DEF Next
  <2>2. CASE \E page \in Pages : PageWalk(c, page)
    BY <2>2, WalkCounted DEF IInv, TypeOK
  <2>3. CASE FillStlb(c) \/ StlbHit(c) \/ FillTlb(c) \/ Access(c)
    BY <2>3, <1>1 DEF FillStlb, StlbHit, FillTlb, Access
  <2> QED
    BY <2>1, <2>2, <2>3
<1>3. CASE UNCHANGED vars
  BY <1>3, <1>1 DEF vars
<1> QED
  BY <1>2, <1>3

\* allocated_pages, on which the choice between allocation and swap rests,
\* is the number of pages in page_table.
THEOREM AllocatedCorrect == Spec => []AllocatedIsCounted
<1>1. Counted => AllocatedIsCounted
  BY DEF Counted
<1> QED
  BY <1>1, InitCounted, NextCounted, Invariant, PTL DEF Spec

\* A walk keeps the frames of the pages it leaves mapped, and unmaps at most
\* one page, when the memory is full.
LEMMA WalkStable ==
  ASSUME TypeOK, TablesAreInverse, Counted,
         NEW c \in Cpus, NEW page \in Pages, PageWalk(c, page)
  PROVE  LET old == DOMAIN page_table
             lost == old \ DOMAIN page_table'
         IN /\ \A k \in old \ lost : page_table'[k] = page_table[k]
            /\ lost # {} => Cardinality(old) = DramPages /\ Cardinality(lost) = 1
<1> DEFINE k == <<c, page>>
           old == DOMAIN page_table
           lost == old \ DOMAIN page_table'
<1>1. CASE Found(k)
  BY <1>1 DEF Found, tableVars
<1>2. CASE Allocate(k)
  <2>1. k \in Keys
    BY DEF Keys
  <2> QED
    BY <1>2, <2>1, AllocateTables DEF TypeOK, Mapped
<1>3. CASE Swap(c, k)
  <2>1. PICK v \in old : page_table' = [l \in (old \ {v}) \cup {k} |->
                           IF l = k THEN page_table[v] ELSE page_table[l]]
    BY <1>3 DEF Swap
  <2>2. k \notin old
    BY <1>3 DEF Swap, Mapped
  <2>3. lost = {v}
    BY <2>1, <2>2
  <2>4. \A l \in old \ lost : page_table'[l] = page_table[l]
    BY <2>1, <2>2, <2>3
  <2>5. Cardinality(old) = DramPages
    BY <1>3, PageAssumption
       DEF Swap, MemoryFull, Counted, AllocatedIsCounted, TypeOK, TableTypes
  <2> QED
    BY <2>3, <2>4, <2>5, FS_Singleton
<1> QED
  BY <1>1, <1>2, <1>3 DEF PageWalk

\* A mapped page keeps its frame until a full memory swaps it out.
THEOREM MappingsStable == Spec => MappingsAreStable
<1> DEFINE Stable ==
      LET old == DOMAIN page_table
          lost == old \ DOMAIN page_table'
      IN /\ \A k \in old \ lost : page_table'[k] = page_table[k]
         /\ lost # {} => Cardinality(old) = DramPages /\ Cardinality(lost) = 1
<1>1. ASSUME IInv, Counted, [Next]_vars PROVE [Stable]_vars
  <2>1. UNCHANGED tableVars => Stable
    BY DEF tableVars
  <2>2. CASE Next
    <3>1. PICK c \in Cpus : \/ \E page \in Pages : PageWalk(c, page)
                            \/ FillStlb(c) \/ StlbHit(c) \/ FillTlb(c) \/ Access(c)
      BY <2>2 DEF Next
    <3>2. CASE \E page \in Pages : PageWalk(c, page)
      BY <1>1, <3>2, WalkStable DEF IInv
    <3>3. CASE FillStlb(c) \/ StlbHit(c) \/ FillTlb(c) \/ Access(c)
      BY <2>1, <3>3 DEF FillStlb, StlbHit, FillTlb, Access
    <3> QED
      BY <3>1, <3>2, <3>3
  <2>3. CASE UNCHANGED vars
    BY <2>3
  <2> QED
    BY <1>1, <2>2, <2>3
<1> QED
  BY <1>1, InitCounted, NextCounted, Invariant, PTL DEF Spec, MappingsAreStable
=============================================================================
