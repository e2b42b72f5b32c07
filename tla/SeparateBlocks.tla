--------------------------- MODULE SeparateBlocks ---------------------------
(***************************************************************************)
(* What main.cc and cache.h provide beyond CacheHierarchy's assumptions,   *)
(* and what a program must respect, for a request to come back to the      *)
(* cache that waits for it: the answer follows the upper level pointer     *)
(* that packet.cpu and packet.instruction select, not the path the request *)
(* came down.                                                              *)
(***************************************************************************)
EXTENDS CacheHierarchy

\* Every access the cores, the stores and the prefetchers may make.
Inputs == {<<x.cache, x.addr>> : x \in Demands \cup Stores \cup Prefetches}

HasUpper(c) == \E u \in Caches : Lower[u] = c

\* The misses of cache d reach cache c: the hierarchy has three levels.
Feeds(d, c) ==
  \/ d = c \/ Lower[d] = c
  \/ Lower[d] \in Caches /\ Lower[Lower[d]] = c

\* The ports that packets for block a may carry when they are in cache c.
PortsFor(c, a) ==
  {PortOf[d] : d \in {d \in Caches : <<d, a>> \in Inputs /\ Feeds(d, c)}}

\* The MSHRs of the caches whose misses go to cache l.
MshrsAbove(l) == UNION {{u} \X (1..MshrSize[u]) : u \in {v \in Caches : Lower[v] = l}}

\* FILL_L1, FILL_L2 and FILL_LLC follow lower_level, one cache is above DRAM,
\* and the upper level pointers lead back to the cache that a packet passed.
ASSUME RouteAssumption ==
  /\ IsFiniteSet(Caches)
  /\ \A c \in Caches :
       /\ Lower[c] \in Caches => FillLevel[Lower[c]] = 2 * FillLevel[c]
       /\ Lower[c] = Dram => FillLevel[c] = 4
  /\ \A c, d \in Caches : Lower[c] = Dram /\ Lower[d] = Dram => c = d
  /\ \A c, d \in Caches : Feeds(d, c) /\ Lower[c] \in Caches \cup {Dram} =>
       Upper[Lower[c]][PortOf[d]] = c

\* Cores access and retire_rob writes first-level caches; a prefetcher fills
\* its own level or one below it.
ASSUME SourceAssumption ==
  /\ \A d \in Demands : ~HasUpper(d.cache)
  /\ \A p \in Prefetches : p.fl >= FillLevel[p.cache]

\* Prefetches of block a that c passes up, not only those it makes for itself.
PrefetchesPass(c, a) ==
  \E x \in Prefetches : x.addr = a /\ Feeds(x.cache, c) /\ x.fl < FillLevel[c]

\* The ports of those that c answers: what a cache below another prefetches for
\* itself is filled there and answered to nobody.
AnswerPorts(c, a) ==
  {PortOf[d] : d \in {d \in Caches : /\ <<d, a>> \in Inputs /\ Feeds(d, c)
                                     /\ d # c \/ ~HasUpper(c) \/ PrefetchesPass(c, a)}}

\* A block is code or data, of one core: the accesses to it that can meet in a
\* cache and are answered come from the same cache above.
ASSUME SeparateAssumption ==
  \A c \in Caches, a \in Addr : \A p, q \in AnswerPorts(c, a) : Upper[c][p] = Upper[c][q]

\* A read queue has an entry for each MSHR above it (cache.h: the LLC's has
\* exactly as many).
ASSUME RoomAssumption ==
  \A l \in Caches : HasUpper(l) => Cardinality(MshrsAbove(l)) <= RqSize[l]
=============================================================================
