--------------------------- MODULE Requests_proofs ---------------------------
(***************************************************************************)
(* Every miss that waits has exactly one request below it, every request   *)
(* that will be answered has its miss, and the read queues have room for   *)
(* the misses: for every hierarchy, every queue size and every set of      *)
(* inputs that satisfy the assumptions of CacheHierarchy and               *)
(* SeparateBlocks.                                                         *)
(***************************************************************************)
EXTENDS CacheHierarchy_proofs, SeparateBlocks

-----------------------------------------------------------------------------
(* Ports.                                                                  *)

\* The caches that block a can reach.
Near(a) == {u \in Caches : PortsFor(u, a) # {}}

LEMMA PortsType ==
  ASSUME NEW c, NEW a, NEW port \in PortsFor(c, a)
  PROVE  port \in Ports
<1>1. PICK d \in Caches : port = PortOf[d]
  BY DEF PortsFor
<1> QED
  BY <1>1, HierarchyAssumption

\* The misses of a cache go through its lower level, and no further than the
\* third: FILL_L1, FILL_L2 and FILL_LLC are the only levels.
LEMMA FeedsLower ==
  ASSUME NEW d \in Caches, NEW c \in Caches, Feeds(d, c), Lower[c] \in Caches
  PROVE  Feeds(d, Lower[c])
<1>1. CASE d = c \/ Lower[d] = c
  BY <1>1 DEF Feeds
<1>2. CASE Lower[d] \in Caches /\ Lower[Lower[d]] = c
  <2>1. /\ FillLevel[Lower[d]] = 2 * FillLevel[d]
        /\ FillLevel[c] = 2 * FillLevel[Lower[d]]
        /\ FillLevel[Lower[c]] = 2 * FillLevel[c]
    BY <1>2, RouteAssumption
  <2>2. FillLevel[d] \in {1, 2, 4} /\ FillLevel[Lower[c]] \in {1, 2, 4}
    BY HierarchyAssumption
  <2> QED
    BY <2>1, <2>2
<1> QED
  BY <1>1, <1>2 DEF Feeds

\* The levels double on the way down, so no miss comes back to its cache.
LEMMA FeedsNoCycle ==
  ASSUME NEW d \in Caches, NEW c \in Caches, Feeds(d, c), Lower[c] \in Caches
  PROVE  Lower[c] # d
<1>1. /\ \A u \in Caches : FillLevel[u] \in {1, 2, 4}
      /\ \A u \in Caches : Lower[u] \in Caches => FillLevel[Lower[u]] = 2 * FillLevel[u]
  BY HierarchyAssumption, RouteAssumption
<1>2. CASE d = c
  BY <1>2, HierarchyAssumption
<1>3. CASE Lower[d] = c
  BY <1>1, <1>3
<1>4. CASE Lower[d] \in Caches /\ Lower[Lower[d]] = c
  BY <1>1, <1>4
<1> QED
  BY <1>2, <1>3, <1>4 DEF Feeds

LEMMA AnswerPortsFor ==
  ASSUME NEW c, NEW a
  PROVE  /\ AnswerPorts(c, a) \subseteq PortsFor(c, a)
         /\ ~HasUpper(c) \/ PrefetchesPass(c, a) => AnswerPorts(c, a) = PortsFor(c, a)
BY DEF AnswerPorts, PortsFor

\* A packet that goes down keeps a port for which the way up leads back.
LEMMA PortsBelow ==
  ASSUME NEW c \in Caches, NEW a, NEW port \in PortsFor(c, a)
  PROVE  /\ Lower[c] \in Caches => port \in AnswerPorts(Lower[c], a)
         /\ Lower[c] \in Caches \cup {Dram} => Upper[Lower[c]][port] = c
<1>1. PICK d \in Caches : <<d, a>> \in Inputs /\ Feeds(d, c) /\ port = PortOf[d]
  BY DEF PortsFor
<1>2. Lower[c] \in Caches => Feeds(d, Lower[c]) /\ d # Lower[c]
  BY <1>1, FeedsLower, FeedsNoCycle
<1>3. Lower[c] \in Caches => port \in AnswerPorts(Lower[c], a)
  BY <1>1, <1>2 DEF AnswerPorts
<1>4. Lower[c] \in Caches \cup {Dram} => Upper[Lower[c]][port] = c
  BY <1>1, RouteAssumption
<1> QED
  BY <1>3, <1>4

\* The answer to any packet for a that the level below u answers goes to u, if
\* block a can reach u at all: packets for a block cannot be confused.
LEMMA OwnerIs ==
  ASSUME NEW a \in Addr, NEW u \in Near(a), NEW c \in Caches, Lower[u] = c,
         NEW port \in AnswerPorts(c, a)
  PROVE  Upper[c][port] = u
<1>1. PICK q \in PortsFor(u, a) : TRUE
  BY DEF Near
<1>2. q \in AnswerPorts(c, a) /\ Upper[c][q] = u
  BY <1>1, PortsBelow DEF Near
<1>3. Upper[c][port] = Upper[c][q]
  BY <1>2, SeparateAssumption
<1> QED
  BY <1>2, <1>3

\* So at most one cache above another can wait for a block.
LEMMA OneAbove ==
  ASSUME NEW a \in Addr, NEW u \in Near(a), NEW v \in Near(a), Lower[u] = Lower[v],
         Lower[u] \in Caches \cup {Dram}
  PROVE  u = v
<1>1. CASE Lower[u] = Dram
  BY <1>1, RouteAssumption DEF Near
<1>2. CASE Lower[u] \in Caches
  <2>1. PICK q \in PortsFor(u, a) : TRUE
    BY DEF Near
  <2>2. q \in AnswerPorts(Lower[u], a) /\ Upper[Lower[u]][q] = u
    BY <1>2, <2>1, PortsBelow DEF Near
  <2>3. Upper[Lower[v]][q] = v
    BY <1>2, <2>2, OwnerIs
  <2> QED
    BY <2>2, <2>3
<1> QED
  BY <1>1, <1>2

-----------------------------------------------------------------------------
(* The requests for one block.  A request is known by the cache it is in:  *)
(* R, Q and T are the caches with a packet or an entry that the level      *)
(* above waits for in RQ, in PQ and in the MSHRs, W the caches with an     *)
(* entry that waits for the level below.                                   *)

Linked(R, Q, T, W) ==
  /\ R \cap Q = {} /\ R \cap T = {} /\ Q \cap T = {}
  /\ \A c \in R \cup Q \cup T : \E u \in W : Lower[u] = c
  /\ \A u \in W : Lower[u] \in Caches => Lower[u] \in R \cup Q \cup T

\* The request that cache c holds is answered: the cache u above stops waiting.
LEMMA LinkedAnswer ==
  ASSUME NEW a \in Addr, NEW R, NEW Q, NEW T, NEW W \in SUBSET Near(a),
         Linked(R, Q, T, W), NEW u \in W, NEW c \in Caches, Lower[u] = c
  PROVE  Linked(R \ {c}, Q \ {c}, T \ {c}, W \ {u})
<1>1. \A v \in W : Lower[v] = c => v = u
  BY OneAbove
<1> QED
  BY <1>1 DEF Linked

\* Below a cache that does not wait nothing asks in its name.
LEMMA NothingAsked ==
  ASSUME NEW a \in Addr, NEW R, NEW Q, NEW T, NEW W \in SUBSET Near(a),
         Linked(R, Q, T, W), NEW c \in Caches, c \in Near(a), c \notin W,
         NEW l \in Caches, Lower[c] = l
  PROVE  l \notin R \cup Q \cup T
<1>1. \A v \in W : Lower[v] # l
  BY OneAbove
<1> QED
  BY <1>1 DEF Linked

\* It starts to wait, and its request enters the read queue below.
LEMMA LinkedRead ==
  ASSUME NEW a \in Addr, NEW R, NEW Q, NEW T, NEW W \in SUBSET Near(a),
         Linked(R, Q, T, W), NEW c \in Caches, c \in Near(a), c \notin W,
         NEW l \in Caches, Lower[c] = l
  PROVE  Linked(R \cup {l}, Q, T, W \cup {c})
<1>1. l \notin R \cup Q \cup T
  BY NothingAsked
<1> QED
  BY <1>1 DEF Linked

\* Or the prefetch queue.
LEMMA LinkedPrefetch ==
  ASSUME NEW a \in Addr, NEW R, NEW Q, NEW T, NEW W \in SUBSET Near(a),
         Linked(R, Q, T, W), NEW c \in Caches, c \in Near(a), c \notin W,
         NEW l \in Caches, Lower[c] = l
  PROVE  Linked(R, Q \cup {l}, T, W \cup {c})
<1>1. l \notin R \cup Q \cup T
  BY NothingAsked
<1> QED
  BY <1>1 DEF Linked

\* A cache that asks nothing of a cache starts or stops waiting.
LEMMA LinkedOutside ==
  ASSUME NEW R, NEW Q, NEW T, NEW W, Linked(R, Q, T, W), NEW c, Lower[c] \notin Caches,
         R \cup Q \cup T \subseteq Caches
  PROVE  Linked(R, Q, T, W \cup {c}) /\ Linked(R, Q, T, W \ {c})
BY DEF Linked

\* The request moves from a queue of cache c to its MSHRs.
LEMMA LinkedMove ==
  ASSUME NEW R, NEW Q, NEW T, NEW W, Linked(R, Q, T, W), NEW c
  PROVE  /\ c \in R => Linked(R \ {c}, Q, T \cup {c}, W)
         /\ c \in Q => Linked(R, Q \ {c}, T \cup {c}, W)
BY DEF Linked
-----------------------------------------------------------------------------
(* What the queues and files may hold.                                     *)

\* A packet carries a port of its block, and one that leads back to the cache
\* it came from unless it is a prefetch that nobody above c waits for.
Legit(c, p) ==
  /\ p.port \in PortsFor(c, p.addr)
  /\ p.fl < FillLevel[c] \/ p.type # "PREFETCH" => p.port \in AnswerPorts(c, p.addr)

Distinct(s) == \A i, j \in DOMAIN s : s[i].addr = s[j].addr => i = j

\* Queues q whose packets are of distinct blocks, carry the ports of their
\* blocks and the fill levels of Lv: check_queue merges the duplicates.
QueuesOk(q, Lv) ==
  \A c \in Caches :
    /\ Distinct(q[c])
    /\ \A i \in DOMAIN q[c] : Legit(c, q[c][i]) /\ <<q[c][i].addr, q[c][i].fl>> \in Lv[c]

\* A read is filled at its cache or above; below another cache, above.
RqLevels ==
  [c \in Caches |-> {x \in Addr \X {1, 2, 4} :
                       x[2] <= FillLevel[c] /\ (HasUpper(c) => x[2] < FillLevel[c])}]

\* A prefetch is filled where a prefetcher at its cache or above asked for it.
PqLevels ==
  [c \in Caches |-> {<<x.addr, x.fl>> : x \in {x \in Prefetches : Feeds(x.cache, c)}}]

\* Writes are filled at their cache, so nobody waits for them; those of the
\* L1D may become entries of its MSHRs.
WritesOk(q) ==
  \A c \in Caches : \A i \in DOMAIN q[c] :
    q[c][i].fl = FillLevel[c] /\ (Kind[c] = "L1D" => Legit(c, q[c][i]))

EntriesOk(m) == \A c \in Caches : \A e \in m[c] : Legit(c, e)

Reaches(c, p) == p.port \in PortsFor(c, p.addr)
DramOk(S) ==
  /\ \A p, q \in S : p.addr = q.addr => p = q
  /\ \A p \in S : \E c \in Caches : Lower[c] = Dram /\ Reaches(c, p)

\* The sets of Linked, for block a.
Wanted(q, a) ==
  {c \in Caches : \E i \in DOMAIN q[c] : q[c][i].addr = a /\ q[c][i].fl < FillLevel[c]}
Asking(m, a) == {c \in Caches : \E e \in m[c] : e.addr = a /\ e.fl < FillLevel[c]}
Waiting(m, a) == {c \in Caches : \E e \in m[c] : e.addr = a /\ ~e.returned}

DramWanted(W) == \E u \in W : Lower[u] = Dram

LinksAt(m, r, q, S, a) ==
  /\ Linked(Wanted(r, a), Wanted(q, a), Asking(m, a), Waiting(m, a))
  /\ InFlight(S, a) <=> DramWanted(Waiting(m, a))

Links(m, r, q, S) == \A a \in Addr : LinksAt(m, r, q, S, a)

Shape ==
  /\ QueuesOk(rq, RqLevels) /\ QueuesOk(pq, PqLevels) /\ WritesOk(wq)
  /\ EntriesOk(mshr) /\ DramOk(dramRq)

\* A call that concerns block a leaves what other blocks ask and wait for.
MshrElsewhere(m, n, a) ==
  \A b : b # a => Asking(n, b) = Asking(m, b) /\ Waiting(n, b) = Waiting(m, b)
QueueElsewhere(q, r, a) == \A b : b # a => Wanted(r, b) = Wanted(q, b)
DramElsewhere(S, D, a) == \A b : b # a => (InFlight(D, b) <=> InFlight(S, b))

\* The inductive invariant, beside TypeOK, OneEntryPerBlock and Capacity.
Ready == Shape /\ Links(mshr, rq, pq, dramRq)

LEMMA WaitingNear ==
  ASSUME NEW m, EntriesOk(m), NEW a
  PROVE  Waiting(m, a) \in SUBSET Near(a)
BY DEF Waiting, EntriesOk, Legit, Near

\* The levels of a read queue, and those of a prefetch queue: what the level
\* above waits for was passed down by it.
LEMMA RqLevel ==
  ASSUME NEW c \in Caches, NEW p, <<p.addr, p.fl>> \in RqLevels[c]
  PROVE  p.fl \in {1, 2, 4} /\ p.fl <= FillLevel[c] /\ (HasUpper(c) => p.fl < FillLevel[c])
<1> DEFINE x == <<p.addr, p.fl>>
<1>1. x \in Addr \X {1, 2, 4} /\ x[2] <= FillLevel[c] /\ (HasUpper(c) => x[2] < FillLevel[c])
  BY DEF RqLevels
<1>2. x[2] = p.fl
  OBVIOUS
<1> QED
  BY <1>1, <1>2

LEMMA PqLevel ==
  ASSUME NEW c \in Caches, NEW p, <<p.addr, p.fl>> \in PqLevels[c]
  PROVE  /\ p.fl \in {1, 2, 4}
         /\ p.fl < FillLevel[c] => PrefetchesPass(c, p.addr)
         /\ Lower[c] \in Caches => <<p.addr, p.fl>> \in PqLevels[Lower[c]]
<1>1. PICK x \in Prefetches : Feeds(x.cache, c) /\ <<p.addr, p.fl>> = <<x.addr, x.fl>>
  BY DEF PqLevels
<1>2. p.addr = x.addr /\ p.fl = x.fl /\ x.cache \in Caches /\ x.fl \in {1, 2, 4}
  BY <1>1, InputAssumption
<1>3. p.fl < FillLevel[c] => PrefetchesPass(c, p.addr)
  BY <1>1, <1>2 DEF PrefetchesPass
<1>4. Lower[c] \in Caches => <<p.addr, p.fl>> \in PqLevels[Lower[c]]
  BY <1>1, <1>2, FeedsLower DEF PqLevels
<1> QED
  BY <1>2, <1>3, <1>4

\* Where nobody is above, or where prefetches of the block pass, any of its
\* ports leads back.
LEMMA AnyPort ==
  ASSUME NEW c, NEW p, p.port \in PortsFor(c, p.addr),
         ~HasUpper(c) \/ PrefetchesPass(c, p.addr)
  PROVE  Legit(c, p)
BY AnswerPortsFor DEF Legit

-----------------------------------------------------------------------------
(* MSHR files.                                                             *)

\* The updates that the handlers write with EXCEPT.
Allocated(m, c, e) == [m EXCEPT ![c] = @ \cup {e}]
Freed(m, c, e) == [m EXCEPT ![c] = @ \ {e}]

\* return_data ends the wait of cache u for block a.
LEMMA ReturnDataLinks ==
  ASSUME NEW m \in MshrType, NEW u \in Caches, NEW a
  PROVE  /\ EntriesOk(m) => EntriesOk(ReturnData(m, u, a))
         /\ Asking(ReturnData(m, u, a), a) = Asking(m, a)
         /\ Waiting(ReturnData(m, u, a), a) = Waiting(m, a) \ {u}
         /\ MshrElsewhere(m, ReturnData(m, u, a), a)
<1> DEFINE R(e) == IF e.addr = a THEN [e EXCEPT !.returned = TRUE] ELSE e
           n == ReturnData(m, u, a)
<1>1. \A e \in Entry : /\ R(e).addr = e.addr /\ R(e).fl = e.fl /\ R(e).port = e.port
                       /\ R(e).type = e.type
                       /\ e.addr = a => R(e).returned
                       /\ e.addr # a => R(e) = e
  BY DEF Entry
<1>2. \A c \in Caches : m[c] \subseteq Entry
  BY DEF MshrType
<1>3. \A c \in Caches : n[c] = IF c = u THEN {R(e) : e \in m[u]} ELSE m[c]
  BY DEF ReturnData, MshrType
<1> HIDE DEF R, n
<1>4. \A f \in n[u] : \E e \in m[u] : f = R(e)
  BY <1>3
<1>5. \A e \in m[u] : R(e) \in n[u]
  BY <1>3
<1>6. \A c \in Caches : c # u => n[c] = m[c]
  BY <1>3
<1>7. EntriesOk(m) => EntriesOk(n)
  <2>1. ASSUME EntriesOk(m), NEW c \in Caches, NEW f \in n[c] PROVE Legit(c, f)
    <3>1. CASE c = u
      <4>1. PICK e \in m[u] : f = R(e)
        BY <1>4, <3>1
      <4>2. f.addr = e.addr /\ f.port = e.port /\ f.fl = e.fl /\ f.type = e.type
        BY <1>1, <1>2, <4>1
      <4> QED
        BY <2>1, <3>1, <4>2 DEF EntriesOk, Legit
    <3>2. CASE c # u
      BY <1>6, <2>1, <3>2 DEF EntriesOk
    <3> QED
      BY <3>1, <3>2
  <2> QED
    BY <2>1 DEF EntriesOk
<1>8. ASSUME NEW b PROVE Asking(n, b) = Asking(m, b)
  <2>1. (\E f \in n[u] : f.addr = b /\ f.fl < FillLevel[u])
          <=> (\E e \in m[u] : e.addr = b /\ e.fl < FillLevel[u])
    BY <1>1, <1>2, <1>4, <1>5
  <2> QED
    BY <1>6, <2>1 DEF Asking
<1>9. u \notin Waiting(n, a)
  BY <1>1, <1>2, <1>4 DEF Waiting
<1>10. ASSUME NEW b, b # a PROVE u \in Waiting(n, b) <=> u \in Waiting(m, b)
  <2>1. (\E f \in n[u] : f.addr = b /\ ~f.returned)
          <=> (\E e \in m[u] : e.addr = b /\ ~e.returned)
    BY <1>1, <1>2, <1>4, <1>5, <1>10
  <2> QED
    BY <2>1 DEF Waiting
<1>11. \A c, b : c # u => (c \in Waiting(n, b) <=> c \in Waiting(m, b))
  BY <1>6 DEF Waiting
<1>12. Waiting(n, a) = Waiting(m, a) \ {u}
  BY <1>9, <1>11
<1>13. MshrElsewhere(m, n, a)
  BY <1>8, <1>10, <1>11 DEF MshrElsewhere
<1> QED
  BY <1>7, <1>8, <1>12, <1>13 DEF n

\* A new entry for a block: its cache asks and waits as the entry says.
LEMMA AllocateLinks ==
  ASSUME NEW m \in MshrType, NEW c \in Caches, NEW f, Legit(c, f)
  PROVE  LET n == Allocated(m, c, f) IN
         /\ EntriesOk(m) => EntriesOk(n)
         /\ Asking(n, f.addr) =
              IF f.fl < FillLevel[c] THEN Asking(m, f.addr) \cup {c} ELSE Asking(m, f.addr)
         /\ f.returned => Waiting(n, f.addr) = Waiting(m, f.addr)
         /\ ~f.returned => Waiting(n, f.addr) = Waiting(m, f.addr) \cup {c}
         /\ MshrElsewhere(m, n, f.addr)
<1> DEFINE n == Allocated(m, c, f)
<1>1. \A d \in Caches : n[d] = IF d = c THEN m[c] \cup {f} ELSE m[d]
  BY DEF MshrType, Allocated
<1> HIDE DEF n
<1>2. EntriesOk(m) => EntriesOk(n)
  BY <1>1 DEF EntriesOk, Legit
<1>3. Asking(n, f.addr) =
        IF f.fl < FillLevel[c] THEN Asking(m, f.addr) \cup {c} ELSE Asking(m, f.addr)
  BY <1>1 DEF Asking
<1>4. f.returned => Waiting(n, f.addr) = Waiting(m, f.addr)
  BY <1>1 DEF Waiting
<1>5. ~f.returned => Waiting(n, f.addr) = Waiting(m, f.addr) \cup {c}
  BY <1>1 DEF Waiting
<1>6. MshrElsewhere(m, n, f.addr)
  BY <1>1 DEF Asking, Waiting, MshrElsewhere
<1> QED
  BY <1>2, <1>3, <1>4, <1>5, <1>6 DEF n

\* The entry made from a packet asks what the packet asked.
LEMMA NewEntrySame ==
  ASSUME NEW p, NEW r, NEW c
  PROVE  /\ NewEntry(p, r).addr = p.addr /\ NewEntry(p, r).fl = p.fl
         /\ NewEntry(p, r).returned = r
         /\ Legit(c, p) => Legit(c, NewEntry(p, r))
BY DEF NewEntry, Legit

\* An entry that is freed.
LEMMA FreeLinks ==
  ASSUME NEW m \in MshrType, Unique(m), NEW c \in Caches, NEW e \in m[c]
  PROVE  LET n == Freed(m, c, e) IN
         /\ EntriesOk(m) => EntriesOk(n)
         /\ Asking(n, e.addr) = Asking(m, e.addr) \ {c}
         /\ Waiting(n, e.addr) = Waiting(m, e.addr) \ {c}
         /\ MshrElsewhere(m, n, e.addr)
<1> DEFINE n == Freed(m, c, e)
<1>1. \A d \in Caches : n[d] = IF d = c THEN m[c] \ {e} ELSE m[d]
  BY DEF MshrType, Freed
<1> HIDE DEF n
<1>2. \A f \in n[c] : f.addr # e.addr
  BY <1>1 DEF Unique
<1>3. EntriesOk(m) => EntriesOk(n)
  BY <1>1 DEF EntriesOk
<1>4. Asking(n, e.addr) = Asking(m, e.addr) \ {c}
  BY <1>1, <1>2 DEF Asking
<1>5. Waiting(n, e.addr) = Waiting(m, e.addr) \ {c}
  BY <1>1, <1>2 DEF Waiting
<1>6. MshrElsewhere(m, n, e.addr)
  BY <1>1 DEF Asking, Waiting, MshrElsewhere
<1> QED
  BY <1>3, <1>4, <1>5, <1>6 DEF n

\* A merge keeps what the entry waits for; it may change what it asks.
LEMMA ReplaceLinks ==
  ASSUME TypeOK, Unique(mshr), NEW c \in Caches, NEW e \in mshr[c], NEW f,
         f.addr = e.addr, f.returned = e.returned, Legit(c, f)
  PROVE  LET a == e.addr
             n == Replace(c, e, f) IN
         /\ EntriesOk(mshr) => EntriesOk(n)
         /\ Asking(n, a) = IF f.fl < FillLevel[c] THEN Asking(mshr, a) \cup {c}
                           ELSE Asking(mshr, a) \ {c}
         /\ Waiting(n, a) = Waiting(mshr, a)
         /\ MshrElsewhere(mshr, n, a)
<1> DEFINE n == Replace(c, e, f)
<1>1. \A d \in Caches : n[d] = IF d = c THEN (mshr[c] \ {e}) \cup {f} ELSE mshr[d]
  BY DEF Replace, TypeOK
<1> HIDE DEF n
<1>2. \A g \in n[c] : g.addr = e.addr => g = f
  BY <1>1 DEF Unique
<1>3. f \in n[c]
  BY <1>1
<1>4. EntriesOk(mshr) => EntriesOk(n)
  BY <1>1 DEF EntriesOk
<1>5. Asking(n, e.addr) = IF f.fl < FillLevel[c] THEN Asking(mshr, e.addr) \cup {c}
                          ELSE Asking(mshr, e.addr) \ {c}
  BY <1>1, <1>2, <1>3 DEF Asking
<1>6. Waiting(n, e.addr) = Waiting(mshr, e.addr)
  <2>1. c \in Waiting(mshr, e.addr) <=> ~e.returned
    BY DEF Waiting, Unique
  <2>2. c \in Waiting(n, e.addr) <=> ~f.returned
    BY <1>2, <1>3 DEF Waiting
  <2> QED
    BY <1>1, <2>1, <2>2 DEF Waiting
<1>7. MshrElsewhere(mshr, n, e.addr)
  BY <1>1 DEF Asking, Waiting, MshrElsewhere
<1> QED
  BY <1>4, <1>5, <1>6, <1>7 DEF n
-----------------------------------------------------------------------------
(* Queues.                                                                 *)

Appended(q, l, p) == [q EXCEPT ![l] = Append(@, p)]
Joined(q, l, p) == [q EXCEPT ![l] = JoinPrefetch(@, p)]

\* The packets left when the head of a queue is removed.
LEMMA TailElements ==
  ASSUME NEW s \in Seq(Packet), s # <<>>
  PROVE  /\ Head(s) = s[1] /\ 1 \in DOMAIN s
         /\ \A i \in DOMAIN Tail(s) : i + 1 \in DOMAIN s /\ Tail(s)[i] = s[i + 1]
         /\ \A i \in DOMAIN s : i # 1 =>
              \E j \in DOMAIN Tail(s) : Tail(s)[j] = s[i]
         /\ DOMAIN Tail(s) \subseteq Nat
<1>1. /\ Len(s) \in Nat /\ DOMAIN s = 1..Len(s) /\ Len(Tail(s)) = Len(s) - 1
      /\ DOMAIN Tail(s) = 1..Len(Tail(s))
      /\ \A i \in 1..Len(Tail(s)) : Tail(s)[i] = s[i + 1]
      /\ Head(s) = s[1] /\ 1 \in DOMAIN s
  BY HeadTailProperties, LenProperties
<1>2. \A i \in DOMAIN Tail(s) : i + 1 \in DOMAIN s /\ Tail(s)[i] = s[i + 1]
  BY <1>1
<1>3. ASSUME NEW i \in DOMAIN s, i # 1 PROVE \E j \in DOMAIN Tail(s) : Tail(s)[j] = s[i]
  <2>1. i - 1 \in DOMAIN Tail(s) /\ (i - 1) + 1 = i
    BY <1>1, <1>3
  <2> QED
    BY <1>2, <2>1
<1>4. DOMAIN Tail(s) \subseteq Nat
  BY <1>1
<1> QED
  BY <1>1, <1>2, <1>3, <1>4

\* The head of a queue is taken: its cache wants its block no more.
LEMMA PopLinks ==
  ASSUME NEW q \in QueueType, NEW Lv, QueuesOk(q, Lv), NEW c \in Caches, q[c] # <<>>
  PROVE  LET p == Head(q[c])
             n == Pop(q, c) IN
         /\ QueuesOk(n, Lv) /\ Legit(c, p) /\ <<p.addr, p.fl>> \in Lv[c]
         /\ c \in Wanted(q, p.addr) <=> p.fl < FillLevel[c]
         /\ Wanted(n, p.addr) = Wanted(q, p.addr) \ {c}
         /\ QueueElsewhere(q, n, p.addr)
<1> DEFINE s == q[c]
           t == Tail(q[c])
           p == Head(q[c])
           n == Pop(q, c)
<1>1. \A d \in Caches : n[d] = IF d = c THEN t ELSE q[d]
  BY DEF Pop, QueueType
<1>2. s \in Seq(Packet) /\ s # <<>> /\ s = q[c]
  BY DEF QueueType
<1>3. /\ p = s[1] /\ 1 \in DOMAIN s
      /\ \A i \in DOMAIN t : i + 1 \in DOMAIN s /\ t[i] = s[i + 1]
      /\ \A i \in DOMAIN s : i # 1 => \E j \in DOMAIN t : t[j] = s[i]
      /\ DOMAIN t \subseteq Nat
  BY <1>2, TailElements
<1>4. Distinct(s) /\ \A i \in DOMAIN s : Legit(c, s[i]) /\ <<s[i].addr, s[i].fl>> \in Lv[c]
  BY <1>2 DEF QueuesOk
<1> HIDE DEF s, t, p, n
<1>5. Legit(c, p) /\ <<p.addr, p.fl>> \in Lv[c]
  BY <1>3, <1>4
<1>6. \A i \in DOMAIN s : s[i].addr = p.addr => i = 1
  BY <1>3, <1>4 DEF Distinct
<1>7. \A i \in DOMAIN t : t[i].addr # p.addr
  <2>1. ASSUME NEW i \in DOMAIN t, t[i].addr = p.addr PROVE FALSE
    <3>1. i + 1 = 1 /\ i \in Nat
      BY <1>3, <1>6, <2>1
    <3>2. i + 1 \in DOMAIN s /\ i = 0
      BY <1>3, <2>1, <3>1
    <3>3. 0 \notin DOMAIN t
      BY <1>2, LenProperties, HeadTailProperties DEF s, t
    <3> QED
      BY <2>1, <3>2, <3>3
  <2> QED
    BY <2>1
<1>8. Distinct(t) /\ \A i \in DOMAIN t : Legit(c, t[i]) /\ <<t[i].addr, t[i].fl>> \in Lv[c]
  <2>1. ASSUME NEW i \in DOMAIN t, NEW j \in DOMAIN t, t[i].addr = t[j].addr PROVE i = j
    <3>1. i + 1 = j + 1
      BY <1>3, <1>4, <2>1 DEF Distinct
    <3>2. i \in Nat /\ j \in Nat
      BY <1>3, <2>1
    <3> QED
      BY <3>1, <3>2
  <2>2. \A i \in DOMAIN t : Legit(c, t[i]) /\ <<t[i].addr, t[i].fl>> \in Lv[c]
    BY <1>3, <1>4
  <2> QED
    BY <2>1, <2>2 DEF Distinct
<1>9. QueuesOk(n, Lv)
  BY <1>1, <1>8 DEF QueuesOk
<1>10. c \in Wanted(q, p.addr) <=> p.fl < FillLevel[c]
  <2>1. (\E i \in DOMAIN s : s[i].addr = p.addr /\ s[i].fl < FillLevel[c])
          <=> p.fl < FillLevel[c]
    BY <1>3, <1>6
  <2> QED
    BY <1>2, <2>1 DEF Wanted
<1>11. c \notin Wanted(n, p.addr)
  BY <1>1, <1>7 DEF Wanted
<1>12. ASSUME NEW b, b # p.addr PROVE c \in Wanted(n, b) <=> c \in Wanted(q, b)
  <2>1. (\E i \in DOMAIN t : t[i].addr = b /\ t[i].fl < FillLevel[c])
          <=> (\E i \in DOMAIN s : s[i].addr = b /\ s[i].fl < FillLevel[c])
    <3>1. ASSUME NEW i \in DOMAIN s, s[i].addr = b, s[i].fl < FillLevel[c]
          PROVE  \E j \in DOMAIN t : t[j].addr = b /\ t[j].fl < FillLevel[c]
      BY <1>3, <1>12, <3>1
    <3>2. ASSUME NEW i \in DOMAIN t, t[i].addr = b, t[i].fl < FillLevel[c]
          PROVE  \E j \in DOMAIN s : s[j].addr = b /\ s[j].fl < FillLevel[c]
      BY <1>3, <3>2
    <3> QED
      BY <3>1, <3>2
  <2> QED
    BY <1>1, <1>2, <2>1 DEF Wanted
<1>13. \A d, b : d # c => (d \in Wanted(n, b) <=> d \in Wanted(q, b))
  BY <1>1 DEF Wanted
<1>14. Wanted(n, p.addr) = Wanted(q, p.addr) \ {c}
  BY <1>11, <1>13
<1>15. ASSUME NEW b, b # p.addr PROVE Wanted(n, b) = Wanted(q, b)
  <2>1. \A d : d \in Wanted(n, b) <=> d \in Wanted(q, b)
    BY <1>12, <1>13, <1>15
  <2> QED
    BY <2>1
<1>16. QueueElsewhere(q, n, p.addr)
  BY <1>15 DEF QueueElsewhere
<1> QED
  BY <1>5, <1>9, <1>10, <1>14, <1>16 DEF p, n

\* A packet that finds no duplicate enters the queue of cache l.
LEMMA AppendLinks ==
  ASSUME NEW q \in QueueType, NEW Lv, QueuesOk(q, Lv), NEW l \in Caches, NEW p \in Packet,
         ~Queued(q[l], p.addr), Legit(l, p), <<p.addr, p.fl>> \in Lv[l]
  PROVE  LET n == Appended(q, l, p) IN
         /\ QueuesOk(n, Lv)
         /\ Wanted(n, p.addr) = IF p.fl < FillLevel[l] THEN Wanted(q, p.addr) \cup {l}
                                ELSE Wanted(q, p.addr)
         /\ QueueElsewhere(q, n, p.addr)
<1> DEFINE s == q[l]
           t == Append(s, p)
           n == Appended(q, l, p)
<1>1. \A d \in Caches : n[d] = IF d = l THEN t ELSE q[d]
  BY DEF QueueType, Appended
<1>2. s \in Seq(Packet) /\ s = q[l]
  BY DEF QueueType
<1>3. /\ t \in Seq(Packet) /\ Len(t) = Len(s) + 1 /\ Len(s) \in Nat
      /\ \A i \in 1..Len(s) : t[i] = s[i]
      /\ t[Len(s) + 1] = p
      /\ DOMAIN s = 1..Len(s)
  BY <1>2, AppendProperties, LenProperties
<1>4. DOMAIN t = 1..Len(s) + 1
  BY <1>3, LenProperties
<1> HIDE DEF s, t, n
<1>5. /\ \A i \in DOMAIN t : (i = Len(s) + 1 /\ t[i] = p) \/ (i \in DOMAIN s /\ t[i] = s[i])
      /\ \A i \in DOMAIN s : i \in DOMAIN t /\ t[i] = s[i]
      /\ \E i \in DOMAIN t : t[i] = p
  BY <1>3, <1>4
<1>6. \A i \in DOMAIN s : s[i].addr # p.addr
  BY <1>2 DEF Queued
<1>7. Distinct(s) /\ \A i \in DOMAIN s : Legit(l, s[i]) /\ <<s[i].addr, s[i].fl>> \in Lv[l]
  BY <1>2 DEF QueuesOk
<1>8. Distinct(t)
  BY <1>5, <1>6, <1>7 DEF Distinct
<1>9. \A i \in DOMAIN t : Legit(l, t[i]) /\ <<t[i].addr, t[i].fl>> \in Lv[l]
  BY <1>5, <1>7
<1>10. QueuesOk(n, Lv)
  BY <1>1, <1>8, <1>9 DEF QueuesOk
<1>11. Wanted(n, p.addr) = IF p.fl < FillLevel[l] THEN Wanted(q, p.addr) \cup {l}
                           ELSE Wanted(q, p.addr)
  <2>1. l \in Wanted(n, p.addr) <=> p.fl < FillLevel[l]
    BY <1>1, <1>5, <1>6 DEF Wanted
  <2>2. l \notin Wanted(q, p.addr)
    BY <1>2, <1>6 DEF Wanted
  <2>3. \A d : d # l => (d \in Wanted(n, p.addr) <=> d \in Wanted(q, p.addr))
    BY <1>1 DEF Wanted
  <2> QED
    BY <2>1, <2>2, <2>3
<1>12. ASSUME NEW b, b # p.addr PROVE Wanted(n, b) = Wanted(q, b)
  <2>1. l \in Wanted(n, b) <=> l \in Wanted(q, b)
    <3>1. (\E i \in DOMAIN t : t[i].addr = b /\ t[i].fl < FillLevel[l])
            <=> (\E i \in DOMAIN s : s[i].addr = b /\ s[i].fl < FillLevel[l])
      BY <1>5, <1>12
    <3> QED
      BY <1>1, <1>2, <3>1 DEF Wanted
  <2> QED
    BY <1>1, <2>1 DEF Wanted
<1>13. QueueElsewhere(q, n, p.addr)
  BY <1>12 DEF QueueElsewhere
<1> QED
  BY <1>10, <1>11, <1>13 DEF n

\* A duplicate read changes neither blocks, ports nor levels.
LEMMA JoinReadLinks ==
  ASSUME NEW q \in QueueType, NEW Lv, QueuesOk(q, Lv), NEW l \in Caches, NEW p
  PROVE  /\ QueuesOk(MergeRead(q, l, p), Lv)
         /\ \A b : Wanted(MergeRead(q, l, p), b) = Wanted(q, b)
<1> DEFINE n == MergeRead(q, l, p)
           s == q[l]
           t == JoinRead(q[l], p)
<1>1. \A d \in Caches : n[d] = IF d = l THEN t ELSE q[d]
  BY DEF MergeRead, QueueType
<1>2. s \in Seq(Packet) /\ s = q[l]
  BY DEF QueueType
<1>3. \A i \in DOMAIN s : s[i] \in Packet
  BY <1>2, ElementOfSeq, LenProperties
<1>4. /\ DOMAIN t = DOMAIN s
      /\ \A i \in DOMAIN s : /\ t[i].addr = s[i].addr /\ t[i].fl = s[i].fl
                             /\ t[i].port = s[i].port /\ t[i].type = s[i].type
  BY <1>3 DEF JoinRead, Packet
<1>5. Distinct(s) /\ \A i \in DOMAIN s : Legit(l, s[i]) /\ <<s[i].addr, s[i].fl>> \in Lv[l]
  BY <1>2 DEF QueuesOk
<1> HIDE DEF s, t, n
<1>6. Distinct(t) /\ \A i \in DOMAIN t : Legit(l, t[i]) /\ <<t[i].addr, t[i].fl>> \in Lv[l]
  BY <1>4, <1>5 DEF Distinct, Legit
<1>7. QueuesOk(n, Lv)
  BY <1>1, <1>6 DEF QueuesOk
<1>8. ASSUME NEW b PROVE Wanted(n, b) = Wanted(q, b)
  <2>1. (\E i \in DOMAIN t : t[i].addr = b /\ t[i].fl < FillLevel[l])
          <=> (\E i \in DOMAIN s : s[i].addr = b /\ s[i].fl < FillLevel[l])
    BY <1>4
  <2> QED
    BY <1>1, <1>2, <2>1 DEF Wanted
<1> QED
  BY <1>7, <1>8 DEF n

\* A duplicate prefetch lowers the fill level of the queued one: the cache
\* then wants what either wanted.
LEMMA JoinPrefetchLinks ==
  ASSUME NEW q \in QueueType, QueuesOk(q, PqLevels), NEW l \in Caches, NEW p \in Packet,
         Queued(q[l], p.addr), <<p.addr, p.fl>> \in PqLevels[l]
  PROVE  LET n == Joined(q, l, p) IN
         /\ QueuesOk(n, PqLevels)
         /\ Wanted(n, p.addr) = IF p.fl < FillLevel[l] THEN Wanted(q, p.addr) \cup {l}
                                ELSE Wanted(q, p.addr)
         /\ QueueElsewhere(q, n, p.addr)
<1> DEFINE n == Joined(q, l, p)
           s == q[l]
           t == JoinPrefetch(q[l], p)
<1>1. \A d \in Caches : n[d] = IF d = l THEN t ELSE q[d]
  BY DEF QueueType, Joined
<1>2. s \in Seq(Packet) /\ s = q[l]
  BY DEF QueueType
<1>3. \A i \in DOMAIN s : s[i] \in Packet
  BY <1>2, ElementOfSeq, LenProperties
<1>4. /\ DOMAIN t = DOMAIN s
      /\ \A i \in DOMAIN s : /\ t[i].addr = s[i].addr /\ t[i].port = s[i].port
                             /\ t[i].type = s[i].type
                             /\ t[i].fl = IF s[i].addr = p.addr THEN MinOf(p.fl, s[i].fl)
                                          ELSE s[i].fl
  BY <1>3 DEF JoinPrefetch, Packet
<1>5. /\ Distinct(s)
      /\ \A i \in DOMAIN s : Legit(l, s[i]) /\ <<s[i].addr, s[i].fl>> \in PqLevels[l]
  BY <1>2 DEF QueuesOk
<1>6. FillLevel[l] \in {1, 2, 4}
  BY HierarchyAssumption
<1> HIDE DEF s, t, n
<1>7. /\ p.fl \in {1, 2, 4} /\ (p.fl < FillLevel[l] => PrefetchesPass(l, p.addr))
       /\ \A i \in DOMAIN s : s[i].fl \in {1, 2, 4}
  BY <1>5, PqLevel
<1>8. \A x \in {1, 2, 4} : /\ MinOf(p.fl, x) \in {1, 2, 4}
                           /\ MinOf(p.fl, x) < FillLevel[l]
                                <=> p.fl < FillLevel[l] \/ x < FillLevel[l]
  BY <1>6, <1>7 DEF MinOf
<1>9. /\ Distinct(t)
      /\ \A i \in DOMAIN t : Legit(l, t[i]) /\ <<t[i].addr, t[i].fl>> \in PqLevels[l]
  <2>1. Distinct(t)
    BY <1>4, <1>5 DEF Distinct
  <2>2. ASSUME NEW i \in DOMAIN t
        PROVE  Legit(l, t[i]) /\ <<t[i].addr, t[i].fl>> \in PqLevels[l]
    <3>1. /\ Legit(l, s[i]) /\ t[i].addr = s[i].addr /\ t[i].port = s[i].port
          /\ t[i].type = s[i].type
      BY <1>4, <1>5
    <3>2. CASE t[i].fl = s[i].fl
      <4>1. Legit(l, t[i])
        BY <3>1, <3>2 DEF Legit
      <4> QED
        BY <1>4, <1>5, <3>1, <3>2, <4>1
    <3>3. CASE t[i].fl # s[i].fl
      <4>1. s[i].addr = p.addr /\ t[i].fl = p.fl
        BY <1>4, <3>3 DEF MinOf
      <4>2. Legit(l, t[i])
        <5>1. CASE p.fl < FillLevel[l]
          BY <1>7, <3>1, <4>1, <5>1, AnyPort DEF Legit
        <5>2. CASE ~(p.fl < FillLevel[l])
          BY <3>1, <4>1, <5>2 DEF Legit
        <5> QED
          BY <5>1, <5>2
      <4>3. <<t[i].addr, t[i].fl>> \in PqLevels[l]
        BY <3>1, <4>1
      <4> QED
        BY <4>2, <4>3
    <3> QED
      BY <3>2, <3>3
  <2> QED
    BY <2>1, <2>2
<1>10. QueuesOk(n, PqLevels)
  BY <1>1, <1>9 DEF QueuesOk
<1>11. Wanted(n, p.addr) = IF p.fl < FillLevel[l] THEN Wanted(q, p.addr) \cup {l}
                           ELSE Wanted(q, p.addr)
  <2>1. (\E i \in DOMAIN t : t[i].addr = p.addr /\ t[i].fl < FillLevel[l])
          <=> \/ p.fl < FillLevel[l]
              \/ \E i \in DOMAIN s : s[i].addr = p.addr /\ s[i].fl < FillLevel[l]
    <3>1. \A i \in DOMAIN s : s[i].addr = p.addr =>
            (t[i].fl < FillLevel[l] <=> p.fl < FillLevel[l] \/ s[i].fl < FillLevel[l])
      BY <1>4, <1>8, <1>7
    <3>2. PICK j \in DOMAIN s : s[j].addr = p.addr
      BY <1>2 DEF Queued
    <3> QED
      BY <1>4, <3>1, <3>2
  <2>2. l \in Wanted(n, p.addr) <=> p.fl < FillLevel[l] \/ l \in Wanted(q, p.addr)
    BY <1>1, <1>2, <2>1 DEF Wanted
  <2>3. \A d : d # l => (d \in Wanted(n, p.addr) <=> d \in Wanted(q, p.addr))
    BY <1>1 DEF Wanted
  <2> QED
    BY <2>2, <2>3
<1>12. ASSUME NEW b, b # p.addr PROVE Wanted(n, b) = Wanted(q, b)
  <2>1. (\E i \in DOMAIN t : t[i].addr = b /\ t[i].fl < FillLevel[l])
          <=> (\E i \in DOMAIN s : s[i].addr = b /\ s[i].fl < FillLevel[l])
    BY <1>4, <1>12
  <2> QED
    BY <1>1, <1>2, <2>1 DEF Wanted
<1>13. QueueElsewhere(q, n, p.addr)
  BY <1>12 DEF QueueElsewhere
<1> QED
  BY <1>10, <1>11, <1>13 DEF n
-----------------------------------------------------------------------------
(* Calls between caches.                                                   *)

LEMMA DramIsNoCache ==
  /\ Dram \notin Caches /\ NoLower \notin Caches /\ Dram # NoLower
  /\ \A c \in Caches : FillLevel[c] \in {1, 2, 4}
BY HierarchyAssumption

\* The "check fill level" block of a request that cache c holds: the level
\* above stops waiting when the request asked for it, nothing changes otherwise.
LEMMA AnswerLinks ==
  ASSUME NEW m \in MshrType, EntriesOk(m), NEW c \in Caches, NEW p, p.addr \in Addr,
         Legit(c, p), NEW R, NEW Q, NEW T, Linked(R, Q, T, Waiting(m, p.addr)),
         p.fl < FillLevel[c] => c \in R \cup Q \cup T
  PROVE  LET n == Answer(m, c, p)
             a == p.addr IN
         /\ EntriesOk(n)
         /\ Asking(n, a) = Asking(m, a) /\ MshrElsewhere(m, n, a)
         /\ p.fl < FillLevel[c] => Linked(R \ {c}, Q \ {c}, T \ {c}, Waiting(n, a))
         /\ ~(p.fl < FillLevel[c]) => n = m
         /\ DramWanted(Waiting(n, a)) <=> DramWanted(Waiting(m, a))
<1> DEFINE a == p.addr
           n == Answer(m, c, p)
<1>1. CASE p.fl < FillLevel[c]
  <2>1. PICK u \in Waiting(m, a) : Lower[u] = c
    BY <1>1 DEF Linked
  <2>2. u \in Near(a) /\ Waiting(m, a) \in SUBSET Near(a)
    BY <2>1, WaitingNear
  <2>3. Upper[c][p.port] = u
    BY <1>1, <2>1, <2>2, OwnerIs DEF Legit
  <2>4. n = ReturnData(m, u, a)
    BY <1>1, <2>3 DEF Answer
  <2>5. u \in Caches
    BY <2>2 DEF Near
  <2>6. /\ EntriesOk(n)
        /\ Asking(n, a) = Asking(m, a) /\ MshrElsewhere(m, n, a)
        /\ Waiting(n, a) = Waiting(m, a) \ {u}
    BY <2>4, <2>5, ReturnDataLinks
  <2>7. Linked(R \ {c}, Q \ {c}, T \ {c}, Waiting(n, a))
    BY <2>1, <2>2, <2>6, LinkedAnswer
  <2>8. DramWanted(Waiting(n, a)) <=> DramWanted(Waiting(m, a))
    BY <2>1, <2>6, DramIsNoCache DEF DramWanted
  <2> QED
    BY <1>1, <2>6, <2>7, <2>8
<1>2. CASE ~(p.fl < FillLevel[c])
  <2>1. n = m
    BY <1>2 DEF Answer
  <2> QED
    BY <1>2, <2>1 DEF MshrElsewhere
<1> QED
  BY <1>1, <1>2

\* A request of cache c that is answered at once by the level below, from its
\* write queue.
LEMMA AnswerAtOnce ==
  ASSUME NEW m \in MshrType, EntriesOk(m), NEW c \in Caches, Lower[c] \in Caches \cup {Dram},
         NEW p, Legit(c, p), NEW W, c \notin W, Waiting(m, p.addr) = W \cup {c}
  PROVE  LET n == ReturnData(m, Upper[Lower[c]][p.port], p.addr) IN
         /\ EntriesOk(n)
         /\ Asking(n, p.addr) = Asking(m, p.addr) /\ MshrElsewhere(m, n, p.addr)
         /\ Waiting(n, p.addr) = W
<1>1. Upper[Lower[c]][p.port] = c
  BY PortsBelow DEF Legit
<1> QED
  BY <1>1, ReturnDataLinks

\* A packet passed down carries a port that leads back.
LEMMA LegitBelow ==
  ASSUME NEW c \in Caches, NEW l \in Caches, Lower[c] = l, NEW p, p.port \in PortsFor(c, p.addr)
  PROVE  Legit(l, p)
BY PortsBelow, AnswerPortsFor DEF Legit

\* add_rq of the lower level for a miss of cache c, which W did not count among
\* the waiting caches.  A duplicate would be another request for c, and the
\* read queue has room: the request is answered or queued.
LEMMA SendRead ==
  ASSUME NEW m \in MshrType, EntriesOk(m), NEW q \in QueueType, QueuesOk(q, RqLevels),
         NEW c \in Caches, NEW l \in Caches, Lower[c] = l,
         NEW p \in Packet, Legit(c, p), p.fl \in {1, 2, 4}, p.fl <= FillLevel[c],
         NEW Q, NEW T, NEW W \in SUBSET Near(p.addr),
         Linked(Wanted(q, p.addr), Q, T, W), c \notin W, Waiting(m, p.addr) = W \cup {c},
         NEW word, AddRq(m, q, l, p, word), Len(q[l]) # RqSize[l]
  PROVE  /\ EntriesOk(mshr') /\ QueuesOk(rq', RqLevels)
         /\ Linked(Wanted(rq', p.addr), Q, T, Waiting(mshr', p.addr))
         /\ Asking(mshr', p.addr) = Asking(m, p.addr)
         /\ MshrElsewhere(m, mshr', p.addr) /\ QueueElsewhere(q, rq', p.addr)
         /\ DramWanted(Waiting(mshr', p.addr)) <=> DramWanted(W)
<1> DEFINE a == p.addr
<1>1. a \in Addr
  BY DEF Packet
<1>2. FillLevel[l] = 2 * FillLevel[c] /\ FillLevel[c] \in {1, 2, 4} /\ FillLevel[l] \in {1, 2, 4}
  BY RouteAssumption, DramIsNoCache
<1>3. p.fl < FillLevel[l]
  BY <1>2
<1>4. c \in Near(a)
  BY DEF Legit, Near
<1>5. /\ l \notin Wanted(q, a) \cup Q \cup T
      /\ Linked(Wanted(q, a) \cup {l}, Q, T, W \cup {c})
  BY <1>1, <1>4, NothingAsked, LinkedRead
<1>6. Lower[c] # Dram
  BY DramIsNoCache
<1>7. CASE WqMatch(l, a, word)
  <2>1. rq' = q /\ mshr' = ReturnData(m, Upper[Lower[c]][p.port], a)
    BY <1>3, <1>7 DEF AddRq, Answer
  <2>2. /\ EntriesOk(mshr')
        /\ Asking(mshr', a) = Asking(m, a) /\ MshrElsewhere(m, mshr', a)
        /\ Waiting(mshr', a) = W
    BY <2>1, AnswerAtOnce
  <2> QED
    BY <2>1, <2>2 DEF QueueElsewhere, DramElsewhere
<1>8. CASE ~WqMatch(l, a, word)
  <2>1. ~Queued(q[l], a)
    <3>1. ASSUME NEW i \in DOMAIN q[l], q[l][i].addr = a PROVE FALSE
      <4>1. <<q[l][i].addr, q[l][i].fl>> \in RqLevels[l] /\ HasUpper(l)
        BY <3>1 DEF QueuesOk, HasUpper
      <4>2. q[l][i].fl < FillLevel[l]
        BY <4>1, RqLevel
      <4>3. l \in Wanted(q, a)
        BY <3>1, <4>2 DEF Wanted
      <4> QED
        BY <1>5, <4>3
    <3> QED
      BY <3>1 DEF Queued
  <2>2. mshr' = m /\ rq' = Appended(q, l, p)
    BY <1>8, <2>1 DEF AddRq, Appended
  <2>3. Legit(l, p)
    BY LegitBelow DEF Legit
  <2>4. <<p.addr, p.fl>> \in RqLevels[l]
    BY <1>1, <1>2, <1>3 DEF RqLevels
  <2>5. /\ QueuesOk(rq', RqLevels)
        /\ Wanted(rq', a) = Wanted(q, a) \cup {l}
        /\ QueueElsewhere(q, rq', a)
    BY <1>3, <2>1, <2>2, <2>3, <2>4, AppendLinks
  <2>6. DramWanted(W \cup {c}) <=> DramWanted(W)
    BY <1>6 DEF DramWanted
  <2> QED
    BY <1>5, <2>2, <2>5, <2>6 DEF MshrElsewhere
<1> QED
  BY <1>7, <1>8

\* The copy of a packet sent to the next level asks for the same.
LEMMA DownSame ==
  ASSUME NEW p \in Packet, NEW c
  PROVE  /\ Down(p) \in Packet
         /\ Down(p).addr = p.addr /\ Down(p).fl = p.fl /\ Down(p).port = p.port
         /\ Down(p).type = p.type
         /\ Legit(c, p) => Legit(c, Down(p))
BY DEF Down, Packet, Legit

\* Cache c has a new entry for the read p, which W does not count yet, and calls
\* add_rq of the level below, which has room.
ReadAsked(m, q, c, l, p, Q, T, W) ==
  /\ m \in MshrType /\ EntriesOk(m) /\ q \in QueueType /\ QueuesOk(q, RqLevels)
  /\ c \in Caches /\ l \in Caches /\ Lower[c] = l
  /\ p \in Packet /\ Legit(c, p) /\ p.fl \in {1, 2, 4} /\ p.fl <= FillLevel[c]
  /\ W \in SUBSET Near(p.addr) /\ Linked(Wanted(q, p.addr), Q, T, W)
  /\ c \notin W /\ Waiting(m, p.addr) = W \cup {c}
  /\ Len(q[l]) # RqSize[l] /\ AddRq(m, q, l, Down(p), TRUE)

\* The same for the copy of packet p that a miss sends down.
LEMMA SendDown ==
  ASSUME NEW m, NEW q, NEW c, NEW l, NEW p, NEW Q, NEW T, NEW W,
         ReadAsked(m, q, c, l, p, Q, T, W)
  PROVE  /\ EntriesOk(mshr') /\ QueuesOk(rq', RqLevels)
         /\ Linked(Wanted(rq', p.addr), Q, T, Waiting(mshr', p.addr))
         /\ Asking(mshr', p.addr) = Asking(m, p.addr)
         /\ MshrElsewhere(m, mshr', p.addr) /\ QueueElsewhere(q, rq', p.addr)
         /\ DramWanted(Waiting(mshr', p.addr)) <=> DramWanted(W)
<1> DEFINE d == Down(p)
<1>1. /\ m \in MshrType /\ EntriesOk(m) /\ q \in QueueType /\ QueuesOk(q, RqLevels)
      /\ c \in Caches /\ l \in Caches /\ Lower[c] = l
      /\ p \in Packet /\ Legit(c, p) /\ p.fl \in {1, 2, 4} /\ p.fl <= FillLevel[c]
      /\ W \in SUBSET Near(p.addr) /\ Linked(Wanted(q, p.addr), Q, T, W)
      /\ c \notin W /\ Waiting(m, p.addr) = W \cup {c}
      /\ Len(q[l]) # RqSize[l] /\ AddRq(m, q, l, Down(p), TRUE)
  BY DEF ReadAsked
<1> USE <1>1
<1>2. /\ d \in Packet /\ Legit(c, d) /\ d.fl \in {1, 2, 4} /\ d.fl <= FillLevel[c]
      /\ d.addr = p.addr
  BY DownSame
<1>3. AddRq(m, q, l, d, TRUE)
  OBVIOUS
<1> HIDE DEF d
<1>4. /\ W \in SUBSET Near(d.addr) /\ Linked(Wanted(q, d.addr), Q, T, W)
      /\ Waiting(m, d.addr) = W \cup {c}
  BY <1>2
<1>5. EntriesOk(mshr') /\ QueuesOk(rq', RqLevels)
  BY <1>2, <1>3, <1>4, SendRead
<1>6. Linked(Wanted(rq', d.addr), Q, T, Waiting(mshr', d.addr))
  BY <1>2, <1>3, <1>4, SendRead
<1>7. MshrElsewhere(m, mshr', d.addr) /\ QueueElsewhere(q, rq', d.addr)
  BY <1>2, <1>3, <1>4, SendRead
<1>8. Asking(mshr', d.addr) = Asking(m, d.addr)
  BY <1>2, <1>3, <1>4, SendRead
<1>9. DramWanted(Waiting(mshr', d.addr)) <=> DramWanted(W)
  BY <1>2, <1>3, <1>4, SendRead
<1> QED
  BY <1>2, <1>5, <1>6, <1>7, <1>8, <1>9

\* The same for a prefetch p and add_pq.
PrefetchAsked(m, q, c, l, p, R, T, W, word) ==
  /\ m \in MshrType /\ EntriesOk(m) /\ q \in QueueType /\ QueuesOk(q, PqLevels)
  /\ c \in Caches /\ l \in Caches /\ Lower[c] = l
  /\ p \in Packet /\ Legit(c, p) /\ <<p.addr, p.fl>> \in PqLevels[c] /\ p.fl <= FillLevel[c]
  /\ W \in SUBSET Near(p.addr) /\ Linked(R, Wanted(q, p.addr), T, W)
  /\ c \notin W /\ Waiting(m, p.addr) = W \cup {c}
  /\ Len(q[l]) # PqSize[l] /\ AddPq(m, q, l, p, word)

\* add_pq of the lower level for a prefetch that cache c waits for.  A
\* duplicate is a prefetch of the lower level itself, which then takes over
\* the fill level, so that one request remains.
LEMMA SendPrefetch ==
  ASSUME NEW m, NEW q, NEW c, NEW l, NEW p, NEW R, NEW T, NEW W, NEW word,
         PrefetchAsked(m, q, c, l, p, R, T, W, word)
  PROVE  /\ EntriesOk(mshr') /\ QueuesOk(pq', PqLevels)
         /\ Linked(R, Wanted(pq', p.addr), T, Waiting(mshr', p.addr))
         /\ Asking(mshr', p.addr) = Asking(m, p.addr)
         /\ MshrElsewhere(m, mshr', p.addr) /\ QueueElsewhere(q, pq', p.addr)
         /\ DramWanted(Waiting(mshr', p.addr)) <=> DramWanted(W)
<1> DEFINE a == p.addr
<1>1. /\ m \in MshrType /\ EntriesOk(m) /\ q \in QueueType /\ QueuesOk(q, PqLevels)
      /\ c \in Caches /\ l \in Caches /\ Lower[c] = l
      /\ p \in Packet /\ Legit(c, p) /\ <<p.addr, p.fl>> \in PqLevels[c] /\ p.fl <= FillLevel[c]
      /\ W \in SUBSET Near(p.addr) /\ Linked(R, Wanted(q, p.addr), T, W)
      /\ c \notin W /\ Waiting(m, p.addr) = W \cup {c}
      /\ Len(q[l]) # PqSize[l] /\ AddPq(m, q, l, p, word)
  BY DEF PrefetchAsked
<1> USE <1>1
<1>2. a \in Addr
  BY DEF Packet
<1>3. FillLevel[l] = 2 * FillLevel[c] /\ FillLevel[c] \in {1, 2, 4} /\ FillLevel[l] \in {1, 2, 4}
  BY RouteAssumption, DramIsNoCache
<1>4. p.fl < FillLevel[l]
  BY <1>3, PqLevel
<1>5. c \in Near(a)
  BY DEF Legit, Near
<1>6. Linked(R, Wanted(q, a) \cup {l}, T, W \cup {c})
  BY <1>2, <1>5, LinkedPrefetch
<1>7. Lower[c] # Dram
  BY DramIsNoCache
<1>8. CASE WqMatch(l, a, word)
  <2>1. pq' = q /\ mshr' = ReturnData(m, Upper[Lower[c]][p.port], a)
    BY <1>4, <1>8 DEF AddPq, Answer
  <2>2. /\ EntriesOk(mshr')
        /\ Asking(mshr', a) = Asking(m, a) /\ MshrElsewhere(m, mshr', a)
        /\ Waiting(mshr', a) = W
    BY <2>1, AnswerAtOnce
  <2> QED
    BY <2>1, <2>2 DEF QueueElsewhere, DramElsewhere
<1>9. CASE ~WqMatch(l, a, word)
  <2>1. mshr' = m
    BY <1>9 DEF AddPq
  <2>2. Legit(l, p) /\ <<p.addr, p.fl>> \in PqLevels[l]
    BY LegitBelow, PqLevel DEF Legit
  <2>3. /\ QueuesOk(pq', PqLevels)
        /\ Wanted(pq', a) = Wanted(q, a) \cup {l}
        /\ QueueElsewhere(q, pq', a)
    <3>1. CASE Queued(q[l], a)
      <4>1. pq' = Joined(q, l, p)
        BY <1>9, <3>1 DEF AddPq, Joined
      <4> QED
        BY <1>4, <2>2, <3>1, <4>1, JoinPrefetchLinks
    <3>2. CASE ~Queued(q[l], a)
      <4>1. pq' = Appended(q, l, p)
        BY <1>9, <3>2 DEF AddPq, Appended
      <4> QED
        BY <1>4, <2>2, <3>2, <4>1, AppendLinks
    <3> QED
      BY <3>1, <3>2
  <2>4. DramWanted(W \cup {c}) <=> DramWanted(W)
    BY <1>7 DEF DramWanted
  <2> QED
    BY <1>6, <2>1, <2>3, <2>4 DEF MshrElsewhere
<1> QED
  BY <1>8, <1>9

\* A packet that no level above waits for only joins a queue or is dropped.
LEMMA SendQuietRead ==
  ASSUME NEW m \in MshrType, NEW q \in QueueType, QueuesOk(q, RqLevels), NEW l \in Caches,
         NEW p \in Packet, Legit(l, p), p.fl = FillLevel[l], ~HasUpper(l),
         NEW word, AddRq(m, q, l, p, word)
  PROVE  mshr' = m /\ QueuesOk(rq', RqLevels) /\ \A b : Wanted(rq', b) = Wanted(q, b)
<1>1. ~(p.fl < FillLevel[l]) /\ <<p.addr, p.fl>> \in RqLevels[l]
  BY DramIsNoCache DEF RqLevels, Packet
<1>2. mshr' = m
  BY <1>1 DEF AddRq, Answer
<1>3. CASE ~WqMatch(l, p.addr, word) /\ Queued(q[l], p.addr)
  <2>1. rq' = MergeRead(q, l, p)
    BY <1>3 DEF AddRq
  <2> QED
    BY <1>2, <2>1, JoinReadLinks
<1>4. CASE WqMatch(l, p.addr, word) \/ (~Queued(q[l], p.addr) /\ Len(q[l]) = RqSize[l])
  <2>1. rq' = q
    BY <1>4 DEF AddRq
  <2> QED
    BY <1>2, <2>1
<1>5. CASE ~WqMatch(l, p.addr, word) /\ ~Queued(q[l], p.addr) /\ Len(q[l]) # RqSize[l]
  <2>1. rq' = Appended(q, l, p)
    BY <1>5 DEF AddRq, Appended
  <2>2. /\ QueuesOk(rq', RqLevels)
        /\ Wanted(rq', p.addr) = IF p.fl < FillLevel[l] THEN Wanted(q, p.addr) \cup {l}
                                 ELSE Wanted(q, p.addr)
        /\ QueueElsewhere(q, rq', p.addr)
    BY <1>1, <1>5, <2>1, AppendLinks
  <2>3. \A b : Wanted(rq', b) = Wanted(q, b)
    BY <1>1, <2>2 DEF QueueElsewhere
  <2> QED
    BY <1>2, <2>2, <2>3
<1> QED
  BY <1>3, <1>4, <1>5

LEMMA SendQuietPrefetch ==
  ASSUME NEW m \in MshrType, NEW q \in QueueType, QueuesOk(q, PqLevels), NEW l \in Caches,
         NEW p \in Packet, Legit(l, p), <<p.addr, p.fl>> \in PqLevels[l], p.fl >= FillLevel[l],
         NEW word, AddPq(m, q, l, p, word)
  PROVE  mshr' = m /\ QueuesOk(pq', PqLevels) /\ \A b : Wanted(pq', b) = Wanted(q, b)
<1>1. ~(p.fl < FillLevel[l])
  BY DramIsNoCache, PqLevel
<1>2. mshr' = m
  BY <1>1 DEF AddPq, Answer
<1>3. CASE ~WqMatch(l, p.addr, word) /\ Queued(q[l], p.addr)
  <2>1. pq' = Joined(q, l, p)
    BY <1>3 DEF AddPq, Joined
  <2>2. /\ QueuesOk(pq', PqLevels)
        /\ Wanted(pq', p.addr) = IF p.fl < FillLevel[l] THEN Wanted(q, p.addr) \cup {l}
                                 ELSE Wanted(q, p.addr)
        /\ QueueElsewhere(q, pq', p.addr)
    BY <1>3, <2>1, JoinPrefetchLinks
  <2>3. \A b : Wanted(pq', b) = Wanted(q, b)
    BY <1>1, <2>2 DEF QueueElsewhere
  <2> QED
    BY <1>2, <2>2, <2>3
<1>4. CASE WqMatch(l, p.addr, word) \/ (~Queued(q[l], p.addr) /\ Len(q[l]) = PqSize[l])
  <2>1. pq' = q
    BY <1>4 DEF AddPq
  <2> QED
    BY <1>2, <2>1
<1>5. CASE ~WqMatch(l, p.addr, word) /\ ~Queued(q[l], p.addr) /\ Len(q[l]) # PqSize[l]
  <2>1. pq' = Appended(q, l, p)
    BY <1>5 DEF AddPq, Appended
  <2>2. /\ QueuesOk(pq', PqLevels)
        /\ Wanted(pq', p.addr) = IF p.fl < FillLevel[l] THEN Wanted(q, p.addr) \cup {l}
                                 ELSE Wanted(q, p.addr)
        /\ QueueElsewhere(q, pq', p.addr)
    BY <1>1, <1>5, <2>1, AppendLinks
  <2>3. \A b : Wanted(pq', b) = Wanted(q, b)
    BY <1>1, <2>2 DEF QueueElsewhere
  <2> QED
    BY <1>2, <2>2, <2>3
<1> QED
  BY <1>3, <1>4, <1>5

\* The same above DRAM.
DramAsked(m, c, p, R, Q, T, W) ==
  /\ m \in MshrType /\ EntriesOk(m) /\ DramOk(dramRq)
  /\ c \in Caches /\ Lower[c] = Dram /\ p \in Packet /\ Legit(c, p)
  /\ W \in SUBSET Near(p.addr) /\ R \cup Q \cup T \subseteq Caches /\ Linked(R, Q, T, W)
  /\ InFlight(dramRq, p.addr) <=> DramWanted(W)
  /\ c \notin W /\ Waiting(m, p.addr) = W \cup {c}
  /\ ~DramRqFull /\ DramAddRq(m, p)

\* MEMORY_CONTROLLER::add_rq for a miss of the LLC c, which W did not count.
LEMMA SendDram ==
  ASSUME NEW m, NEW c, NEW p, NEW R, NEW Q, NEW T, NEW W,
         DramAsked(m, c, p, R, Q, T, W)
  PROVE  /\ EntriesOk(mshr') /\ DramOk(dramRq')
         /\ Linked(R, Q, T, Waiting(mshr', p.addr))
         /\ InFlight(dramRq', p.addr) <=> DramWanted(Waiting(mshr', p.addr))
         /\ Asking(mshr', p.addr) = Asking(m, p.addr)
         /\ MshrElsewhere(m, mshr', p.addr) /\ DramElsewhere(dramRq, dramRq', p.addr)
<1> DEFINE a == p.addr
<1>1. /\ m \in MshrType /\ EntriesOk(m) /\ DramOk(dramRq)
      /\ c \in Caches /\ Lower[c] = Dram /\ p \in Packet /\ Legit(c, p)
      /\ W \in SUBSET Near(p.addr) /\ R \cup Q \cup T \subseteq Caches /\ Linked(R, Q, T, W)
      /\ InFlight(dramRq, p.addr) <=> DramWanted(W)
      /\ c \notin W /\ Waiting(m, p.addr) = W \cup {c}
      /\ ~DramRqFull /\ DramAddRq(m, p)
  BY DEF DramAsked
<1> USE <1>1
<1>2. Lower[c] \notin Caches
  BY DramIsNoCache
<1>3. ~InFlight(dramRq, a)
  BY RouteAssumption DEF Near, DramWanted
<1>4. CASE ~warm \/ a \in dramWq
  <2>1. dramRq' = dramRq /\ mshr' = ReturnData(m, Upper[Lower[c]][p.port], a)
    BY <1>4 DEF DramAddRq
  <2>2. /\ EntriesOk(mshr')
        /\ Asking(mshr', a) = Asking(m, a) /\ MshrElsewhere(m, mshr', a)
        /\ Waiting(mshr', a) = W
    BY <2>1, AnswerAtOnce
  <2> QED
    BY <2>1, <2>2 DEF QueueElsewhere, DramElsewhere
<1>5. CASE ~(~warm \/ a \in dramWq)
  <2>1. mshr' = m /\ dramRq' = dramRq \cup {Down(p)}
    BY <1>3, <1>5 DEF DramAddRq
  <2>2. Down(p).addr = a /\ Down(p).port = p.port
    BY DEF Down, Packet
  <2>3. DramOk(dramRq')
    BY <1>3, <2>1, <2>2 DEF DramOk, InFlight, Legit, Reaches
  <2>4. Linked(R, Q, T, W \cup {c})
    BY <1>2, LinkedOutside
  <2>5. /\ InFlight(dramRq', a)
        /\ DramElsewhere(dramRq, dramRq', a)
    BY <2>1, <2>2 DEF InFlight, DramElsewhere
  <2>6. DramWanted(W \cup {c})
    BY DEF DramWanted
  <2> QED
    BY <2>1, <2>3, <2>4, <2>5, <2>6 DEF MshrElsewhere
<1> QED
  BY <1>4, <1>5
-----------------------------------------------------------------------------
(* Room in the read queues.                                                *)

\* Numbering of the elements of a finite set.
LEMMA Numbering ==
  ASSUME NEW S, IsFiniteSet(S)
  PROVE  \E f : \A x \in S : /\ f[x] \in 1..Cardinality(S)
                             /\ \A y \in S : f[x] = f[y] => x = y
<1>1. /\ Cardinality(S) \in Nat /\ IsFiniteSet(1..Cardinality(S))
      /\ Cardinality(1..Cardinality(S)) = Cardinality(S)
  BY FS_CardinalityType, FS_Interval
<1>2. ExistsBijection(S, 1..Cardinality(S))
  BY <1>1, FS_SameCardinalityBij
<1>3. PICK f : f \in Bijection(S, 1..Cardinality(S))
  BY <1>2 DEF ExistsBijection
<1>4. f \in [S -> 1..Cardinality(S)]
  BY <1>3 DEF Bijection, Injection
<1>5. \A x, y \in S : f[x] = f[y] => x = y
  BY <1>3 DEF Bijection, Injection, IsInjective
<1> QED
  BY <1>4, <1>5

LEMMA FiniteMshrs ==
  ASSUME NEW l
  PROVE  IsFiniteSet(MshrsAbove(l))
<1> DEFINE U == {v \in Caches : Lower[v] = l}
           f == [u \in U |-> {u} \X (1..MshrSize[u])]
           S == {{u} \X (1..MshrSize[u]) : u \in U}
<1>1. IsFiniteSet(U)
  BY RouteAssumption, FS_Subset
<1>2. f \in Surjection(U, S)
  BY DEF Surjection
<1>3. IsFiniteSet(S)
  BY <1>1, <1>2, FS_Surjection
<1>4. ASSUME NEW u \in U PROVE IsFiniteSet({u} \X (1..MshrSize[u]))
  <2>1. MshrSize[u] \in Nat
    BY SizeAssumption
  <2>2. IsFiniteSet(1..MshrSize[u])
    BY <2>1, FS_Interval
  <2> DEFINE g == [i \in 1..MshrSize[u] |-> <<u, i>>]
  <2>3. g \in Surjection(1..MshrSize[u], {u} \X (1..MshrSize[u]))
    BY DEF Surjection
  <2> QED
    BY <2>2, <2>3, FS_Surjection
<1>5. IsFiniteSet(UNION S)
  BY <1>3, <1>4, FS_UNION
<1> QED
  BY <1>5 DEF MshrsAbove

\* The packets of a read queue below other caches belong to misses in their
\* MSHRs, no two of them to the same one: with a free MSHR above there is room.
LEMMA RoomBelow ==
  ASSUME TypeOK, Capacity, Ready, NEW c \in Caches, NEW l \in Caches, Lower[c] = l,
         ~MshrFull(c)
  PROVE  Len(rq[l]) < RqSize[l] /\ Len(rq[l]) # RqSize[l]
<1> DEFINE s == rq[l]
           K == MshrsAbove(l)
           n(u) == Cardinality(mshr[u])
<1>1. \A u \in Caches : /\ IsFiniteSet(mshr[u]) /\ n(u) \in Nat /\ MshrSize[u] \in Nat
                        /\ n(u) <= MshrSize[u]
  BY SizeAssumption, FS_CardinalityType DEF Capacity, MshrFits, Fits
<1>2. n(c) < MshrSize[c]
  BY <1>1 DEF MshrFull
<1>3. \A ui \in K : ui[1] \in Caches
  BY DEF MshrsAbove
<1>4. \A u \in Caches : \A i \in 1..MshrSize[u] : Lower[u] = l => <<u, i>> \in K
  BY DEF MshrsAbove
<1> HIDE DEF K, n
\* The entry that packet i of the queue answers.
<1>5. ASSUME NEW i \in DOMAIN s
      PROVE  \E u \in Caches : Lower[u] = l /\ \E e \in mshr[u] : e.addr = s[i].addr
  <2>1. <<s[i].addr, s[i].fl>> \in RqLevels[l] /\ HasUpper(l)
    BY DEF Ready, Shape, QueuesOk, HasUpper
  <2>2. s[i].fl < FillLevel[l]
    BY <2>1, RqLevel
  <2>3. l \in Wanted(rq, s[i].addr)
    BY <2>2 DEF Wanted
  <2>4. s[i].addr \in Addr
    <3>1. s \in Seq(Packet)
      BY DEF TypeOK
    <3>2. s[i] \in Packet
      BY <3>1, ElementOfSeq, LenProperties
    <3> QED
      BY <3>2 DEF Packet
  <2>5. \E u \in Waiting(mshr, s[i].addr) : Lower[u] = l
    BY <2>3, <2>4 DEF Ready, Links, LinksAt, Linked
  <2> QED
    BY <2>5 DEF Waiting
<1> DEFINE num == [u \in Caches |-> CHOOSE f : \A x \in mshr[u] :
                     f[x] \in 1..n(u) /\ \A y \in mshr[u] : f[x] = f[y] => x = y]
           up(i) == CHOOSE u \in Caches : Lower[u] = l /\ \E e \in mshr[u] : e.addr = s[i].addr
           ent(i) == CHOOSE e \in mshr[up(i)] : e.addr = s[i].addr
           g == [i \in DOMAIN s |-> <<up(i), num[up(i)][ent(i)]>>]
<1>6. ASSUME NEW u \in Caches
      PROVE  \A x \in mshr[u] : /\ num[u][x] \in 1..n(u)
                                /\ \A y \in mshr[u] : num[u][x] = num[u][y] => x = y
  <2>1. \E f : \A x \in mshr[u] : f[x] \in 1..n(u) /\ \A y \in mshr[u] : f[x] = f[y] => x = y
    BY <1>1, Numbering DEF n
  <2> QED
    BY <2>1
<1>7. ASSUME NEW i \in DOMAIN s
      PROVE  /\ up(i) \in Caches /\ Lower[up(i)] = l
             /\ ent(i) \in mshr[up(i)] /\ ent(i).addr = s[i].addr
  <2>1. /\ up(i) \in Caches /\ Lower[up(i)] = l
        /\ \E e \in mshr[up(i)] : e.addr = s[i].addr
    BY <1>5
  <2> HIDE DEF up
  <2> QED
    BY <2>1
<1> HIDE DEF num, up, ent
<1>8. ASSUME NEW i \in DOMAIN s PROVE g[i] \in K \ {<<c, MshrSize[c]>>}
  <2>1. num[up(i)][ent(i)] \in 1..n(up(i))
    BY <1>6, <1>7
  <2>2. num[up(i)][ent(i)] \in 1..MshrSize[up(i)]
    BY <1>1, <1>7, <2>1
  <2>3. <<up(i), num[up(i)][ent(i)]>> \in K
    BY <1>4, <1>7, <2>2
  <2>4. up(i) = c => num[up(i)][ent(i)] # MshrSize[c]
    BY <1>1, <1>2, <2>1
  <2> QED
    BY <2>3, <2>4
<1>9. ASSUME NEW i \in DOMAIN s, NEW j \in DOMAIN s, g[i] = g[j] PROVE i = j
  <2>1. up(i) = up(j) /\ num[up(i)][ent(i)] = num[up(j)][ent(j)]
    BY <1>9
  <2>2. num[up(i)][ent(i)] = num[up(i)][ent(j)] /\ ent(j) \in mshr[up(i)]
    BY <1>7, <2>1
  <2>3. ent(i) = ent(j)
    BY <1>6, <1>7, <2>2
  <2>4. s[i].addr = s[j].addr
    BY <1>7, <2>3
  <2> QED
    BY <2>4 DEF Ready, Shape, QueuesOk, Distinct
<1>10. IsFiniteSet(K) /\ Cardinality(K) <= RqSize[l]
  BY FiniteMshrs, RoomAssumption DEF K, HasUpper
<1>11. /\ IsFiniteSet(K \ {<<c, MshrSize[c]>>})
       /\ Cardinality(K \ {<<c, MshrSize[c]>>}) = Cardinality(K) - 1
  <2>1. MshrSize[c] \in 1..MshrSize[c]
    BY <1>1, <1>2
  <2>2. <<c, MshrSize[c]>> \in K
    BY <1>4, <2>1
  <2> QED
    BY <1>10, <2>2, FS_RemoveElement
<1>12. g \in Injection(DOMAIN s, K \ {<<c, MshrSize[c]>>})
  <2>1. g \in [DOMAIN s -> K \ {<<c, MshrSize[c]>>}]
    BY <1>8
  <2> HIDE DEF g
  <2> QED
    BY <1>9, <2>1 DEF Injection, IsInjective
<1>13. Cardinality(DOMAIN s) <= Cardinality(K) - 1
  BY <1>11, <1>12, FS_Injection
<1>14. Cardinality(DOMAIN s) = Len(s) /\ Len(s) \in Nat
  <2>1. s \in Seq(Packet)
    BY DEF TypeOK
  <2>2. DOMAIN s = 1..Len(s) /\ Len(s) \in Nat
    BY <2>1, LenProperties
  <2> QED
    BY <2>2, FS_Interval
<1>15. Cardinality(K) \in Nat /\ RqSize[l] \in Nat
  BY <1>10, FS_CardinalityType, SizeAssumption
<1>16. Len(s) < RqSize[l]
  BY <1>10, <1>13, <1>14, <1>15
<1> QED
  BY <1>14, <1>15, <1>16
-----------------------------------------------------------------------------
(* Steps.  A handler works on one block: what the other blocks ask and     *)
(* wait for stays, and the lemmas above say what becomes of the one.       *)

LEMMA OtherBlocks ==
  ASSUME Links(mshr, rq, pq, dramRq), NEW a, LinksAt(mshr', rq', pq', dramRq', a),
         QueueElsewhere(rq, rq', a), QueueElsewhere(pq, pq', a),
         MshrElsewhere(mshr, mshr', a), DramElsewhere(dramRq, dramRq', a)
  PROVE  Links(mshr', rq', pq', dramRq')
<1>1. ASSUME NEW b \in Addr, b # a PROVE LinksAt(mshr', rq', pq', dramRq', b)
  <2>1. LinksAt(mshr, rq, pq, dramRq, b)
    BY DEF Links
  <2> QED
    BY <1>1, <2>1 DEF LinksAt, QueueElsewhere, MshrElsewhere, DramElsewhere
<1> QED
  BY <1>1 DEF Links

\* A packet enters a write queue.
LEMMA AddWqWrites ==
  ASSUME NEW q \in QueueType, WritesOk(q), NEW l \in Caches, NEW p \in Packet,
         p.fl = FillLevel[l], Kind[l] = "L1D" => Legit(l, p), NEW word
  PROVE  WritesOk(AddWq(q, l, p, word))
<1> DEFINE s == q[l]
           t == Append(s, p)
           n == Appended(q, l, p)
<1>1. \A d \in Caches : n[d] = IF d = l THEN t ELSE q[d]
  BY DEF QueueType, Appended
<1>2. s \in Seq(Packet) /\ s = q[l]
  BY DEF QueueType
<1>3. \A i \in DOMAIN t : t[i] = p \/ (i \in DOMAIN s /\ t[i] = s[i])
  <2>1. /\ t \in Seq(Packet) /\ Len(t) = Len(s) + 1 /\ Len(s) \in Nat
        /\ \A i \in 1..Len(s) : t[i] = s[i]
        /\ t[Len(s) + 1] = p
        /\ DOMAIN s = 1..Len(s)
    BY <1>2, AppendProperties, LenProperties
  <2>2. DOMAIN t = 1..Len(s) + 1
    BY <2>1, LenProperties
  <2> QED
    BY <2>1, <2>2
<1> HIDE DEF s, t, n
<1>4. WritesOk(n)
  BY <1>1, <1>2, <1>3 DEF WritesOk
<1>5. AddWq(q, l, p, word) = q \/ AddWq(q, l, p, word) = n
  BY DEF AddWq, n, Appended
<1> QED
  BY <1>4, <1>5

\* The head of a write queue is a write to be filled at its cache.
LEMMA PopWrites ==
  ASSUME NEW q \in QueueType, WritesOk(q), NEW c \in Caches, q[c] # <<>>
  PROVE  /\ WritesOk(Pop(q, c)) /\ Head(q[c]).fl = FillLevel[c]
         /\ Kind[c] = "L1D" => Legit(c, Head(q[c]))
<1> DEFINE s == q[c]
           t == Tail(q[c])
           n == Pop(q, c)
<1>1. \A d \in Caches : n[d] = IF d = c THEN t ELSE q[d]
  BY DEF Pop, QueueType
<1>2. s \in Seq(Packet) /\ s # <<>> /\ s = q[c]
  BY DEF QueueType
<1>3. /\ Head(s) = s[1] /\ 1 \in DOMAIN s
      /\ \A i \in DOMAIN t : i + 1 \in DOMAIN s /\ t[i] = s[i + 1]
  BY <1>2, TailElements
<1>4. \A i \in DOMAIN s : s[i].fl = FillLevel[c] /\ (Kind[c] = "L1D" => Legit(c, s[i]))
  BY <1>2 DEF WritesOk
<1> HIDE DEF s, t, n
<1>5. \A i \in DOMAIN t : t[i].fl = FillLevel[c] /\ (Kind[c] = "L1D" => Legit(c, t[i]))
  BY <1>3, <1>4
<1>6. WritesOk(n)
  BY <1>1, <1>5 DEF WritesOk
<1> QED
  BY <1>2, <1>3, <1>4, <1>6 DEF n

\* A write-back is to be filled at the level below, which is not an L1D.
LEMMA EvictWrites ==
  ASSUME TypeOK, NEW c \in Caches, NEW w \in Ways(c), EvictOk(c, w),
         NEW q \in QueueType, WritesOk(q), NEW port \in Ports, Evict(c, w, q, port)
  PROVE  WritesOk(wq')
<1>1. CASE ~block[c][w].dirty \/ Lower[c] \in {NoLower, Dram}
  <2>1. wq' = q
    BY <1>1 DEF Evict
  <2> QED
    BY <2>1
<1>2. CASE block[c][w].dirty /\ Lower[c] \notin {NoLower, Dram}
  <2> DEFINE p == WritebackPacket(c, block[c][w].addr, port)
  <2>1. Lower[c] \in Caches
    BY <1>2, HierarchyAssumption
  <2>2. wq' = AddWq(q, Lower[c], p, TRUE)
    BY <1>2 DEF Evict
  <2>3. block[c][w].addr \in Addr
    <3>1. block[c] \in [Ways(c) -> Block]
      BY DEF TypeOK
    <3>2. block[c][w] \in Block /\ block[c][w] # EmptyBlock
      BY <1>2, <3>1 DEF EmptyBlock
    <3> QED
      BY <3>2 DEF Block
  <2>4. p \in Packet
    <3>1. 2 * FillLevel[c] \in Levels
      BY DramIsNoCache DEF Levels
    <3>2. <<port[1], FALSE>> \in Ports
      BY DEF Ports
    <3> QED
      BY <2>3, <3>1, <3>2 DEF WritebackPacket, Packet, Types
  <2>5. p.fl = FillLevel[Lower[c]]
    BY <2>1, RouteAssumption DEF WritebackPacket
  <2>6. Kind[Lower[c]] # "L1D"
    BY <2>1, WiringAssumption
  <2> HIDE DEF p
  <2> QED
    BY <2>1, <2>2, <2>4, <2>5, <2>6, AddWqWrites
<1> QED
  BY <1>1, <1>2

\* An entry that has returned is filled: its request is answered and gone.
LEMMA HandleFillReady ==
  ASSUME TypeOK, Unique(mshr), Ready, NEW c \in Caches, NEW a \in Addr, HandleFill(c, a)
  PROVE  Ready'
<1>1. PICK e \in mshr[c], w \in Victims(c) :
        /\ e.addr = a /\ e.returned /\ EvictOk(c, w) /\ Evict(c, w, wq, e.port)
        /\ mshr' = Answer(Freed(mshr, c, e), c, e)
        /\ rq' = rq /\ pq' = pq /\ dramRq' = dramRq
  BY DEF HandleFill, Fillable, Freed
<1> DEFINE m == Freed(mshr, c, e)
           R == Wanted(rq, a)
           Q == Wanted(pq, a)
           T == Asking(mshr, a)
           W == Waiting(mshr, a)
<1>2. mshr \in MshrType /\ wq \in QueueType
  BY DEF TypeOK, MshrType, QueueType
<1>3. e \in Entry /\ e.port \in Ports
  <2>1. e \in Entry
    BY <1>1, <1>2 DEF MshrType
  <2> QED
    BY <2>1 DEF Entry
<1>4. /\ QueuesOk(rq, RqLevels) /\ QueuesOk(pq, PqLevels) /\ WritesOk(wq)
      /\ EntriesOk(mshr) /\ DramOk(dramRq) /\ Links(mshr, rq, pq, dramRq)
  BY DEF Ready, Shape
<1>5. Linked(R, Q, T, W) /\ (InFlight(dramRq, a) <=> DramWanted(W))
  BY <1>4 DEF Links, LinksAt
<1>6. Legit(c, e)
  BY <1>1, <1>4 DEF EntriesOk
<1>7. m \in MshrType
  BY <1>2 DEF Freed, MshrType
<1>8. /\ EntriesOk(m)
      /\ Asking(m, a) = T \ {c} /\ Waiting(m, a) = W \ {c}
      /\ MshrElsewhere(mshr, m, a)
  BY <1>1, <1>2, <1>4, FreeLinks
<1>9. c \notin W
  BY <1>1 DEF Waiting, Unique
<1>10. c \in T <=> e.fl < FillLevel[c]
  BY <1>1 DEF Asking, Unique
<1> HIDE DEF m, R, Q, T, W
<1>11. Waiting(m, a) = W
  BY <1>8, <1>9
<1>12. /\ EntriesOk(mshr')
       /\ Asking(mshr', a) = Asking(m, a) /\ MshrElsewhere(m, mshr', a)
       /\ e.fl < FillLevel[c] => Linked(R \ {c}, Q \ {c}, T \ {c}, Waiting(mshr', a))
       /\ ~(e.fl < FillLevel[c]) => mshr' = m
       /\ DramWanted(Waiting(mshr', a)) <=> DramWanted(Waiting(m, a))
  <2> DEFINE n == Answer(m, c, e)
  <2>1. Linked(R, Q, T, Waiting(m, e.addr)) /\ e.addr \in Addr
    BY <1>1, <1>5, <1>11
  <2>2. e.fl < FillLevel[c] => c \in R \cup Q \cup T
    BY <1>10
  <2>3. /\ EntriesOk(n)
        /\ Asking(n, e.addr) = Asking(m, e.addr) /\ MshrElsewhere(m, n, e.addr)
        /\ e.fl < FillLevel[c] => Linked(R \ {c}, Q \ {c}, T \ {c}, Waiting(n, e.addr))
        /\ ~(e.fl < FillLevel[c]) => n = m
        /\ DramWanted(Waiting(n, e.addr)) <=> DramWanted(Waiting(m, e.addr))
    BY <1>6, <1>7, <1>8, <2>1, <2>2, AnswerLinks
  <2>4. mshr' = n
    BY <1>1 DEF m
  <2> HIDE DEF n
  <2> QED
    BY <1>1, <2>3, <2>4
<1>13. Linked(R, Q, T \ {c}, Waiting(mshr', a))
  <2>1. CASE e.fl < FillLevel[c]
    <3>1. R \ {c} = R /\ Q \ {c} = Q
      BY <1>5, <1>10, <2>1 DEF Linked
    <3> QED
      BY <1>12, <2>1, <3>1
  <2>2. CASE ~(e.fl < FillLevel[c])
    <3>1. T \ {c} = T /\ Waiting(mshr', a) = W
      BY <1>10, <1>11, <1>12, <2>2
    <3> QED
      BY <1>5, <3>1
  <2> QED
    BY <2>1, <2>2
<1>14. LinksAt(mshr', rq', pq', dramRq', a)
  <2>1. InFlight(dramRq, a) <=> DramWanted(Waiting(mshr', a))
    BY <1>5, <1>11, <1>12
  <2> QED
    BY <1>1, <1>8, <1>12, <1>13, <2>1 DEF LinksAt, R, Q
<1>15. Links(mshr', rq', pq', dramRq')
  <2>1. /\ QueueElsewhere(rq, rq', a) /\ QueueElsewhere(pq, pq', a)
        /\ DramElsewhere(dramRq, dramRq', a)
    BY <1>1 DEF QueueElsewhere, DramElsewhere
  <2>2. MshrElsewhere(mshr, mshr', a)
    BY <1>8, <1>12 DEF MshrElsewhere
  <2> QED
    BY <1>4, <1>14, <2>1, <2>2, OtherBlocks
<1>16. WritesOk(wq')
  <2>1. w \in Ways(c)
    BY <1>1 DEF Victims, InvalidWays
  <2> QED
    BY <1>1, <1>2, <1>3, <1>4, <2>1, EvictWrites
<1> QED
  BY <1>1, <1>4, <1>12, <1>15, <1>16 DEF Ready, Shape
\* A miss that finds no entry for its block allocates one that waits.
LEMMA MissLinks ==
  ASSUME TypeOK, Ready, NEW c \in Caches, NEW p \in Packet, Legit(c, p), ~InMshr(c, p.addr)
  PROVE  LET a == p.addr
             m == Allocated(mshr, c, NewEntry(p, FALSE)) IN
         /\ m \in MshrType /\ EntriesOk(m)
         /\ Asking(m, a) =
              IF p.fl < FillLevel[c] THEN Asking(mshr, a) \cup {c} ELSE Asking(mshr, a)
         /\ Waiting(m, a) = Waiting(mshr, a) \cup {c}
         /\ MshrElsewhere(mshr, m, a)
         /\ c \notin Waiting(mshr, a) /\ c \notin Asking(mshr, a)
         /\ Waiting(mshr, a) \in SUBSET Near(a)
<1> DEFINE m == Allocated(mshr, c, NewEntry(p, FALSE))
<1>1. mshr \in MshrType /\ EntriesOk(mshr)
  BY DEF TypeOK, MshrType, Ready, Shape
<1>2. m \in MshrType
  BY <1>1, AllocateType DEF Allocated
<1>3. /\ EntriesOk(m)
      /\ Asking(m, p.addr) =
           IF p.fl < FillLevel[c] THEN Asking(mshr, p.addr) \cup {c} ELSE Asking(mshr, p.addr)
      /\ Waiting(m, p.addr) = Waiting(mshr, p.addr) \cup {c}
      /\ MshrElsewhere(mshr, m, p.addr)
  <2> DEFINE f == NewEntry(p, FALSE)
  <2>1. f.addr = p.addr /\ f.fl = p.fl /\ ~f.returned /\ Legit(c, f)
    BY NewEntrySame
  <2> HIDE DEF f
  <2>2. /\ EntriesOk(Allocated(mshr, c, f))
        /\ Asking(Allocated(mshr, c, f), f.addr) =
             IF f.fl < FillLevel[c] THEN Asking(mshr, f.addr) \cup {c} ELSE Asking(mshr, f.addr)
        /\ Waiting(Allocated(mshr, c, f), f.addr) = Waiting(mshr, f.addr) \cup {c}
        /\ MshrElsewhere(mshr, Allocated(mshr, c, f), f.addr)
    BY <1>1, <2>1, AllocateLinks
  <2> QED
    BY <2>1, <2>2 DEF f
<1>4. c \notin Waiting(mshr, p.addr) /\ c \notin Asking(mshr, p.addr)
  BY DEF InMshr, InFlight, Waiting, Asking
<1> HIDE DEF m
<1>5. Waiting(mshr, p.addr) \in SUBSET Near(p.addr)
  BY <1>1, WaitingNear
<1> QED
  BY <1>2, <1>3, <1>4, <1>5 DEF m

\* Nobody waits for a write; only a store that misses the L1D sends a request.
LEMMA HandleWritebackReady ==
  ASSUME TypeOK, Unique(mshr), Capacity, Ready, NEW c \in Caches, HandleWriteback(c)
  PROVE  Ready'
<1> DEFINE p == Head(wq[c])
           a == p.addr
<1>1. /\ wq[c] # <<>> /\ pq' = pq
      /\ WriteHit(c, p) \/ RfoNewMiss(c, p) \/ RfoMerge(c, p) \/ WriteAllocate(c, p)
  BY DEF HandleWriteback
<1>2. mshr \in MshrType /\ wq \in QueueType /\ rq \in QueueType
  BY DEF TypeOK, MshrType, QueueType
<1>3. p \in Packet /\ p.addr \in Addr /\ p.port \in Ports /\ Pop(wq, c) \in QueueType
  <2>1. p \in Packet /\ Pop(wq, c) \in QueueType
    BY <1>1, <1>2, PopType DEF QueueType
  <2> QED
    BY <2>1 DEF Packet
<1>4. /\ QueuesOk(rq, RqLevels) /\ QueuesOk(pq, PqLevels) /\ WritesOk(wq)
      /\ EntriesOk(mshr) /\ DramOk(dramRq) /\ Links(mshr, rq, pq, dramRq)
  BY DEF Ready, Shape
<1>5. /\ WritesOk(Pop(wq, c)) /\ p.fl = FillLevel[c]
      /\ Kind[c] = "L1D" => Legit(c, p)
  BY <1>1, <1>2, <1>4, PopWrites
<1>6. ~(p.fl < FillLevel[c]) /\ FillLevel[c] \in {1, 2, 4}
  BY <1>5, DramIsNoCache
<1> HIDE DEF p
<1>7. CASE WriteHit(c, p)
  <2>1. mshr' = mshr /\ wq' = Pop(wq, c) /\ rq' = rq /\ dramRq' = dramRq
    BY <1>6, <1>7 DEF WriteHit, Answer, dramVars
  <2> QED
    BY <1>1, <1>4, <1>5, <2>1 DEF Ready, Shape
<1>8. CASE RfoNewMiss(c, p)
  <2> DEFINE m == Allocated(mshr, c, NewEntry(p, FALSE))
             l == Lower[c]
  <2>1. /\ Kind[c] = "L1D" /\ ~InMshr(c, p.addr) /\ ~MshrFull(c)
        /\ AddRq(m, rq, l, Down(p), TRUE) /\ wq' = Pop(wq, c) /\ dramRq' = dramRq
    BY <1>8 DEF RfoNewMiss, Allocated, dramVars
  <2>2. l \in Caches /\ Lower[c] = l
    BY <2>1, HierarchyAssumption
  <2>3. Legit(c, p)
    BY <1>5, <2>1
  <2>4. /\ m \in MshrType /\ EntriesOk(m)
        /\ Asking(m, p.addr) = Asking(mshr, p.addr)
        /\ Waiting(m, p.addr) = Waiting(mshr, p.addr) \cup {c}
        /\ MshrElsewhere(mshr, m, p.addr)
        /\ c \notin Waiting(mshr, p.addr)
        /\ Waiting(mshr, p.addr) \in SUBSET Near(p.addr)
    BY <1>3, <1>6, <2>1, <2>3, MissLinks
  <2>5. Len(rq[l]) # RqSize[l]
    BY <2>1, <2>2, RoomBelow
  <2>6. /\ Linked(Wanted(rq, p.addr), Wanted(pq, p.addr), Asking(mshr, p.addr), Waiting(mshr, p.addr))
        /\ InFlight(dramRq, p.addr) <=> DramWanted(Waiting(mshr, p.addr))
    BY <1>3, <1>4 DEF Links, LinksAt
  <2> HIDE DEF m, l
  <2>7. /\ EntriesOk(mshr') /\ QueuesOk(rq', RqLevels)
        /\ Linked(Wanted(rq', p.addr), Wanted(pq, p.addr), Asking(mshr, p.addr),
                  Waiting(mshr', p.addr))
        /\ Asking(mshr', p.addr) = Asking(m, p.addr)
        /\ MshrElsewhere(m, mshr', p.addr) /\ QueueElsewhere(rq, rq', p.addr)
        /\ DramWanted(Waiting(mshr', p.addr)) <=> DramWanted(Waiting(mshr, p.addr))
    <3> DEFINE T == Asking(mshr, p.addr)
               W == Waiting(mshr, p.addr)
    <3>1. p.fl \in {1, 2, 4} /\ p.fl <= FillLevel[c]
      BY <1>5, <1>6
    <3>2. /\ W \in SUBSET Near(p.addr) /\ c \notin W /\ Waiting(m, p.addr) = W \cup {c}
          /\ Linked(Wanted(rq, p.addr), Wanted(pq, p.addr), T, W)
      BY <2>4, <2>6
    <3>3. AddRq(m, rq, l, Down(p), TRUE)
      BY <2>1
    <3> HIDE DEF T, W
    <3>4. ReadAsked(m, rq, c, l, p, Wanted(pq, p.addr), T, W)
      BY <1>2, <1>3, <1>4, <2>2, <2>3, <2>4, <2>5, <3>1, <3>2, <3>3 DEF ReadAsked
    <3>5. /\ EntriesOk(mshr') /\ QueuesOk(rq', RqLevels)
          /\ Linked(Wanted(rq', p.addr), Wanted(pq, p.addr), T, Waiting(mshr', p.addr))
          /\ Asking(mshr', p.addr) = Asking(m, p.addr)
          /\ MshrElsewhere(m, mshr', p.addr) /\ QueueElsewhere(rq, rq', p.addr)
          /\ DramWanted(Waiting(mshr', p.addr)) <=> DramWanted(W)
      BY <3>4, SendDown
    <3> QED
      BY <3>5 DEF T, W
  <2>8. LinksAt(mshr', rq', pq', dramRq', p.addr)
    BY <1>1, <2>1, <2>4, <2>6, <2>7 DEF LinksAt
  <2>9. Links(mshr', rq', pq', dramRq')
    <3>1. /\ QueueElsewhere(pq, pq', p.addr) /\ DramElsewhere(dramRq, dramRq', p.addr)
          /\ MshrElsewhere(mshr, mshr', p.addr)
      BY <1>1, <2>1, <2>4, <2>7 DEF QueueElsewhere, DramElsewhere, MshrElsewhere
    <3> QED
      BY <1>4, <2>7, <2>8, <3>1, OtherBlocks
  <2> QED
    BY <1>1, <1>4, <1>5, <2>1, <2>7, <2>9 DEF Ready, Shape
<1>9. CASE RfoMerge(c, p)
  <2>1. PICK e \in mshr[c] :
          /\ e.addr = p.addr
          /\ mshr' = Replace(c, e, IF e.type = "PREFETCH" THEN NewEntry(p, e.returned)
                                   ELSE [e EXCEPT !.fl = MinOf(p.fl, @)])
    BY <1>9 DEF RfoMerge
  <2>2. Kind[c] = "L1D" /\ wq' = Pop(wq, c) /\ rq' = rq /\ dramRq' = dramRq
    BY <1>9 DEF RfoMerge, dramVars
  <2> DEFINE f == IF e.type = "PREFETCH" THEN NewEntry(p, e.returned)
                  ELSE [e EXCEPT !.fl = MinOf(p.fl, @)]
  <2>3. e \in Entry
    BY <1>2, <2>1 DEF MshrType
  \* No cache is above an L1D, so none of its entries is a request.
  <2>4. c \notin Asking(mshr, p.addr)
    <3>1. ASSUME NEW u \in Waiting(mshr, p.addr) PROVE Lower[u] # c
      BY <2>2, WiringAssumption DEF Waiting
    <3>2. Linked(Wanted(rq, p.addr), Wanted(pq, p.addr), Asking(mshr, p.addr),
                 Waiting(mshr, p.addr))
      BY <1>3, <1>4 DEF Links, LinksAt
    <3> QED
      BY <3>1, <3>2 DEF Linked
  <2>5. ~(e.fl < FillLevel[c]) /\ Legit(c, e)
    BY <1>4, <2>1, <2>4 DEF Asking, EntriesOk
  <2>6. ~HasUpper(c)
    BY <2>2, WiringAssumption DEF HasUpper
  <2>7. f.addr = e.addr /\ f.returned = e.returned /\ Legit(c, f) /\ ~(f.fl < FillLevel[c])
    <3>1. CASE e.type = "PREFETCH"
      BY <1>5, <1>6, <2>1, <2>2, <3>1 DEF NewEntry, Legit
    <3>2. CASE e.type # "PREFETCH"
      <4>1. f = [e EXCEPT !.fl = MinOf(p.fl, @)]
        BY <3>2
      <4>2. f.addr = e.addr /\ f.returned = e.returned /\ f.port = e.port
            /\ f.fl = MinOf(p.fl, e.fl)
        BY <2>3, <4>1 DEF Entry
      <4> QED
        BY <1>6, <2>1, <2>5, <2>6, <4>2, AnyPort DEF MinOf, Legit
    <3> QED
      BY <3>1, <3>2
  <2>8. mshr' = Replace(c, e, f)
    BY <2>1
  <2> HIDE DEF f
  <2>9. /\ EntriesOk(mshr')
        /\ Asking(mshr', e.addr) = Asking(mshr, e.addr) \ {c}
        /\ Waiting(mshr', e.addr) = Waiting(mshr, e.addr)
        /\ MshrElsewhere(mshr, mshr', e.addr)
    <3> DEFINE n == Replace(c, e, f)
    <3>1. /\ EntriesOk(n)
          /\ Asking(n, e.addr) = IF f.fl < FillLevel[c] THEN Asking(mshr, e.addr) \cup {c}
                                 ELSE Asking(mshr, e.addr) \ {c}
          /\ Waiting(n, e.addr) = Waiting(mshr, e.addr)
          /\ MshrElsewhere(mshr, n, e.addr)
      BY <1>4, <2>7, ReplaceLinks
    <3>2. mshr' = n
      BY <2>8
    <3> HIDE DEF n
    <3> QED
      BY <2>7, <3>1, <3>2
  <2>10. \A b : Asking(mshr', b) = Asking(mshr, b) /\ Waiting(mshr', b) = Waiting(mshr, b)
    BY <2>1, <2>4, <2>9 DEF MshrElsewhere
  <2>11. Links(mshr', rq', pq', dramRq')
    BY <1>1, <1>4, <2>2, <2>10 DEF Links, LinksAt
  <2> QED
    BY <1>1, <1>4, <1>5, <2>2, <2>9, <2>11 DEF Ready, Shape
<1>10. CASE WriteAllocate(c, p)
  <2>1. mshr' = mshr /\ rq' = rq /\ dramRq' = dramRq
    BY <1>6, <1>10 DEF WriteAllocate, Answer
  <2>2. PICK w \in Victims(c) : EvictOk(c, w) /\ Evict(c, w, Pop(wq, c), p.port)
    BY <1>10 DEF WriteAllocate
  <2>3. w \in Ways(c)
    BY <2>2 DEF Victims, InvalidWays
  <2>4. WritesOk(wq')
    BY <1>3, <1>5, <2>2, <2>3, EvictWrites
  <2> QED
    BY <1>1, <1>4, <2>1, <2>4 DEF Ready, Shape
<1> QED
  BY <1>1, <1>7, <1>8, <1>9, <1>10

-----------------------------------------------------------------------------
(* Reads.                                                                  *)

\* What is known of the read at the head of the queue of cache c, and of the
\* queues when it has left.
LEMMA PopRead ==
  ASSUME TypeOK, Ready, NEW c \in Caches, rq[c] # <<>>, NEW p, p = Head(rq[c]),
         NEW q, q = Pop(rq, c)
  PROVE  /\ p \in Packet /\ p.addr \in Addr /\ Legit(c, p)
         /\ p.fl \in {1, 2, 4} /\ p.fl <= FillLevel[c] /\ (HasUpper(c) => p.fl < FillLevel[c])
         /\ q \in QueueType /\ QueuesOk(q, RqLevels)
         /\ c \in Wanted(rq, p.addr) <=> p.fl < FillLevel[c]
         /\ Wanted(q, p.addr) = Wanted(rq, p.addr) \ {c}
         /\ QueueElsewhere(rq, q, p.addr)
         /\ \A l \in Caches : l # c => q[l] = rq[l]
<1>1. rq \in QueueType /\ QueuesOk(rq, RqLevels)
  BY DEF TypeOK, QueueType, Ready, Shape
<1>2. p \in Packet /\ q \in QueueType
  BY <1>1, PopType DEF QueueType
<1>3. p.addr \in Addr
  BY <1>2 DEF Packet
<1>4. /\ QueuesOk(q, RqLevels) /\ Legit(c, p) /\ <<p.addr, p.fl>> \in RqLevels[c]
      /\ c \in Wanted(rq, p.addr) <=> p.fl < FillLevel[c]
      /\ Wanted(q, p.addr) = Wanted(rq, p.addr) \ {c}
      /\ QueueElsewhere(rq, q, p.addr)
  BY <1>1, PopLinks
<1>5. p.fl \in {1, 2, 4} /\ p.fl <= FillLevel[c] /\ (HasUpper(c) => p.fl < FillLevel[c])
  BY <1>4, RqLevel
<1>6. \A l \in Caches : l # c => q[l] = rq[l]
  BY <1>1 DEF Pop, QueueType
<1> QED
  BY <1>2, <1>3, <1>4, <1>5, <1>6

\* Ready from the facts about the block that a handler worked on.
LEMMA ReadyFrom ==
  ASSUME Ready, NEW a, QueuesOk(rq', RqLevels), QueuesOk(pq', PqLevels), WritesOk(wq'),
         EntriesOk(mshr'), DramOk(dramRq'), LinksAt(mshr', rq', pq', dramRq', a),
         QueueElsewhere(rq, rq', a), QueueElsewhere(pq, pq', a),
         MshrElsewhere(mshr, mshr', a), DramElsewhere(dramRq, dramRq', a)
  PROVE  Ready'
<1>1. Links(mshr', rq', pq', dramRq')
  BY OtherBlocks DEF Ready
<1> QED
  BY <1>1 DEF Ready, Shape

LEMMA ReadHitReady ==
  ASSUME TypeOK, Ready, NEW c \in Caches, rq[c] # <<>>, NEW p, p = Head(rq[c]),
         ReadHit(c, p), wq' = wq, pq' = pq
  PROVE  Ready'
<1> DEFINE q == Pop(rq, c)
           a == p.addr
           R == Wanted(rq, a)
           Q == Wanted(pq, a)
           T == Asking(mshr, a)
<1>1. mshr' = Answer(mshr, c, p) /\ rq' = q /\ dramRq' = dramRq
  BY DEF ReadHit
<1>2. /\ a \in Addr /\ Legit(c, p) /\ QueuesOk(q, RqLevels)
      /\ c \in R <=> p.fl < FillLevel[c]
      /\ Wanted(q, a) = R \ {c} /\ QueueElsewhere(rq, q, a)
  BY PopRead
<1>3. /\ QueuesOk(pq, PqLevels) /\ WritesOk(wq) /\ EntriesOk(mshr) /\ DramOk(dramRq)
      /\ mshr \in MshrType
  BY DEF Ready, Shape, TypeOK, MshrType
<1>4. Linked(R, Q, T, Waiting(mshr, a)) /\ (InFlight(dramRq, a) <=> DramWanted(Waiting(mshr, a)))
  BY <1>2 DEF Ready, Links, LinksAt
<1> HIDE DEF q, R, Q, T
<1>5. /\ EntriesOk(mshr')
      /\ Asking(mshr', a) = Asking(mshr, a) /\ MshrElsewhere(mshr, mshr', a)
      /\ p.fl < FillLevel[c] => Linked(R \ {c}, Q \ {c}, T \ {c}, Waiting(mshr', a))
      /\ ~(p.fl < FillLevel[c]) => mshr' = mshr
      /\ DramWanted(Waiting(mshr', a)) <=> DramWanted(Waiting(mshr, a))
  <2> DEFINE n == Answer(mshr, c, p)
  <2>1. /\ EntriesOk(n)
        /\ Asking(n, p.addr) = Asking(mshr, p.addr) /\ MshrElsewhere(mshr, n, p.addr)
        /\ p.fl < FillLevel[c] => Linked(R \ {c}, Q \ {c}, T \ {c}, Waiting(n, p.addr))
        /\ ~(p.fl < FillLevel[c]) => n = mshr
        /\ DramWanted(Waiting(n, p.addr)) <=> DramWanted(Waiting(mshr, p.addr))
    BY <1>2, <1>3, <1>4, AnswerLinks
  <2>2. mshr' = n
    BY <1>1
  <2> HIDE DEF n
  <2> QED
    BY <2>1, <2>2
<1>6. Linked(R \ {c}, Q, T, Waiting(mshr', a))
  <2>1. CASE p.fl < FillLevel[c]
    <3>1. Q \ {c} = Q /\ T \ {c} = T
      BY <1>2, <1>4, <2>1 DEF Linked
    <3> QED
      BY <1>5, <2>1, <3>1
  <2>2. CASE ~(p.fl < FillLevel[c])
    <3>1. R \ {c} = R /\ mshr' = mshr
      BY <1>2, <1>5, <2>2
    <3> QED
      BY <1>4, <3>1
  <2> QED
    BY <2>1, <2>2
<1>7. LinksAt(mshr', rq', pq', dramRq', a)
  BY <1>1, <1>2, <1>4, <1>5, <1>6 DEF LinksAt, Q, T
<1>8. /\ QueueElsewhere(rq, rq', a) /\ QueueElsewhere(pq, pq', a)
      /\ DramElsewhere(dramRq, dramRq', a)
  BY <1>1, <1>2 DEF QueueElsewhere, DramElsewhere
<1> HIDE DEF a
<1> QED
  BY <1>1, <1>2, <1>3, <1>5, <1>7, <1>8, ReadyFrom

\* The read that misses becomes an entry: what it asked, the entry asks.
LEMMA ReadMoves ==
  ASSUME TypeOK, Ready, NEW c \in Caches, rq[c] # <<>>, NEW p, p = Head(rq[c]),
         c \notin Asking(mshr, p.addr)
  PROVE  LET a == p.addr IN
         /\ p.fl < FillLevel[c] =>
              Linked(Wanted(rq, a) \ {c}, Wanted(pq, a), Asking(mshr, a) \cup {c}, Waiting(mshr, a))
         /\ ~(p.fl < FillLevel[c]) =>
              Linked(Wanted(rq, a) \ {c}, Wanted(pq, a), Asking(mshr, a), Waiting(mshr, a))
<1>1. p.addr \in Addr /\ (c \in Wanted(rq, p.addr) <=> p.fl < FillLevel[c])
  BY PopRead
<1> DEFINE R == Wanted(rq, p.addr)
           Q == Wanted(pq, p.addr)
           T == Asking(mshr, p.addr)
           W == Waiting(mshr, p.addr)
<1>2. Linked(R, Q, T, W)
  BY <1>1 DEF Ready, Links, LinksAt
<1> HIDE DEF R, Q, T, W
<1>3. CASE p.fl < FillLevel[c]
  <2>1. Linked(R \ {c}, Q, T \cup {c}, W)
    BY <1>1, <1>2, <1>3, LinkedMove DEF R
  <2> QED
    BY <1>3, <2>1 DEF R, Q, T, W
<1>4. CASE ~(p.fl < FillLevel[c])
  <2>1. R \ {c} = R
    BY <1>1, <1>4 DEF R
  <2>2. Linked(R \ {c}, Q, T, W)
    BY <1>2, <2>1
  <2> QED
    BY <1>4, <2>2 DEF R, Q, T, W
<1> QED
  BY <1>3, <1>4

\* The miss asks the cache below, the DRAM controller, or, above neither, has
\* its translation at once.
LEMMA ReadMissReady ==
  ASSUME TypeOK, Capacity, Ready, NEW c \in Caches, rq[c] # <<>>, NEW p, p = Head(rq[c]),
         ReadNewMiss(c, p), wq' = wq, pq' = pq
  PROVE  Ready'
<1> DEFINE q == Pop(rq, c)
           a == p.addr
           Q == Wanted(pq, a)
           T == IF p.fl < FillLevel[c] THEN Asking(mshr, a) \cup {c} ELSE Asking(mshr, a)
           W == Waiting(mshr, a)
           m == Allocated(mshr, c, NewEntry(p, FALSE))
<1>1. /\ p \in Packet /\ a \in Addr /\ Legit(c, p)
      /\ p.fl \in {1, 2, 4} /\ p.fl <= FillLevel[c]
      /\ q \in QueueType /\ QueuesOk(q, RqLevels)
      /\ Wanted(q, a) = Wanted(rq, a) \ {c} /\ QueueElsewhere(rq, q, a)
      /\ \A l \in Caches : l # c => q[l] = rq[l]
  BY PopRead
<1>2. ~InMshr(c, a) /\ ~MshrFull(c)
  BY DEF ReadNewMiss
<1>3. /\ QueuesOk(pq, PqLevels) /\ WritesOk(wq) /\ EntriesOk(mshr) /\ DramOk(dramRq)
      /\ mshr \in MshrType
  BY DEF Ready, Shape, TypeOK, MshrType
<1>4. InFlight(dramRq, a) <=> DramWanted(W)
  BY <1>1 DEF Ready, Links, LinksAt
<1>5. /\ m \in MshrType /\ EntriesOk(m)
      /\ Asking(m, a) = T
      /\ Waiting(m, a) = W \cup {c}
      /\ MshrElsewhere(mshr, m, a)
      /\ c \notin W /\ c \notin Asking(mshr, a)
      /\ W \in SUBSET Near(a)
  BY <1>1, <1>2, MissLinks
<1>6. Linked(Wanted(q, a), Q, T, W)
  <2>1. /\ p.fl < FillLevel[c] => Linked(Wanted(rq, a) \ {c}, Q, Asking(mshr, a) \cup {c}, W)
        /\ ~(p.fl < FillLevel[c]) => Linked(Wanted(rq, a) \ {c}, Q, Asking(mshr, a), W)
    BY <1>5, ReadMoves
  <2> HIDE DEF q, Q, W
  <2> QED
    BY <1>1, <2>1
<1>7. Wanted(q, a) \cup Q \cup T \subseteq Caches
  BY DEF Wanted, Asking
<1> HIDE DEF q, a, Q, T, W, m
<1>8. CASE Lower[c] \in Caches
  <2> DEFINE l == Lower[c]
  <2>1. AddRq(m, q, l, Down(p), TRUE) /\ dramRq' = dramRq
    BY <1>8, DramIsNoCache DEF ReadNewMiss, m, q, Allocated
  <2>2. l \in Caches /\ Lower[c] = l /\ l # c
    BY <1>8, HierarchyAssumption
  <2> HIDE DEF l
  <2>3. Len(q[l]) # RqSize[l]
    BY <1>1, <1>2, <2>2, RoomBelow
  <2>4. /\ EntriesOk(mshr') /\ QueuesOk(rq', RqLevels)
        /\ Linked(Wanted(rq', p.addr), Q, T, Waiting(mshr', p.addr))
        /\ Asking(mshr', p.addr) = Asking(m, p.addr)
        /\ MshrElsewhere(m, mshr', p.addr) /\ QueueElsewhere(q, rq', p.addr)
        /\ DramWanted(Waiting(mshr', p.addr)) <=> DramWanted(W)
    <3>1. /\ W \in SUBSET Near(p.addr) /\ Linked(Wanted(q, p.addr), Q, T, W)
          /\ c \notin W /\ Waiting(m, p.addr) = W \cup {c}
          /\ m \in MshrType /\ EntriesOk(m)
      BY <1>5, <1>6 DEF a
    <3>2. /\ q \in QueueType /\ QueuesOk(q, RqLevels) /\ p \in Packet /\ Legit(c, p)
          /\ p.fl \in {1, 2, 4} /\ p.fl <= FillLevel[c]
      BY <1>1
    <3>3. AddRq(m, q, l, Down(p), TRUE)
      BY <2>1
    <3>4. ReadAsked(m, q, c, l, p, Q, T, W)
      BY <2>2, <2>3, <3>1, <3>2, <3>3 DEF ReadAsked
    <3> QED
      BY <3>4, SendDown
  <2>5. /\ EntriesOk(mshr') /\ QueuesOk(rq', RqLevels)
        /\ Linked(Wanted(rq', a), Q, T, Waiting(mshr', a))
        /\ Asking(mshr', a) = T
        /\ MshrElsewhere(m, mshr', a) /\ QueueElsewhere(q, rq', a)
        /\ DramWanted(Waiting(mshr', a)) <=> DramWanted(W)
    BY <1>5, <2>4 DEF a
  <2>6. LinksAt(mshr', rq', pq', dramRq', a)
    BY <1>4, <2>1, <2>5 DEF LinksAt, Q
  <2>7. /\ MshrElsewhere(mshr, mshr', a) /\ QueueElsewhere(rq, rq', a)
        /\ QueueElsewhere(pq, pq', a) /\ DramElsewhere(dramRq, dramRq', a)
    BY <1>1, <1>5, <2>1, <2>5 DEF MshrElsewhere, QueueElsewhere, DramElsewhere
  <2> QED
    BY <1>3, <2>1, <2>5, <2>6, <2>7, ReadyFrom
<1>9. CASE Lower[c] = Dram
  <2>1. DramAddRq(m, p) /\ ~DramRqFull /\ rq' = q
    BY <1>9, DramIsNoCache DEF ReadNewMiss, m, q, Allocated
  <2>2. /\ EntriesOk(mshr') /\ DramOk(dramRq')
        /\ Linked(Wanted(q, a), Q, T, Waiting(mshr', p.addr))
        /\ InFlight(dramRq', p.addr) <=> DramWanted(Waiting(mshr', p.addr))
        /\ Asking(mshr', p.addr) = Asking(m, p.addr)
        /\ MshrElsewhere(m, mshr', p.addr) /\ DramElsewhere(dramRq, dramRq', p.addr)
    <3>1. /\ W \in SUBSET Near(p.addr) /\ Waiting(m, p.addr) = W \cup {c}
          /\ InFlight(dramRq, p.addr) <=> DramWanted(W)
      BY <1>4, <1>5 DEF a
    <3>2. DramAsked(m, c, p, Wanted(q, a), Q, T, W)
      BY <1>1, <1>3, <1>5, <1>6, <1>7, <1>9, <2>1, <3>1 DEF DramAsked
    <3> QED
      BY <3>2, SendDram
  <2>3. /\ EntriesOk(mshr') /\ DramOk(dramRq')
        /\ Linked(Wanted(q, a), Q, T, Waiting(mshr', a))
        /\ InFlight(dramRq', a) <=> DramWanted(Waiting(mshr', a))
        /\ Asking(mshr', a) = T
        /\ MshrElsewhere(m, mshr', a) /\ DramElsewhere(dramRq, dramRq', a)
    BY <1>5, <2>2 DEF a
  <2>4. LinksAt(mshr', rq', pq', dramRq', a)
    BY <2>1, <2>3 DEF LinksAt, Q
  <2>5. /\ MshrElsewhere(mshr, mshr', a) /\ QueueElsewhere(rq, rq', a)
        /\ QueueElsewhere(pq, pq', a)
    BY <1>1, <1>5, <2>1, <2>3 DEF MshrElsewhere, QueueElsewhere
  <2> QED
    BY <1>1, <1>3, <2>1, <2>3, <2>4, <2>5, ReadyFrom
<1>10. CASE Lower[c] = NoLower
  <2> DEFINE f == NewEntry(p, TRUE)
  <2>1. mshr' = Allocated(mshr, c, f) /\ rq' = q /\ dramRq' = dramRq
    BY <1>10, DramIsNoCache DEF ReadNewMiss, q, Allocated
  <2>2. f.addr = a /\ f.fl = p.fl /\ f.returned /\ Legit(c, f)
    BY <1>1, NewEntrySame DEF a
  <2> HIDE DEF f
  <2>3. /\ EntriesOk(mshr')
        /\ Asking(mshr', f.addr) =
             IF f.fl < FillLevel[c] THEN Asking(mshr, f.addr) \cup {c} ELSE Asking(mshr, f.addr)
        /\ Waiting(mshr', f.addr) = Waiting(mshr, f.addr)
        /\ MshrElsewhere(mshr, mshr', f.addr)
    <3> DEFINE n == Allocated(mshr, c, f)
    <3>1. /\ EntriesOk(n)
          /\ Asking(n, f.addr) =
               IF f.fl < FillLevel[c] THEN Asking(mshr, f.addr) \cup {c} ELSE Asking(mshr, f.addr)
          /\ Waiting(n, f.addr) = Waiting(mshr, f.addr)
          /\ MshrElsewhere(mshr, n, f.addr)
      BY <1>3, <2>2, AllocateLinks
    <3>2. mshr' = n
      BY <2>1
    <3> HIDE DEF n
    <3> QED
      BY <3>1, <3>2
  <2>4. /\ EntriesOk(mshr') /\ Asking(mshr', a) = T /\ Waiting(mshr', a) = W
        /\ MshrElsewhere(mshr, mshr', a)
    BY <2>2, <2>3 DEF T, W
  <2>5. LinksAt(mshr', rq', pq', dramRq', a)
    BY <1>4, <1>6, <2>1, <2>4 DEF LinksAt, Q
  <2>6. /\ QueueElsewhere(rq, rq', a) /\ QueueElsewhere(pq, pq', a)
        /\ DramElsewhere(dramRq, dramRq', a)
    BY <1>1, <2>1 DEF QueueElsewhere, DramElsewhere
  <2> QED
    BY <1>1, <1>3, <2>1, <2>4, <2>5, <2>6, ReadyFrom
<1> QED
  BY <1>8, <1>9, <1>10, HierarchyAssumption

\* A cache that no cache is above is asked for nothing.
LEMMA TopAsksNothing ==
  ASSUME NEW R, NEW Q, NEW T, NEW m, NEW a, Linked(R, Q, T, Waiting(m, a)), NEW c,
         ~HasUpper(c)
  PROVE  c \notin R \cup Q \cup T
BY DEF Linked, HasUpper, Waiting

\* The read joins an entry in flight, which then asks if either did.
LEMMA ReadMergeReady ==
  ASSUME TypeOK, Unique(mshr), Ready, NEW c \in Caches, rq[c] # <<>>, NEW p, p = Head(rq[c]),
         ReadMerge(c, p), wq' = wq, pq' = pq
  PROVE  Ready'
<1> DEFINE q == Pop(rq, c)
           a == p.addr
           R == Wanted(rq, a)
           Q == Wanted(pq, a)
           T == Asking(mshr, a)
           W == Waiting(mshr, a)
<1>1. /\ a \in Addr /\ Legit(c, p) /\ QueuesOk(q, RqLevels)
      /\ p.fl \in {1, 2, 4} /\ (HasUpper(c) => p.fl < FillLevel[c])
      /\ c \in R <=> p.fl < FillLevel[c]
      /\ Wanted(q, a) = R \ {c} /\ QueueElsewhere(rq, q, a)
  BY PopRead
<1>2. PICK e \in mshr[c] : e.addr = a /\ mshr' = Replace(c, e, MergeDemand(e, p))
  BY DEF ReadMerge
<1>3. rq' = q /\ dramRq' = dramRq
  BY DEF ReadMerge
<1>4. /\ QueuesOk(pq, PqLevels) /\ WritesOk(wq) /\ EntriesOk(mshr) /\ DramOk(dramRq)
      /\ mshr \in MshrType
  BY DEF Ready, Shape, TypeOK, MshrType
<1>5. Linked(R, Q, T, W) /\ (InFlight(dramRq, a) <=> DramWanted(W))
  BY <1>1 DEF Ready, Links, LinksAt
<1>6. e \in Entry /\ Legit(c, e) /\ (c \in T <=> e.fl < FillLevel[c])
  <2>1. e \in Entry
    BY <1>2, <1>4 DEF MshrType
  <2>2. Legit(c, e)
    BY <1>4 DEF EntriesOk
  <2>3. c \in T <=> e.fl < FillLevel[c]
    BY <1>2 DEF Asking, Unique
  <2> QED
    BY <2>1, <2>2, <2>3
<1> DEFINE f == MergeDemand(e, p)
<1>7. /\ f.addr = e.addr /\ f.returned = e.returned /\ Legit(c, f)
      /\ f.fl < FillLevel[c] => p.fl < FillLevel[c] \/ e.fl < FillLevel[c]
      /\ p.fl < FillLevel[c] => f.fl < FillLevel[c]
  <2>1. CASE e.type = "PREFETCH"
    <3>1. f = NewEntry(p, e.returned)
      BY <2>1 DEF MergeDemand
    <3> QED
      BY <1>1, <1>2, <3>1, NewEntrySame
  <2>2. CASE e.type # "PREFETCH"
    <3>1. /\ f.addr = e.addr /\ f.returned = e.returned /\ f.port = e.port
          /\ f.type = e.type /\ f.fl = MinOf(p.fl, e.fl)
      BY <1>6, <2>2 DEF MergeDemand, Entry
    <3>2. Legit(c, f)
      BY <1>6, <2>2, <3>1 DEF Legit
    <3>3. e.fl \in {1, 2, 4, 8} /\ FillLevel[c] \in {1, 2, 4}
      BY <1>6, DramIsNoCache DEF Entry, Levels
    <3>4. /\ MinOf(p.fl, e.fl) < FillLevel[c] => p.fl < FillLevel[c] \/ e.fl < FillLevel[c]
          /\ p.fl < FillLevel[c] => MinOf(p.fl, e.fl) < FillLevel[c]
      BY <1>1, <3>3 DEF MinOf
    <3> QED
      BY <3>1, <3>2, <3>4
  <2> QED
    BY <2>1, <2>2
<1>8. /\ EntriesOk(mshr')
      /\ Asking(mshr', a) = IF f.fl < FillLevel[c] THEN T \cup {c} ELSE T \ {c}
      /\ Waiting(mshr', a) = W
      /\ MshrElsewhere(mshr, mshr', a)
  <2>1. mshr' = Replace(c, e, f) /\ e.addr = a
    BY <1>2
  <2> DEFINE n == Replace(c, e, f)
  <2> HIDE DEF f
  <2>2. /\ EntriesOk(n)
        /\ Asking(n, e.addr) = IF f.fl < FillLevel[c] THEN Asking(mshr, e.addr) \cup {c}
                               ELSE Asking(mshr, e.addr) \ {c}
        /\ Waiting(n, e.addr) = Waiting(mshr, e.addr)
        /\ MshrElsewhere(mshr, n, e.addr)
    BY <1>4, <1>7, ReplaceLinks
  <2>3. mshr' = n
    BY <2>1
  <2> HIDE DEF n
  <2> QED
    BY <2>1, <2>2, <2>3
<1> HIDE DEF q, R, Q, T, W, f
<1>9. Linked(R \ {c}, Q, Asking(mshr', a), W)
  <2>1. CASE p.fl < FillLevel[c]
    <3>1. c \in R /\ Asking(mshr', a) = T \cup {c}
      BY <1>1, <1>7, <1>8, <2>1
    <3>2. Linked(R \ {c}, Q, T \cup {c}, W)
      BY <1>5, <3>1, LinkedMove
    <3> QED
      BY <3>1, <3>2
  <2>2. CASE ~(p.fl < FillLevel[c])
    <3>1. c \notin R \cup Q \cup T
      BY <1>1, <1>5, <2>2, TopAsksNothing DEF W
    <3>2. ~(f.fl < FillLevel[c])
      BY <1>6, <1>7, <2>2, <3>1
    <3>3. R \ {c} = R /\ Asking(mshr', a) = T
      BY <1>8, <3>1, <3>2
    <3> QED
      BY <1>5, <3>3
  <2> QED
    BY <2>1, <2>2
<1>10. LinksAt(mshr', rq', pq', dramRq', a)
  BY <1>1, <1>3, <1>5, <1>8, <1>9 DEF LinksAt, Q
<1>11. /\ QueueElsewhere(rq, rq', a) /\ QueueElsewhere(pq, pq', a)
       /\ DramElsewhere(dramRq, dramRq', a)
  BY <1>1, <1>3 DEF QueueElsewhere, DramElsewhere
<1> HIDE DEF a
<1> QED
  BY <1>1, <1>3, <1>4, <1>8, <1>10, <1>11, ReadyFrom

LEMMA HandleReadReady ==
  ASSUME TypeOK, Unique(mshr), Capacity, Ready, NEW c \in Caches, HandleRead(c)
  PROVE  Ready'
<1> DEFINE p == Head(rq[c])
<1>1. /\ rq[c] # <<>> /\ wq' = wq /\ pq' = pq
      /\ ReadHit(c, p) \/ ReadNewMiss(c, p) \/ ReadMerge(c, p)
  BY DEF HandleRead
<1> QED
  BY <1>1, ReadHitReady, ReadMissReady, ReadMergeReady

-----------------------------------------------------------------------------
(* Prefetches.                                                             *)

LEMMA PopPrefetch ==
  ASSUME TypeOK, Ready, NEW c \in Caches, pq[c] # <<>>, NEW p, p = Head(pq[c]),
         NEW q, q = Pop(pq, c)
  PROVE  /\ p \in Packet /\ p.addr \in Addr /\ Legit(c, p)
         /\ <<p.addr, p.fl>> \in PqLevels[c] /\ p.fl \in {1, 2, 4}
         /\ q \in QueueType /\ QueuesOk(q, PqLevels)
         /\ c \in Wanted(pq, p.addr) <=> p.fl < FillLevel[c]
         /\ Wanted(q, p.addr) = Wanted(pq, p.addr) \ {c}
         /\ QueueElsewhere(pq, q, p.addr)
         /\ \A l \in Caches : l # c => q[l] = pq[l]
<1>1. pq \in QueueType /\ QueuesOk(pq, PqLevels)
  BY DEF TypeOK, QueueType, Ready, Shape
<1>2. p \in Packet /\ q \in QueueType
  BY <1>1, PopType DEF QueueType
<1>3. p.addr \in Addr
  BY <1>2 DEF Packet
<1>4. /\ QueuesOk(q, PqLevels) /\ Legit(c, p) /\ <<p.addr, p.fl>> \in PqLevels[c]
      /\ c \in Wanted(pq, p.addr) <=> p.fl < FillLevel[c]
      /\ Wanted(q, p.addr) = Wanted(pq, p.addr) \ {c}
      /\ QueueElsewhere(pq, q, p.addr)
  BY <1>1, PopLinks
<1>5. p.fl \in {1, 2, 4}
  BY <1>4, PqLevel
<1>6. \A l \in Caches : l # c => q[l] = pq[l]
  BY <1>1 DEF Pop, QueueType
<1> QED
  BY <1>2, <1>3, <1>4, <1>5, <1>6

LEMMA PrefetchHitReady ==
  ASSUME TypeOK, Ready, NEW c \in Caches, pq[c] # <<>>, NEW p, p = Head(pq[c]),
         PrefetchHit(c, p), wq' = wq, rq' = rq
  PROVE  Ready'
<1> DEFINE q == Pop(pq, c)
           a == p.addr
           R == Wanted(rq, a)
           Q == Wanted(pq, a)
           T == Asking(mshr, a)
<1>1. mshr' = Answer(mshr, c, p) /\ pq' = q /\ dramRq' = dramRq
  BY DEF PrefetchHit
<1>2. /\ a \in Addr /\ Legit(c, p) /\ QueuesOk(q, PqLevels)
      /\ c \in Q <=> p.fl < FillLevel[c]
      /\ Wanted(q, a) = Q \ {c} /\ QueueElsewhere(pq, q, a)
  BY PopPrefetch
<1>3. /\ QueuesOk(rq, RqLevels) /\ WritesOk(wq) /\ EntriesOk(mshr) /\ DramOk(dramRq)
      /\ mshr \in MshrType
  BY DEF Ready, Shape, TypeOK, MshrType
<1>4. Linked(R, Q, T, Waiting(mshr, a)) /\ (InFlight(dramRq, a) <=> DramWanted(Waiting(mshr, a)))
  BY <1>2 DEF Ready, Links, LinksAt
<1> HIDE DEF q, R, Q, T
<1>5. /\ EntriesOk(mshr')
      /\ Asking(mshr', a) = Asking(mshr, a) /\ MshrElsewhere(mshr, mshr', a)
      /\ p.fl < FillLevel[c] => Linked(R \ {c}, Q \ {c}, T \ {c}, Waiting(mshr', a))
      /\ ~(p.fl < FillLevel[c]) => mshr' = mshr
      /\ DramWanted(Waiting(mshr', a)) <=> DramWanted(Waiting(mshr, a))
  <2> DEFINE n == Answer(mshr, c, p)
  <2>1. /\ EntriesOk(n)
        /\ Asking(n, p.addr) = Asking(mshr, p.addr) /\ MshrElsewhere(mshr, n, p.addr)
        /\ p.fl < FillLevel[c] => Linked(R \ {c}, Q \ {c}, T \ {c}, Waiting(n, p.addr))
        /\ ~(p.fl < FillLevel[c]) => n = mshr
        /\ DramWanted(Waiting(n, p.addr)) <=> DramWanted(Waiting(mshr, p.addr))
    BY <1>2, <1>3, <1>4, AnswerLinks
  <2>2. mshr' = n
    BY <1>1
  <2> HIDE DEF n
  <2> QED
    BY <2>1, <2>2
<1>6. Linked(R, Q \ {c}, T, Waiting(mshr', a))
  <2>1. CASE p.fl < FillLevel[c]
    <3>1. R \ {c} = R /\ T \ {c} = T
      BY <1>2, <1>4, <2>1 DEF Linked
    <3> QED
      BY <1>5, <2>1, <3>1
  <2>2. CASE ~(p.fl < FillLevel[c])
    <3>1. Q \ {c} = Q /\ mshr' = mshr
      BY <1>2, <1>5, <2>2
    <3> QED
      BY <1>4, <3>1
  <2> QED
    BY <2>1, <2>2
<1>7. LinksAt(mshr', rq', pq', dramRq', a)
  BY <1>1, <1>2, <1>4, <1>5, <1>6 DEF LinksAt, R, T
<1>8. /\ QueueElsewhere(rq, rq', a) /\ QueueElsewhere(pq, pq', a)
      /\ DramElsewhere(dramRq, dramRq', a)
  BY <1>1, <1>2 DEF QueueElsewhere, DramElsewhere
<1> HIDE DEF a
<1> QED
  BY <1>1, <1>2, <1>3, <1>5, <1>7, <1>8, ReadyFrom

\* The prefetch that misses becomes an entry: what it asked, the entry asks.
LEMMA PrefetchMoves ==
  ASSUME TypeOK, Ready, NEW c \in Caches, pq[c] # <<>>, NEW p, p = Head(pq[c]),
         c \notin Asking(mshr, p.addr)
  PROVE  LET a == p.addr IN
         /\ p.fl < FillLevel[c] =>
              Linked(Wanted(rq, a), Wanted(pq, a) \ {c}, Asking(mshr, a) \cup {c}, Waiting(mshr, a))
         /\ ~(p.fl < FillLevel[c]) =>
              Linked(Wanted(rq, a), Wanted(pq, a) \ {c}, Asking(mshr, a), Waiting(mshr, a))
<1>1. p.addr \in Addr /\ (c \in Wanted(pq, p.addr) <=> p.fl < FillLevel[c])
  BY PopPrefetch
<1> DEFINE R == Wanted(rq, p.addr)
           Q == Wanted(pq, p.addr)
           T == Asking(mshr, p.addr)
           W == Waiting(mshr, p.addr)
<1>2. Linked(R, Q, T, W)
  BY <1>1 DEF Ready, Links, LinksAt
<1> HIDE DEF R, Q, T, W
<1>3. CASE p.fl < FillLevel[c]
  <2>1. Linked(R, Q \ {c}, T \cup {c}, W)
    BY <1>1, <1>2, <1>3, LinkedMove DEF Q
  <2> QED
    BY <1>3, <2>1 DEF R, Q, T, W
<1>4. CASE ~(p.fl < FillLevel[c])
  <2>1. Q \ {c} = Q
    BY <1>1, <1>4 DEF Q
  <2>2. Linked(R, Q \ {c}, T, W)
    BY <1>2, <2>1
  <2> QED
    BY <1>4, <2>2 DEF R, Q, T, W
<1> QED
  BY <1>3, <1>4

\* A prefetch to be filled at this level or above takes an entry and asks on;
\* one to be filled below is handed down.
LEMMA PrefetchMissReady ==
  ASSUME TypeOK, Ready, NEW c \in Caches, pq[c] # <<>>, NEW p, p = Head(pq[c]),
         PrefetchNewMiss(c, p), wq' = wq, rq' = rq
  PROVE  Ready'
<1> DEFINE q == Pop(pq, c)
           a == p.addr
           R == Wanted(rq, a)
           W == Waiting(mshr, a)
<1>1. /\ p \in Packet /\ a \in Addr /\ Legit(c, p) /\ p.fl \in {1, 2, 4}
      /\ <<p.addr, p.fl>> \in PqLevels[c]
      /\ q \in QueueType /\ QueuesOk(q, PqLevels)
      /\ c \in Wanted(pq, a) <=> p.fl < FillLevel[c]
      /\ Wanted(q, a) = Wanted(pq, a) \ {c} /\ QueueElsewhere(pq, q, a)
      /\ \A l \in Caches : l # c => q[l] = pq[l]
  BY PopPrefetch
<1>2. ~InMshr(c, a)
  BY DEF PrefetchNewMiss
<1>3. /\ QueuesOk(rq, RqLevels) /\ WritesOk(wq) /\ EntriesOk(mshr) /\ DramOk(dramRq)
      /\ mshr \in MshrType
  BY DEF Ready, Shape, TypeOK, MshrType
<1>4. InFlight(dramRq, a) <=> DramWanted(W)
  BY <1>1 DEF Ready, Links, LinksAt
<1>5. FillLevel[c] \in {1, 2, 4} /\ (Lower[c] = Dram => FillLevel[c] = 4)
  BY RouteAssumption, DramIsNoCache
<1>6. \/ Lower[c] \in Caches /\ Len(pq[Lower[c]]) # PqSize[Lower[c]]
      \/ Lower[c] = Dram /\ ~DramRqFull
  BY DEF PrefetchNewMiss
<1>7. CASE TakesMshr(c, p)
  <2> DEFINE T == IF p.fl < FillLevel[c] THEN Asking(mshr, a) \cup {c} ELSE Asking(mshr, a)
             m == Allocated(mshr, c, NewEntry(p, FALSE))
  <2>1. /\ m \in MshrType /\ EntriesOk(m)
        /\ Asking(m, a) = T
        /\ Waiting(m, a) = W \cup {c}
        /\ MshrElsewhere(mshr, m, a)
        /\ c \notin W /\ c \notin Asking(mshr, a)
        /\ W \in SUBSET Near(a)
    BY <1>1, <1>2, MissLinks
  <2>2. Linked(R, Wanted(q, a), T, W)
    <3>1. /\ p.fl < FillLevel[c] => Linked(R, Wanted(pq, a) \ {c}, Asking(mshr, a) \cup {c}, W)
          /\ ~(p.fl < FillLevel[c]) => Linked(R, Wanted(pq, a) \ {c}, Asking(mshr, a), W)
      BY <2>1, PrefetchMoves
    <3> HIDE DEF q, R, W
    <3> QED
      BY <1>1, <3>1
  <2>3. R \cup Wanted(q, a) \cup T \subseteq Caches
    BY DEF Wanted, Asking
  <2>4. p.fl <= FillLevel[c]
    BY <1>7 DEF TakesMshr
  <2>5. \/ Lower[c] \in Caches /\ AddPq(m, q, Lower[c], p, TRUE) /\ dramRq' = dramRq
        \/ Lower[c] = Dram /\ DramAddRq(m, p) /\ pq' = q
    BY <1>7 DEF PrefetchNewMiss, Allocated
  <2> HIDE DEF q, a, R, T, W, m
  <2>6. /\ W \in SUBSET Near(p.addr) /\ Linked(R, Wanted(q, p.addr), T, W)
        /\ c \notin W /\ Waiting(m, p.addr) = W \cup {c}
        /\ m \in MshrType /\ EntriesOk(m)
        /\ InFlight(dramRq, p.addr) <=> DramWanted(W)
    BY <1>4, <2>1, <2>2 DEF a
  <2>7. /\ q \in QueueType /\ QueuesOk(q, PqLevels) /\ p \in Packet /\ Legit(c, p)
        /\ <<p.addr, p.fl>> \in PqLevels[c] /\ p.fl <= FillLevel[c]
    BY <1>1, <2>4 DEF a
  <2>8. CASE Lower[c] \in Caches
    <3> DEFINE l == Lower[c]
    <3>1. l \in Caches /\ Lower[c] = l /\ l # c /\ Len(pq[l]) # PqSize[l]
      BY <1>6, <2>8, HierarchyAssumption
    <3>2. AddPq(m, q, l, p, TRUE) /\ dramRq' = dramRq
      BY <2>5, <2>8, DramIsNoCache
    <3>3. Len(q[l]) # PqSize[l]
      BY <1>1, <3>1
    <3> HIDE DEF l
    <3>4. PrefetchAsked(m, q, c, l, p, R, T, W, TRUE)
      BY <2>6, <2>7, <3>1, <3>2, <3>3 DEF PrefetchAsked
    <3>5. /\ EntriesOk(mshr') /\ QueuesOk(pq', PqLevels)
          /\ Linked(R, Wanted(pq', p.addr), T, Waiting(mshr', p.addr))
      BY <3>4, SendPrefetch
    <3>6. Asking(mshr', p.addr) = Asking(m, p.addr)
      BY <3>4, SendPrefetch
    <3>7. MshrElsewhere(m, mshr', p.addr) /\ QueueElsewhere(q, pq', p.addr)
      BY <3>4, SendPrefetch
    <3>8. DramWanted(Waiting(mshr', p.addr)) <=> DramWanted(W)
      BY <3>4, SendPrefetch
    <3>9. LinksAt(mshr', rq', pq', dramRq', a)
      BY <1>4, <2>1, <3>2, <3>5, <3>6, <3>8 DEF LinksAt, R, a
    <3>10. /\ MshrElsewhere(mshr, mshr', a) /\ QueueElsewhere(rq, rq', a)
           /\ QueueElsewhere(pq, pq', a) /\ DramElsewhere(dramRq, dramRq', a)
      BY <1>1, <2>1, <3>2, <3>7 DEF MshrElsewhere, QueueElsewhere, DramElsewhere, a
    <3> QED
      BY <1>3, <3>2, <3>5, <3>9, <3>10, ReadyFrom
  <2>9. CASE Lower[c] = Dram
    <3>1. DramAddRq(m, p) /\ ~DramRqFull /\ pq' = q
      BY <1>6, <2>5, <2>9, DramIsNoCache
    <3>2. DramAsked(m, c, p, R, Wanted(q, a), T, W)
      BY <1>3, <2>3, <2>6, <2>7, <2>9, <3>1 DEF DramAsked, a
    <3>3. /\ EntriesOk(mshr') /\ DramOk(dramRq')
          /\ Linked(R, Wanted(q, a), T, Waiting(mshr', p.addr))
      BY <3>2, SendDram
    <3>4. InFlight(dramRq', p.addr) <=> DramWanted(Waiting(mshr', p.addr))
      BY <3>2, SendDram
    <3>5. Asking(mshr', p.addr) = Asking(m, p.addr)
      BY <3>2, SendDram
    <3>6. MshrElsewhere(m, mshr', p.addr) /\ DramElsewhere(dramRq, dramRq', p.addr)
      BY <3>2, SendDram
    <3>7. LinksAt(mshr', rq', pq', dramRq', a)
      BY <2>1, <3>1, <3>3, <3>4, <3>5 DEF LinksAt, R, a
    <3>8. /\ MshrElsewhere(mshr, mshr', a) /\ QueueElsewhere(rq, rq', a)
          /\ QueueElsewhere(pq, pq', a) /\ DramElsewhere(dramRq, dramRq', a)
      BY <1>1, <2>1, <3>1, <3>6 DEF MshrElsewhere, QueueElsewhere, a
    <3> QED
      BY <1>1, <1>3, <3>1, <3>3, <3>7, <3>8, ReadyFrom
  <2> QED
    BY <1>6, <2>8, <2>9
<1>8. CASE ~TakesMshr(c, p)
  <2>1. ~(p.fl <= FillLevel[c])
    BY <1>8 DEF TakesMshr
  <2>2. Lower[c] # Dram
    BY <1>1, <1>5, <2>1
  <2> DEFINE l == Lower[c]
  <2>3. /\ l \in Caches /\ Lower[c] = l
        /\ AddPq(mshr, q, l, p, TRUE) /\ dramRq' = dramRq
    BY <1>8, <2>2 DEF PrefetchNewMiss
  <2>4. FillLevel[l] = 2 * FillLevel[c]
    BY <2>3, RouteAssumption
  <2> HIDE DEF l, q
  <2>5. p.fl >= FillLevel[l]
    BY <1>1, <1>5, <2>1, <2>4
  <2>6. Legit(l, p) /\ <<p.addr, p.fl>> \in PqLevels[l]
    BY <1>1, <2>3, LegitBelow, PqLevel DEF Legit
  <2>7. mshr' = mshr /\ QueuesOk(pq', PqLevels) /\ \A b : Wanted(pq', b) = Wanted(q, b)
    BY <1>1, <1>3, <2>3, <2>5, <2>6, SendQuietPrefetch
  <2>8. Wanted(pq', a) = Wanted(pq, a)
    <3>1. c \notin Wanted(pq, a)
      BY <1>1, <1>5, <2>1
    <3> QED
      BY <1>1, <2>7, <3>1
  <2>9. LinksAt(mshr', rq', pq', dramRq', a)
    <3>1. LinksAt(mshr, rq, pq, dramRq, a)
      BY <1>1 DEF Ready, Links
    <3> QED
      BY <2>3, <2>7, <2>8, <3>1 DEF LinksAt
  <2>10. /\ MshrElsewhere(mshr, mshr', a) /\ QueueElsewhere(rq, rq', a)
         /\ QueueElsewhere(pq, pq', a) /\ DramElsewhere(dramRq, dramRq', a)
    BY <1>1, <2>3, <2>7 DEF MshrElsewhere, QueueElsewhere, DramElsewhere
  <2> HIDE DEF a
  <2> QED
    BY <1>3, <2>3, <2>7, <2>9, <2>10, ReadyFrom
<1> QED
  BY <1>7, <1>8

\* The prefetch joins an entry in flight, which then asks if either did.
LEMMA PrefetchMergeReady ==
  ASSUME TypeOK, Unique(mshr), Ready, NEW c \in Caches, pq[c] # <<>>, NEW p, p = Head(pq[c]),
         PrefetchMerge(c, p), wq' = wq, rq' = rq
  PROVE  Ready'
<1> DEFINE q == Pop(pq, c)
           a == p.addr
           R == Wanted(rq, a)
           Q == Wanted(pq, a)
           T == Asking(mshr, a)
           W == Waiting(mshr, a)
<1>1. /\ a \in Addr /\ QueuesOk(q, PqLevels)
      /\ <<p.addr, p.fl>> \in PqLevels[c] /\ p.fl \in {1, 2, 4}
      /\ c \in Q <=> p.fl < FillLevel[c]
      /\ Wanted(q, a) = Q \ {c} /\ QueueElsewhere(pq, q, a)
  BY PopPrefetch
<1>2. PICK e \in mshr[c] :
        e.addr = a /\ mshr' = Replace(c, e, [e EXCEPT !.fl = MinOf(p.fl, @)])
  BY DEF PrefetchMerge
<1>3. pq' = q /\ dramRq' = dramRq
  BY DEF PrefetchMerge
<1>4. /\ QueuesOk(rq, RqLevels) /\ WritesOk(wq) /\ EntriesOk(mshr) /\ DramOk(dramRq)
      /\ mshr \in MshrType
  BY DEF Ready, Shape, TypeOK, MshrType
<1>5. Linked(R, Q, T, W) /\ (InFlight(dramRq, a) <=> DramWanted(W))
  BY <1>1 DEF Ready, Links, LinksAt
<1>6. e \in Entry /\ Legit(c, e) /\ (c \in T <=> e.fl < FillLevel[c])
  <2>1. e \in Entry
    BY <1>2, <1>4 DEF MshrType
  <2>2. Legit(c, e)
    BY <1>4 DEF EntriesOk
  <2>3. c \in T <=> e.fl < FillLevel[c]
    BY <1>2 DEF Asking, Unique
  <2> QED
    BY <2>1, <2>2, <2>3
<1> DEFINE f == [e EXCEPT !.fl = MinOf(p.fl, @)]
<1>7. /\ f.addr = e.addr /\ f.returned = e.returned /\ Legit(c, f)
      /\ f.fl < FillLevel[c] <=> p.fl < FillLevel[c] \/ e.fl < FillLevel[c]
  <2>1. /\ f.addr = e.addr /\ f.returned = e.returned /\ f.port = e.port
        /\ f.type = e.type /\ f.fl = MinOf(p.fl, e.fl)
    BY <1>6 DEF Entry
  <2>2. Legit(c, f)
    \* The entry asks because the prefetch did: it came from above.
    <3>1. CASE p.fl < FillLevel[c]
      <4>1. PrefetchesPass(c, f.addr)
        BY <1>1, <1>2, <2>1, <3>1, PqLevel
      <4> QED
        BY <1>6, <2>1, <4>1, AnyPort DEF Legit
    <3>2. CASE ~(p.fl < FillLevel[c])
      <4>1. f.fl < FillLevel[c] => e.fl < FillLevel[c]
        BY <2>1, <3>2 DEF MinOf
      <4> QED
        BY <1>6, <2>1, <4>1 DEF Legit
    <3> QED
      BY <3>1, <3>2
  <2>3. e.fl \in {1, 2, 4, 8} /\ FillLevel[c] \in {1, 2, 4}
    BY <1>6, DramIsNoCache DEF Entry, Levels
  <2>4. MinOf(p.fl, e.fl) < FillLevel[c] <=> p.fl < FillLevel[c] \/ e.fl < FillLevel[c]
    BY <1>1, <2>3 DEF MinOf
  <2> QED
    BY <2>1, <2>2, <2>4
<1>8. /\ EntriesOk(mshr')
      /\ Asking(mshr', a) = IF f.fl < FillLevel[c] THEN T \cup {c} ELSE T \ {c}
      /\ Waiting(mshr', a) = W
      /\ MshrElsewhere(mshr, mshr', a)
  <2>1. mshr' = Replace(c, e, f) /\ e.addr = a
    BY <1>2
  <2> DEFINE n == Replace(c, e, f)
  <2> HIDE DEF f
  <2>2. /\ EntriesOk(n)
        /\ Asking(n, e.addr) = IF f.fl < FillLevel[c] THEN Asking(mshr, e.addr) \cup {c}
                               ELSE Asking(mshr, e.addr) \ {c}
        /\ Waiting(n, e.addr) = Waiting(mshr, e.addr)
        /\ MshrElsewhere(mshr, n, e.addr)
    BY <1>4, <1>7, ReplaceLinks
  <2>3. mshr' = n
    BY <2>1
  <2> HIDE DEF n
  <2> QED
    BY <2>1, <2>2, <2>3
<1> HIDE DEF q, R, Q, T, W, f
<1>9. Linked(R, Q \ {c}, Asking(mshr', a), W)
  <2>1. CASE p.fl < FillLevel[c]
    <3>1. c \in Q /\ Asking(mshr', a) = T \cup {c}
      BY <1>1, <1>7, <1>8, <2>1
    <3>2. Linked(R, Q \ {c}, T \cup {c}, W)
      BY <1>5, <3>1, LinkedMove
    <3> QED
      BY <3>1, <3>2
  <2>2. CASE ~(p.fl < FillLevel[c])
    <3>1. Q \ {c} = Q /\ Asking(mshr', a) = T
      BY <1>1, <1>6, <1>7, <1>8, <2>2
    <3> QED
      BY <1>5, <3>1
  <2> QED
    BY <2>1, <2>2
<1>10. LinksAt(mshr', rq', pq', dramRq', a)
  BY <1>1, <1>3, <1>5, <1>8, <1>9 DEF LinksAt, R
<1>11. /\ QueueElsewhere(rq, rq', a) /\ QueueElsewhere(pq, pq', a)
       /\ DramElsewhere(dramRq, dramRq', a)
  BY <1>1, <1>3 DEF QueueElsewhere, DramElsewhere
<1> HIDE DEF a
<1> QED
  BY <1>1, <1>3, <1>4, <1>8, <1>10, <1>11, ReadyFrom

LEMMA HandlePrefetchReady ==
  ASSUME TypeOK, Unique(mshr), Ready, NEW c \in Caches, HandlePrefetch(c)
  PROVE  Ready'
<1> DEFINE p == Head(pq[c])
<1>1. /\ pq[c] # <<>> /\ wq' = wq /\ rq' = rq
      /\ PrefetchHit(c, p) \/ PrefetchNewMiss(c, p) \/ PrefetchMerge(c, p)
  BY DEF HandlePrefetch
<1> QED
  BY <1>1, PrefetchHitReady, PrefetchMissReady, PrefetchMergeReady
-----------------------------------------------------------------------------
(* The DRAM controller and the cores.                                      *)

\* DRAM returns to the one cache above it, the only one that waits for it.
LEMMA DramReturnReady ==
  ASSUME TypeOK, Ready, NEW a \in Addr, DramReturn(a)
  PROVE  Ready'
<1>1. PICK p \in dramRq : /\ p.addr = a
                          /\ mshr' = ReturnData(mshr, Upper[Dram][p.port], a)
                          /\ dramRq' = dramRq \ {p}
  BY DEF DramReturn
<1>2. rq' = rq /\ wq' = wq /\ pq' = pq
  BY DEF DramReturn
<1>3. /\ QueuesOk(rq, RqLevels) /\ QueuesOk(pq, PqLevels) /\ WritesOk(wq)
      /\ EntriesOk(mshr) /\ DramOk(dramRq) /\ mshr \in MshrType
  BY DEF Ready, Shape, TypeOK, MshrType
<1>4. PICK c \in Caches : Lower[c] = Dram /\ Reaches(c, p)
  BY <1>3 DEF DramOk
<1>5. Upper[Dram][p.port] = c
  BY <1>4, PortsBelow DEF Reaches
<1> DEFINE R == Wanted(rq, a)
           Q == Wanted(pq, a)
           T == Asking(mshr, a)
           W == Waiting(mshr, a)
<1>6. Linked(R, Q, T, W)
  BY DEF Ready, Links, LinksAt
<1>7. R \cup Q \cup T \subseteq Caches
  BY DEF Wanted, Asking
<1>8. W \subseteq Caches
  BY DEF Waiting
<1> HIDE DEF R, Q, T, W
<1>9. /\ EntriesOk(mshr') /\ Asking(mshr', a) = T
      /\ Waiting(mshr', a) = W \ {c} /\ MshrElsewhere(mshr, mshr', a)
  <2> DEFINE n == ReturnData(mshr, c, a)
  <2>1. /\ EntriesOk(n) /\ Asking(n, a) = T
        /\ Waiting(n, a) = W \ {c} /\ MshrElsewhere(mshr, n, a)
    BY <1>3, ReturnDataLinks DEF T, W
  <2>2. mshr' = n
    BY <1>1, <1>5
  <2> HIDE DEF n
  <2> QED
    BY <2>1, <2>2
<1>10. Linked(R, Q, T, W \ {c})
  BY <1>4, <1>6, <1>7, DramIsNoCache, LinkedOutside
<1>11. ~DramWanted(W \ {c})
  BY <1>4, <1>8, RouteAssumption DEF DramWanted
<1>12. /\ DramOk(dramRq') /\ ~InFlight(dramRq', a) /\ DramElsewhere(dramRq, dramRq', a)
  BY <1>1, <1>3 DEF DramOk, InFlight, DramElsewhere
<1>13. LinksAt(mshr', rq', pq', dramRq', a)
  BY <1>2, <1>9, <1>10, <1>11, <1>12 DEF LinksAt, R, Q
<1>14. QueueElsewhere(rq, rq', a) /\ QueueElsewhere(pq, pq', a)
  BY <1>2 DEF QueueElsewhere
<1> QED
  BY <1>2, <1>3, <1>9, <1>12, <1>13, <1>14, ReadyFrom

\* What only changes queues without changing what they ask for keeps Ready.
LEMMA QuietReady ==
  ASSUME Ready, mshr' = mshr, dramRq' = dramRq,
         QueuesOk(rq', RqLevels), QueuesOk(pq', PqLevels), WritesOk(wq'),
         \A b : Wanted(rq', b) = Wanted(rq, b) /\ Wanted(pq', b) = Wanted(pq, b)
  PROVE  Ready'
<1>1. Links(mshr', rq', pq', dramRq')
  BY DEF Ready, Links, LinksAt
<1> QED
  BY <1>1 DEF Ready, Shape

\* Accesses carry the port of the cache they are made to: at the first level, and
\* elsewhere when they are prefetches to be filled there or below.
LEMMA InputPort ==
  ASSUME NEW x \in Demands \cup Stores \cup Prefetches, NEW p,
         p.addr = x.addr, p.port = PortOf[x.cache], x.cache \in Caches,
         ~HasUpper(x.cache) \/ (p.type = "PREFETCH" /\ ~(p.fl < FillLevel[x.cache]))
  PROVE  Legit(x.cache, p)
<1>1. <<x.cache, x.addr>> \in Inputs
  BY DEF Inputs
<1>2. p.port \in PortsFor(x.cache, p.addr)
  BY <1>1 DEF PortsFor, Feeds
<1> QED
  BY <1>2, AnyPort DEF Legit

LEMMA PrefetchLineReady ==
  ASSUME TypeOK, Ready, NEW r \in Prefetches, NEW word,
         PrefetchLine(r.cache, r.addr, r.fl, word)
  PROVE  Ready'
<1> DEFINE p == [addr |-> r.addr, type |-> "PREFETCH", fl |-> r.fl,
                 port |-> PortOf[r.cache], deps |-> {}]
<1>1. /\ r.cache \in Caches /\ r.addr \in Addr /\ r.fl \in {1, 2, 4}
      /\ r.fl >= FillLevel[r.cache]
  BY InputAssumption, SourceAssumption
<1>2. PortOf[r.cache] \in Ports
  BY <1>1, HierarchyAssumption
<1>3. p \in Packet
  BY <1>1, <1>2 DEF Packet, Types, Levels
<1>4. Legit(r.cache, p) /\ <<p.addr, p.fl>> \in PqLevels[r.cache]
  <2>1. p.type = "PREFETCH" /\ ~(p.fl < FillLevel[r.cache])
    BY <1>1, DramIsNoCache
  <2>2. <<p.addr, p.fl>> \in PqLevels[r.cache]
    BY <1>1 DEF PqLevels, Feeds
  <2> QED
    BY <1>1, <2>1, <2>2, InputPort
<1>5. /\ AddPq(mshr, pq, r.cache, p, word)
      /\ rq' = rq /\ wq' = wq /\ dramRq' = dramRq
  BY DEF PrefetchLine, dramVars
<1>6. p.fl >= FillLevel[r.cache]
  BY <1>1
<1> HIDE DEF p
<1>7. /\ mshr \in MshrType /\ pq \in QueueType
      /\ QueuesOk(rq, RqLevels) /\ QueuesOk(pq, PqLevels) /\ WritesOk(wq)
  BY DEF TypeOK, MshrType, QueueType, Ready, Shape
<1>8. mshr' = mshr /\ QueuesOk(pq', PqLevels) /\ \A b : Wanted(pq', b) = Wanted(pq, b)
  BY <1>1, <1>3, <1>4, <1>5, <1>6, <1>7, SendQuietPrefetch
<1> QED
  BY <1>5, <1>7, <1>8, QuietReady

LEMMA IssueReady ==
  ASSUME TypeOK, Ready, NEW s \in Slots, NEW d \in Demands, NEW word, Issue(s, d, word)
  PROVE  Ready'
<1> DEFINE p == [addr |-> d.addr, type |-> d.type, fl |-> FillLevel[d.cache],
                 port |-> PortOf[d.cache], deps |-> {s}]
<1>1. d.cache \in Caches /\ d.addr \in Addr /\ d.type \in {"LOAD", "RFO"} /\ ~HasUpper(d.cache)
  BY InputAssumption, SourceAssumption
<1>2. PortOf[d.cache] \in Ports /\ FillLevel[d.cache] \in {1, 2, 4}
  BY <1>1, HierarchyAssumption
<1>3. p \in Packet
  BY <1>1, <1>2 DEF Packet, Types, Levels
<1>4. Legit(d.cache, p) /\ p.fl = FillLevel[d.cache]
  BY <1>1, InputPort
<1>5. /\ AddRq(mshr, rq, d.cache, p, word)
      /\ pq' = pq /\ wq' = wq /\ dramRq' = dramRq
  BY DEF Issue, dramVars
<1> HIDE DEF p
<1>6. /\ mshr \in MshrType /\ rq \in QueueType
      /\ QueuesOk(rq, RqLevels) /\ QueuesOk(pq, PqLevels) /\ WritesOk(wq)
  BY DEF TypeOK, MshrType, QueueType, Ready, Shape
<1>7. mshr' = mshr /\ QueuesOk(rq', RqLevels) /\ \A b : Wanted(rq', b) = Wanted(rq, b)
  BY <1>1, <1>3, <1>4, <1>5, <1>6, SendQuietRead
<1> QED
  BY <1>5, <1>6, <1>7, QuietReady

LEMMA RetireStoreReady ==
  ASSUME TypeOK, Ready, NEW cpu \in Cpus, NEW st \in Stores, NEW word,
         RetireStore(cpu, st, word)
  PROVE  Ready'
<1> DEFINE p == [addr |-> st.addr, type |-> "RFO", fl |-> FillLevel[st.cache],
                 port |-> PortOf[st.cache], deps |-> {}]
<1>1. st.cache \in Caches /\ st.addr \in Addr /\ ~HasUpper(st.cache)
  BY InputAssumption, WiringAssumption DEF HasUpper
<1>2. PortOf[st.cache] \in Ports /\ FillLevel[st.cache] \in {1, 2, 4}
  BY <1>1, HierarchyAssumption
<1>3. p \in Packet
  BY <1>1, <1>2 DEF Packet, Types, Levels
<1>4. Legit(st.cache, p) /\ p.fl = FillLevel[st.cache]
  BY <1>1, InputPort
<1>5. /\ wq' = AddWq(wq, st.cache, p, word)
      /\ mshr' = mshr /\ rq' = rq /\ pq' = pq /\ dramRq' = dramRq
  BY DEF RetireStore, RetireSlot, dramVars
<1> HIDE DEF p
<1>6. /\ wq \in QueueType /\ WritesOk(wq)
      /\ QueuesOk(rq, RqLevels) /\ QueuesOk(pq, PqLevels)
  BY DEF TypeOK, QueueType, Ready, Shape
<1>7. WritesOk(wq')
  BY <1>1, <1>3, <1>4, <1>5, <1>6, AddWqWrites
<1> QED
  BY <1>5, <1>6, <1>7, QuietReady
-----------------------------------------------------------------------------
LEMMA ReadyInit == Init => Ready
<1> SUFFICES ASSUME Init PROVE Ready
  OBVIOUS
<1>1. /\ \A c \in Caches : mshr[c] = {} /\ rq[c] = <<>> /\ wq[c] = <<>> /\ pq[c] = <<>>
      /\ dramRq = {}
  BY DEF Init
<1>2. DOMAIN <<>> = {}
  OBVIOUS
<1>3. Shape
  BY <1>1, <1>2 DEF Shape, QueuesOk, Distinct, WritesOk, EntriesOk, DramOk
<1>4. ASSUME NEW a PROVE Waiting(mshr, a) = {} /\ Asking(mshr, a) = {}
  BY <1>1 DEF Waiting, Asking
<1>5. ASSUME NEW a PROVE Wanted(rq, a) = {} /\ Wanted(pq, a) = {}
  BY <1>1, <1>2 DEF Wanted
<1>6. Linked({}, {}, {}, {}) /\ ~DramWanted({})
  BY DEF Linked, DramWanted
<1>7. \A a : ~InFlight(dramRq, a)
  BY <1>1 DEF InFlight
<1>8. Links(mshr, rq, pq, dramRq)
  BY <1>4, <1>5, <1>6, <1>7 DEF Links, LinksAt
<1> QED
  BY <1>3, <1>8 DEF Ready

LEMMA ReadyNext == TypeOK /\ Unique(mshr) /\ Capacity /\ Ready /\ [Next]_vars => Ready'
<1> SUFFICES ASSUME TypeOK, Unique(mshr), Capacity, Ready, [Next]_vars PROVE Ready'
  OBVIOUS
<1>1. ASSUME mshr' = mshr, rq' = rq, wq' = wq, pq' = pq, dramRq' = dramRq PROVE Ready'
  BY <1>1, QuietReady DEF Ready, Shape
<1>2. ASSUME NEW c \in Caches, CacheStep(c) PROVE Ready'
  BY <1>2, HandleFillReady, HandleWritebackReady, HandleReadReady, HandlePrefetchReady
     DEF CacheStep
<1>3. CASE CoreStep
  <2>1. ASSUME NEW c \in Caches, CompleteFetch(c) PROVE Ready'
    BY <1>1, <2>1 DEF CompleteFetch, dramVars
  <2>2. ASSUME NEW cpu \in Cpus, Retire(cpu) PROVE Ready'
    BY <1>1, <2>2 DEF Retire, RetireSlot, dramVars
  <2> QED
    BY <1>3, <2>1, <2>2, IssueReady, RetireStoreReady, PrefetchLineReady DEF CoreStep
<1>4. CASE DramStep
  <2>1. ASSUME NEW a \in Addr, DramWrite(a) PROVE Ready'
    BY <1>1, <2>1 DEF DramWrite
  <2>2. CASE WarmupComplete
    BY <1>1, <2>2 DEF WarmupComplete, dramVars
  <2> QED
    BY <1>4, <2>1, <2>2, DramReturnReady DEF DramStep
<1>5. CASE UNCHANGED vars
  BY <1>1, <1>5 DEF vars
<1> QED
  BY <1>2, <1>3, <1>4, <1>5 DEF Next
-----------------------------------------------------------------------------
(* The properties.                                                         *)

LEMMA QueuedIsPacket ==
  ASSUME NEW q \in QueueType, NEW c \in Caches, NEW i \in DOMAIN q[c]
  PROVE  q[c][i] \in Packet /\ q[c][i].addr \in Addr
<1>1. q[c] \in Seq(Packet)
  BY DEF QueueType
<1>2. q[c][i] \in Packet
  BY <1>1, ElementOfSeq, LenProperties
<1> QED
  BY <1>2 DEF Packet

\* A request that cache c holds belongs to the cache its answer goes to.
LEMMA RequestOwned ==
  ASSUME Ready, NEW c \in Caches, NEW p, p.addr \in Addr, Legit(c, p), p.fl < FillLevel[c],
         c \in Wanted(rq, p.addr) \cup Wanted(pq, p.addr) \cup Asking(mshr, p.addr)
  PROVE  InFlightEntry(Upper[c][p.port], p.addr)
<1> DEFINE W == Waiting(mshr, p.addr)
<1>1. PICK u \in W : Lower[u] = c
  BY DEF Ready, Links, LinksAt, Linked
<1>2. u \in Near(p.addr)
  BY <1>1, WaitingNear DEF Ready, Shape
<1>3. Upper[c][p.port] = u
  BY <1>1, <1>2, OwnerIs DEF Legit
<1>4. InFlightEntry(u, p.addr)
  BY <1>1 DEF Waiting, InFlightEntry
<1> QED
  BY <1>3, <1>4

\* What is in the read queue of the DRAM controller belongs to the LLC.
LEMMA DramOwner ==
  ASSUME TypeOK, Ready, NEW p \in dramRq
  PROVE  \E c \in Caches : /\ Lower[c] = Dram /\ Upper[Dram][p.port] = c
                           /\ p.addr \in Addr /\ c \in Waiting(mshr, p.addr)
<1>1. PICK c \in Caches : Lower[c] = Dram /\ Reaches(c, p)
  BY DEF Ready, Shape, DramOk
<1>2. Upper[Dram][p.port] = c
  BY <1>1, PortsBelow DEF Reaches
<1>3. p.addr \in Addr
  BY DEF TypeOK, Packet
<1>4. InFlight(dramRq, p.addr)
  BY DEF InFlight
<1>5. PICK u \in Waiting(mshr, p.addr) : Lower[u] = Dram
  BY <1>3, <1>4 DEF Ready, Links, LinksAt, DramWanted
<1>6. u = c
  BY <1>1, <1>5, RouteAssumption DEF Waiting
<1> QED
  BY <1>1, <1>2, <1>3, <1>5, <1>6

LEMMA OwnedFromReady == TypeOK /\ Ready => RequestsAreOwned
<1> SUFFICES ASSUME TypeOK, Ready PROVE RequestsAreOwned
  OBVIOUS
<1>1. rq \in QueueType /\ pq \in QueueType
  BY DEF TypeOK, QueueType
<1>2. ASSUME NEW c \in Caches, NEW i \in DOMAIN rq[c], rq[c][i].fl < FillLevel[c]
      PROVE  InFlightEntry(Upper[c][rq[c][i].port], rq[c][i].addr)
  <2> DEFINE p == rq[c][i]
  <2>1. /\ p.addr \in Addr /\ Legit(c, p) /\ p.fl < FillLevel[c]
        /\ c \in Wanted(rq, p.addr)
    BY <1>1, <1>2, QueuedIsPacket DEF Ready, Shape, QueuesOk, Wanted
  <2> HIDE DEF p
  <2>2. InFlightEntry(Upper[c][p.port], p.addr)
    BY <2>1, RequestOwned
  <2> QED
    BY <2>2 DEF p
<1>3. ASSUME NEW c \in Caches, NEW i \in DOMAIN pq[c], pq[c][i].fl < FillLevel[c]
      PROVE  InFlightEntry(Upper[c][pq[c][i].port], pq[c][i].addr)
  <2> DEFINE p == pq[c][i]
  <2>1. /\ p.addr \in Addr /\ Legit(c, p) /\ p.fl < FillLevel[c]
        /\ c \in Wanted(pq, p.addr)
    BY <1>1, <1>3, QueuedIsPacket DEF Ready, Shape, QueuesOk, Wanted
  <2> HIDE DEF p
  <2>2. InFlightEntry(Upper[c][p.port], p.addr)
    BY <2>1, RequestOwned
  <2> QED
    BY <2>2 DEF p
<1>4. ASSUME NEW c \in Caches, NEW e \in mshr[c], e.fl < FillLevel[c]
      PROVE  InFlightEntry(Upper[c][e.port], e.addr)
  <2>1. e.addr \in Addr
    BY DEF TypeOK, Entry
  <2>2. Legit(c, e) /\ c \in Asking(mshr, e.addr)
    BY <1>4 DEF Ready, Shape, EntriesOk, Asking
  <2> QED
    BY <1>4, <2>1, <2>2, RequestOwned
<1>5. ASSUME NEW p \in dramRq PROVE InFlightEntry(Upper[Dram][p.port], p.addr)
  <2>1. PICK c \in Caches : Upper[Dram][p.port] = c /\ c \in Waiting(mshr, p.addr)
    BY DramOwner
  <2> QED
    BY <2>1 DEF Waiting, InFlightEntry
<1> QED
  BY <1>2, <1>3, <1>4, <1>5 DEF RequestsAreOwned

\* The request of cache c for block a, when c waits for it: one, of three places.
LEMMA OneCarrier ==
  ASSUME TypeOK, Unique(mshr), Ready, NEW c \in Caches, NEW l \in Caches, Lower[c] = l,
         NEW a \in Addr, c \in Waiting(mshr, a)
  PROVE  \E x : Carriers(c, a) = {x}
<1> DEFINE For(p) == p.addr = a /\ p.fl < FillLevel[l] /\ Upper[l][p.port] = c
           A == {j \in DOMAIN rq[l] : For(rq[l][j])}
           B == {j \in DOMAIN pq[l] : For(pq[l][j])}
           D == {f \in mshr[l] : For(f)}
           R == Wanted(rq, a)
           Q == Wanted(pq, a)
           T == Asking(mshr, a)
<1>1. Carriers(c, a) = {<<"rq", i>> : i \in A} \cup {<<"pq", i>> : i \in B}
                       \cup {<<"mshr", e>> : e \in D}
  BY DramIsNoCache DEF Carriers
<1>2. c \in Near(a)
  BY WaitingNear DEF Ready, Shape
<1>3. ASSUME NEW p, Legit(l, p), p.addr = a PROVE For(p) <=> p.fl < FillLevel[l]
  BY <1>2, <1>3, OwnerIs DEF Legit
<1>4. /\ l \in R \cup Q \cup T
      /\ ~(l \in R /\ l \in Q) /\ ~(l \in R /\ l \in T) /\ ~(l \in Q /\ l \in T)
  BY DEF Ready, Links, LinksAt, Linked
<1>5. /\ \A i \in DOMAIN rq[l] : Legit(l, rq[l][i])
      /\ \A i \in DOMAIN pq[l] : Legit(l, pq[l][i])
      /\ \A e \in mshr[l] : Legit(l, e)
      /\ Distinct(rq[l]) /\ Distinct(pq[l])
  BY DEF Ready, Shape, QueuesOk, EntriesOk
<1>6. /\ \A i \in DOMAIN rq[l] :
           For(rq[l][i]) <=> rq[l][i].addr = a /\ rq[l][i].fl < FillLevel[l]
      /\ \A i \in DOMAIN pq[l] :
           For(pq[l][i]) <=> pq[l][i].addr = a /\ pq[l][i].fl < FillLevel[l]
      /\ \A e \in mshr[l] : For(e) <=> e.addr = a /\ e.fl < FillLevel[l]
  BY <1>3, <1>5
<1>7. (l \in R <=> A # {}) /\ \A i, j \in A : i = j
  BY <1>5, <1>6 DEF Wanted, Distinct
<1>8. (l \in Q <=> B # {}) /\ \A i, j \in B : i = j
  BY <1>5, <1>6 DEF Wanted, Distinct
<1>9. (l \in T <=> D # {}) /\ \A e, f \in D : e = f
  BY <1>6 DEF Asking, Unique
<1> HIDE DEF For, A, B, D, R, Q, T
<1>10. CASE l \in R
  <2>1. PICK i : A = {i}
    BY <1>7, <1>10
  <2>2. B = {} /\ D = {}
    BY <1>4, <1>8, <1>9, <1>10
  <2>3. Carriers(c, a) = {<<"rq", i>>}
    BY <1>1, <2>1, <2>2
  <2> QED
    BY <2>3
<1>11. CASE l \in Q
  <2>1. PICK i : B = {i}
    BY <1>8, <1>11
  <2>2. A = {} /\ D = {}
    BY <1>4, <1>7, <1>9, <1>11
  <2>3. Carriers(c, a) = {<<"pq", i>>}
    BY <1>1, <2>1, <2>2
  <2> QED
    BY <2>3
<1>12. CASE l \in T
  <2>1. PICK e : D = {e}
    BY <1>9, <1>12
  <2>2. A = {} /\ B = {}
    BY <1>4, <1>7, <1>8, <1>12
  <2>3. Carriers(c, a) = {<<"mshr", e>>}
    BY <1>1, <2>1, <2>2
  <2> QED
    BY <2>3
<1> QED
  BY <1>4, <1>10, <1>11, <1>12

LEMMA OneDramCarrier ==
  ASSUME TypeOK, Ready, NEW c \in Caches, Lower[c] = Dram,
         NEW a \in Addr, c \in Waiting(mshr, a)
  PROVE  \E x : Carriers(c, a) = {x}
<1> DEFINE S == {p \in dramRq : p.addr = a /\ Upper[Dram][p.port] = c}
<1>1. Carriers(c, a) = {<<"dram", p>> : p \in S}
  BY DEF Carriers
<1>2. InFlight(dramRq, a)
  BY DEF Ready, Links, LinksAt, DramWanted
<1>3. PICK p \in dramRq : p.addr = a
  BY <1>2 DEF InFlight
<1>4. Upper[Dram][p.port] = c
  BY DramOwner, RouteAssumption
<1>5. \A r \in dramRq : r.addr = a => r = p
  BY <1>3 DEF Ready, Shape, DramOk
<1>6. S = {p}
  BY <1>3, <1>4, <1>5
<1> HIDE DEF S
<1>7. Carriers(c, a) = {<<"dram", p>>}
  BY <1>1, <1>6
<1> QED
  BY <1>7

LEMMA OneFromReady == TypeOK /\ Unique(mshr) /\ Ready => EveryMissHasOneRequest
<1> SUFFICES ASSUME TypeOK, Unique(mshr), Ready, NEW c \in Caches, Lower[c] # NoLower,
                    NEW e \in mshr[c], ~e.returned
             PROVE  Cardinality(Carriers(c, e.addr)) = 1
  BY DEF EveryMissHasOneRequest
<1>1. e.addr \in Addr
  BY DEF TypeOK, Entry
<1>2. c \in Waiting(mshr, e.addr)
  BY DEF Waiting
<1>3. Lower[c] \in Caches \/ Lower[c] = Dram
  BY HierarchyAssumption
<1>4. \E x : Carriers(c, e.addr) = {x}
  BY <1>1, <1>2, <1>3, OneCarrier, OneDramCarrier
<1> QED
  BY <1>4, FS_Singleton

LEMMA RoomFromReady == TypeOK /\ Capacity /\ Ready => RoomForEveryMiss
<1> SUFFICES ASSUME TypeOK, Capacity, Ready, NEW c \in Caches, Lower[c] \in Caches,
                    ~MshrFull(c)
             PROVE  Len(rq[Lower[c]]) < RqSize[Lower[c]]
  BY DEF RoomForEveryMiss
<1> QED
  BY RoomBelow

LEMMA ReadyAlways == Spec => [](TypeOK /\ Unique(mshr) /\ Capacity /\ Ready)
<1> DEFINE IInv == TypeOK /\ Unique(mshr) /\ Capacity /\ Ready
<1>1. Init => IInv
  BY TypeInit, CapacityInit, ReadyInit DEF Init, Unique
<1>2. IInv /\ [Next]_vars => IInv'
  <2>1. Unique(mshr') => Unique(mshr)'
    BY DEF Unique
  <2> QED
    BY <2>1, TypeNext, UniqueNext, CapacityNext, ReadyNext
<1> HIDE DEF IInv
<1>3. Spec => []IInv
  BY <1>1, <1>2, PTL DEF Spec
<1> QED
  BY <1>3 DEF IInv

\* No answer is ever sent to a cache that does not wait for it: the assertion
\* of return_data ("cannot find a matching entry!") cannot fail, for any
\* hierarchy wired as main.cc wires it and any program without shared blocks.
THEOREM AnswersAreExpected == Spec => []RequestsAreOwned
BY ReadyAlways, OwnedFromReady, PTL

\* Merging, forwarding and prefetching lose no request and make none twice:
\* below each miss that waits there is exactly one.
THEOREM OneRequestPerMiss == Spec => []EveryMissHasOneRequest
BY ReadyAlways, OneFromReady, PTL

\* The callers of add_rq that ignore its result are right to: the read queue of
\* the lower level has room whenever a miss can be sent to it.
THEOREM ReadQueuesSuffice == Spec => []RoomForEveryMiss
BY ReadyAlways, RoomFromReady, PTL
=============================================================================
