------------------------ MODULE Replacement_proofs ------------------------
(* The replacement policies for any number of ways, any width of the ages  *)
(* and any partition: ages keep their types, LRU evicts the block used     *)
(* longest ago, and Hawkeye's ages and signatures agree with the accesses. *)
EXTENDS Replacement, SequenceTheorems, WellFoundedInduction, TLAPS

\* While the partition has not changed, the positions of LRU are a permutation
\* of the ways, in the order in which they were last updated.
Positions ==
  /\ current_assoc = NumWay
  /\ lru \in [Ways -> Ways]
  /\ \A v, w \in Ways : lru[v] = lru[w] => v = w
  /\ \A p \in Ways : \E w \in Ways : lru[w] = p
  /\ \A w \in Ways : younger[w] = {v \in Ways : lru[v] < lru[w]}

OneTagPerBlock ==
  \A v, w \in Ways : tag[v] = tag[w] /\ tag[v] # NoAddr => v = w

\* The inductive invariant.
RInv ==
  /\ TypeOK
  /\ OneTagPerBlock
  /\ policy = "lru" /\ ~resized => Positions
  /\ younger \in [Ways -> SUBSET Ways]
  /\ policy = "hawkeye" => FriendlyLinesAge /\ SignaturesMatch
-----------------------------------------------------------------------------
LEMMA SmallestOf ==
  ASSUME NEW T \in SUBSET Nat, T # {}
  PROVE  Min(T) \in T /\ \A y \in T : Min(T) <= y
<1>1. PICK x \in T : \A y \in T : <<y, x>> \notin OpToRel(<, Nat)
  BY NatLessThanWellFounded, WFMin
<1>2. \A y \in T : ~(y < x)
  BY <1>1 DEF OpToRel
<1>3. \A y \in T : x <= y
  BY <1>2
<1> QED
  BY <1>3 DEF Min

LEMMA LargestOf ==
  ASSUME NEW n \in Nat, NEW T \in SUBSET (0..n), T # {}
  PROVE  Max(T) \in T /\ \A y \in T : y <= Max(T)
<1> DEFINE U == {n - y : y \in T}
<1>0. \A y \in T : y \in Nat /\ n - y \in Nat
  OBVIOUS
<1>1. U \in SUBSET Nat /\ U # {}
  BY <1>0
<1>2. Min(U) \in U /\ \A v \in U : Min(U) <= v
  BY <1>1, SmallestOf
<1>3. PICK x \in T : Min(U) = n - x
  BY <1>2
<1>4. \A y \in T : n - x <= n - y
  BY <1>2, <1>3
<1>5. \A y \in T : y <= x
  BY <1>0, <1>4
<1> QED
  BY <1>5 DEF Max

\* Counting modulo LruWrap, over at most one wrap.
LEMMA Modulo ==
  ASSUME NEW x \in Int
  PROVE  /\ x % LruWrap \in 0 .. LruWrap - 1
         /\ 0 <= x /\ x < LruWrap => x % LruWrap = x
         /\ -LruWrap <= x /\ x < 0 => x % LruWrap = x + LruWrap
         /\ LruWrap <= x /\ x < 2 * LruWrap => x % LruWrap = x - LruWrap
<1>1. LruWrap \in Nat /\ LruWrap > 0
  BY ReplacementSizes
<1> QED
  BY <1>1

LEMMA WaysType == Ways \subseteq Nat /\ \A w \in Ways : w < NumWay
BY ReplacementSizes DEF Ways

\* find_victim returns a way of the partition whatever the ages are, because
\* raising them all brings one to the last position.
LEMMA LruVictimFound ==
  ASSUME TypeOK
  PROVE  /\ LruVictim.way \in Partition /\ LruVictim.way \in Ways
         /\ LruVictim.lru \in [Ways -> 0 .. LruWrap - 1]
         /\ tag[LruVictim.way] = NoAddr => LruVictim.lru = lru
         /\ tag[LruVictim.way] # NoAddr =>
              /\ LruVictim.lru[LruVictim.way] = current_assoc - 1
              /\ \E r \in 0 .. LruWrap - 1 :
                   /\ \A w \in Partition : r <= (current_assoc - 1 - lru[w]) % LruWrap
                   /\ LruVictim.lru = [w \in Ways |-> IF w \in Partition
                                                     THEN (lru[w] + r) % LruWrap
                                                     ELSE lru[w]]
<1> DEFINE empty == {w \in Partition : tag[w] = NoAddr}
           distance(w) == (current_assoc - 1 - lru[w]) % LruWrap
           rounds == Min({distance(w) : w \in Partition})
           raised == [w \in Ways |->
             IF w \in Partition THEN (lru[w] + rounds) % LruWrap ELSE lru[w]]
           last == {w \in Partition : raised[w] = current_assoc - 1}
<1>1. /\ current_assoc \in 1 .. NumWay /\ NumWay \in Nat /\ LruWrap \in Nat
      /\ NumWay < LruWrap /\ lru \in [Ways -> 0 .. LruWrap - 1]
      /\ Partition \subseteq Ways /\ Partition \subseteq Nat /\ 0 \in Partition
      /\ Ways \subseteq Nat
  BY ReplacementSizes DEF TypeOK, Partition, Ways
<1>2. \A w \in Partition : lru[w] \in 0 .. LruWrap - 1 /\ distance(w) \in 0 .. LruWrap - 1
  BY <1>1, Modulo
<1>3. /\ rounds \in {distance(w) : w \in Partition}
      /\ \A w \in Partition : rounds <= distance(w)
  <2> DEFINE S == {distance(w) : w \in Partition}
  <2>1. S # {}
    BY <1>1
  <2>2. S \in SUBSET Nat
    BY <1>2
  <2>3. \A w \in Partition : distance(w) \in S
    OBVIOUS
  <2> HIDE DEF S
  <2>4. Min(S) \in S /\ \A y \in S : Min(S) <= y
    BY <2>1, <2>2, SmallestOf
  <2>5. rounds = Min(S)
    BY DEF S
  <2> HIDE DEF rounds, distance
  <2> QED
    BY <2>3, <2>4, <2>5 DEF S
<1>4. PICK k \in Partition : rounds = distance(k)
  BY <1>3
<1>5. rounds \in 0 .. LruWrap - 1
  BY <1>2, <1>4
<1> HIDE DEF rounds
<1>6. raised \in [Ways -> 0 .. LruWrap - 1]
  BY <1>1, <1>2, <1>5, Modulo
<1>7. raised[k] = current_assoc - 1
  <2> DEFINE x == current_assoc - 1 - lru[k]
             y == current_assoc - 1
             z == y + LruWrap
  <2>1. x \in Int /\ x < LruWrap /\ -LruWrap <= x /\ lru[k] \in 0 .. LruWrap - 1
        /\ current_assoc - 1 \in 0 .. LruWrap - 1
    BY <1>1, <1>2
  <2>2. raised[k] = (lru[k] + (x % LruWrap)) % LruWrap
    BY <1>1, <1>4
  <2>3. CASE 0 <= x
    <3>1. x % LruWrap = x
      BY <2>1, <2>3, Modulo
    <3>2. lru[k] + x = current_assoc - 1
      BY <1>1, <2>1
    <3>3. y % LruWrap = y
      <4>1. y \in Int /\ 0 <= y /\ y < LruWrap
        BY <1>1
      <4> HIDE DEF y
      <4> QED
        BY <4>1, Modulo
    <3> QED
      BY <2>2, <3>1, <3>2, <3>3
  <2>4. CASE x < 0
    <3>1. x % LruWrap = x + LruWrap
      BY <2>1, <2>4, Modulo
    <3>2. lru[k] + (x + LruWrap) = z
      BY <1>1, <2>1
    <3>3. z % LruWrap = y
      <4>1. z \in Int /\ LruWrap <= z /\ z < 2 * LruWrap /\ z - LruWrap = y
        BY <1>1
      <4> HIDE DEF y, z
      <4> QED
        BY <4>1, Modulo
    <3> QED
      <4>1. lru[k] + (x % LruWrap) = z
        BY <3>1, <3>2
      <4> QED
        BY <2>2, <3>3, <4>1
  <2> QED
    BY <2>1, <2>3, <2>4
<1>8. Min(last) \in last
  BY <1>1, <1>7, SmallestOf
<1>9. empty # {} => Min(empty) \in empty
  BY <1>1, SmallestOf
<1>10. LruVictim = IF empty # {} THEN [way |-> Min(empty), lru |-> lru]
                   ELSE [way |-> Min(last), lru |-> raised]
  BY DEF LruVictim, rounds
<1>11. CASE empty # {}
  BY <1>1, <1>9, <1>10, <1>11
<1>12. CASE empty = {}
  <2>1. LruVictim.way = Min(last) /\ LruVictim.lru = raised
    BY <1>10, <1>12
  <2>2. /\ LruVictim.way \in Partition /\ LruVictim.way \in Ways
        /\ LruVictim.lru[LruVictim.way] = current_assoc - 1
    BY <1>1, <1>8, <2>1
  <2>3. tag[LruVictim.way] # NoAddr
    BY <1>12, <2>2
  <2> QED
    BY <1>3, <1>5, <1>6, <2>1, <2>2, <2>3
<1> QED
  BY <1>11, <1>12

\* An update keeps the ages within their width.
LEMMA LruUpdateType ==
  ASSUME TypeOK, NEW l \in [Ways -> 0 .. LruWrap - 1], NEW w \in Ways
  PROVE  LruUpdate(l, w) \in [Ways -> 0 .. LruWrap - 1]
<1>1. LruWrap \in Nat /\ LruWrap > 0
  BY ReplacementSizes
<1>2. \A i \in Ways : LruUpdate(l, w)[i] =
        IF i = w THEN 0 ELSE IF i \in Partition /\ l[i] < l[w] THEN l[i] + 1 ELSE l[i]
  BY DEF LruUpdate
<1>3. \A i \in Ways : LruUpdate(l, w)[i] \in 0 .. LruWrap - 1
  BY <1>1, <1>2
<1> QED
  BY <1>3 DEF LruUpdate

\* While the positions are a permutation, find_victim raises none, and a valid
\* block it selects is the one used longest ago.
LEMMA OldestSelected ==
  ASSUME TypeOK, Positions
  PROVE  /\ LruVictim.lru = lru
         /\ tag[LruVictim.way] # NoAddr =>
              younger[LruVictim.way] = Ways \ {LruVictim.way}
<1>1. /\ NumWay \in Nat \ {0} /\ LruWrap \in Nat /\ NumWay < LruWrap /\ Ways \subseteq Nat
      /\ \A w \in Ways : w < NumWay
      /\ Partition = Ways /\ current_assoc = NumWay /\ lru \in [Ways -> Ways]
      /\ LruVictim.way \in Ways /\ NumWay - 1 \in Ways
  <2>1. LruVictim.way \in Ways
    BY LruVictimFound
  <2>2. current_assoc = NumWay /\ lru \in [Ways -> Ways]
    BY DEF Positions
  <2> QED
    BY <2>1, <2>2, ReplacementSizes DEF Partition, Ways
<1>2. CASE tag[LruVictim.way] = NoAddr
  BY <1>2, LruVictimFound
<1>3. CASE tag[LruVictim.way] # NoAddr
  <2>1. PICK r \in 0 .. LruWrap - 1 :
           /\ \A w \in Ways : r <= (NumWay - 1 - lru[w]) % LruWrap
           /\ LruVictim.lru = [w \in Ways |-> (lru[w] + r) % LruWrap]
    BY <1>1, <1>3, LruVictimFound
  <2>2. PICK m \in Ways : lru[m] = NumWay - 1
    BY <1>1 DEF Positions
  <2>3. r = 0
    <3>1. NumWay - 1 - lru[m] = 0
      BY <1>1, <2>2
    <3>2. 0 % LruWrap = 0
      BY <1>1, Modulo
    <3> QED
      BY <2>1, <3>1, <3>2
  <2>4. \A w \in Ways : (lru[w] + r) % LruWrap = lru[w]
    <3> SUFFICES ASSUME NEW w \in Ways PROVE (lru[w] + r) % LruWrap = lru[w]
      OBVIOUS
    <3>0. lru[w] \in Ways /\ lru[w] \in Nat /\ lru[w] < NumWay
      BY <1>1
    <3>1. lru[w] \in Int /\ 0 <= lru[w] /\ lru[w] < LruWrap /\ lru[w] + r = lru[w]
      BY <1>1, <2>3, <3>0
    <3> QED
      BY <3>1, Modulo
  <2>5. LruVictim.lru = lru
    BY <1>1, <2>1, <2>4
  <2> DEFINE w == LruVictim.way
  <2>6. lru[w] = NumWay - 1 /\ w \in Ways
    BY <1>1, <1>3, <2>5, LruVictimFound
  <2> HIDE DEF w
  <2>7. ASSUME NEW v \in Ways PROVE lru[v] < NumWay - 1 <=> v # w
    <3>1. (lru[v] = lru[w] => v = w) /\ lru[v] \in Nat /\ lru[v] < NumWay
      BY <1>1, <2>6 DEF Positions
    <3> QED
      BY <1>1, <2>6, <3>1
  <2>8. younger[w] = {v \in Ways : lru[v] < lru[w]}
    BY <2>6 DEF Positions
  <2>9. younger[w] = Ways \ {w}
    BY <2>6, <2>7, <2>8
  <2> QED
    BY <2>5, <2>9 DEF w
<1> QED
  BY <1>2, <1>3

\* An update moves one way to the front of the permutation.
LEMMA UpdateMovesToFront ==
  ASSUME TypeOK, Positions, NEW w \in Ways,
         lru' = LruUpdate(lru, w), younger' = Touched(w), current_assoc' = current_assoc
  PROVE  Positions'
<1>1. /\ NumWay \in Nat \ {0} /\ Ways \subseteq Nat
      /\ \A v \in Nat : v \in Ways <=> v < NumWay
      /\ Partition = Ways /\ current_assoc = NumWay /\ lru \in [Ways -> Ways]
  <2>1. current_assoc = NumWay /\ lru \in [Ways -> Ways]
    BY DEF Positions
  <2>2. NumWay \in Nat \ {0}
    BY ReplacementSizes
  <2> QED
    BY <2>1, <2>2 DEF Partition, Ways
<1>2. \A v \in Ways : lru'[v] = IF v = w THEN 0 ELSE IF lru[v] < lru[w] THEN lru[v] + 1
                                                   ELSE lru[v]
  BY <1>1 DEF LruUpdate
<1>3. \A v \in Ways : lru[v] \in Nat /\ lru[v] < NumWay /\ (lru[v] = lru[w] => v = w)
  BY <1>1 DEF Positions
<1>4. lru' \in [Ways -> Ways]
  <2>1. \A v \in Ways : lru'[v] \in Nat /\ lru'[v] < NumWay
    BY <1>1, <1>2, <1>3
  <2>2. lru' = [v \in Ways |-> lru'[v]]
    BY DEF LruUpdate
  <2> QED
    BY <1>1, <2>1, <2>2
<1>5. ASSUME NEW u \in Ways, NEW v \in Ways, lru'[u] = lru'[v]
      PROVE  u = v
  <2>1. lru[u] = lru[v] => u = v
    BY DEF Positions
  <2> QED
    BY <1>2, <1>3, <1>5, <2>1
<1>6. ASSUME NEW p \in Ways PROVE \E v \in Ways : lru'[v] = p
  <2>1. CASE p = 0
    BY <1>2, <2>1
  <2>2. CASE p # 0 /\ p <= lru[w]
    <3>1. p - 1 \in Ways
      BY <1>1, <2>2
    <3>2. PICK v \in Ways : lru[v] = p - 1
      BY <3>1 DEF Positions
    <3>3. lru'[v] = p
      BY <1>1, <1>2, <1>3, <2>2, <3>2
    <3> QED
      BY <3>3
  <2>3. CASE p > lru[w]
    <3>1. PICK v \in Ways : lru[v] = p
      BY DEF Positions
    <3>2. lru'[v] = p
      BY <1>1, <1>2, <1>3, <2>3, <3>1
    <3> QED
      BY <3>2
  <2> QED
    BY <1>1, <1>3, <2>1, <2>2, <2>3
<1>7. ASSUME NEW v \in Ways PROVE younger'[v] = {u \in Ways : lru'[u] < lru'[v]}
  <2>1. younger'[v] = IF v = w THEN {} ELSE younger[v] \cup {w}
    BY DEF Touched
  <2>2. younger[v] = {u \in Ways : lru[u] < lru[v]}
    BY DEF Positions
  <2>3. CASE v = w
    <3>1. \A u \in Ways : ~(lru'[u] < lru'[v])
      BY <1>2, <1>3, <2>3
    <3> QED
      BY <2>1, <2>3, <3>1
  <2>4. CASE v # w
    <3>1. \A u \in Ways : lru'[u] < lru'[v] <=> u = w \/ lru[u] < lru[v]
      <4> SUFFICES ASSUME NEW u \in Ways
                   PROVE  lru'[u] < lru'[v] <=> u = w \/ lru[u] < lru[v]
        OBVIOUS
      <4>1. lru[u] \in Nat /\ lru[v] \in Nat /\ lru[w] \in Nat /\ lru[v] # lru[w]
            /\ (lru[u] = lru[w] => u = w)
        BY <1>3, <2>4
      <4> QED
        BY <1>2, <2>4, <4>1
    <3> QED
      BY <2>1, <2>2, <2>4, <3>1
  <2> QED
    BY <2>3, <2>4
<1> QED
  BY <1>1, <1>4, <1>5, <1>6, <1>7 DEF Positions, Ways
-----------------------------------------------------------------------------
(* Hawkeye. *)

LEMMA TrainingType ==
  ASSUME NEW s \in [PC -> 0 .. MaxShct], NEW pc
  PROVE  /\ Increment(s, pc) \in [PC -> 0 .. MaxShct]
         /\ Decrement(s, pc) \in [PC -> 0 .. MaxShct]
<1>1. MaxShct \in Nat
  BY ReplacementSizes
<1>2. CASE pc \in PC
  <2>1. s[pc] \in 0 .. MaxShct
    BY <1>2
  <2>2. (IF s[pc] < MaxShct THEN s[pc] + 1 ELSE MaxShct) \in 0 .. MaxShct
        /\ (IF s[pc] # 0 THEN s[pc] - 1 ELSE 0) \in 0 .. MaxShct
    BY <1>1, <2>1
  <2> QED
    BY <2>2 DEF Increment, Decrement
<1>3. CASE pc \notin PC
  BY <1>3 DEF Increment, Decrement
<1> QED
  BY <1>2, <1>3

LEMMA HawkeyeVictimFound ==
  ASSUME TypeOK
  PROVE  HawkeyeVictim.way \in Ways /\ HawkeyeVictim.shct \in [PC -> 0 .. MaxShct]
<1> DEFINE averse == {w \in Ways : rrpv[w] = MaxRRPV}
           eldest == {w \in Ways : \A v \in Ways : rrpv[v] <= rrpv[w]}
           oldest == Max(eldest)
<1>1. /\ rrpv \in [Ways -> 0 .. MaxRRPV] /\ shct \in [PC -> 0 .. MaxShct]
      /\ MaxRRPV \in Nat /\ NumWay \in Nat \ {0} /\ Ways \subseteq Nat /\ 0 \in Ways
      /\ Ways \subseteq 0 .. NumWay
  BY ReplacementSizes DEF TypeOK, Ways
<1>2. averse # {} => Min(averse) \in averse
  BY <1>1, SmallestOf
<1>3. eldest # {}
  <2> DEFINE S == {rrpv[w] : w \in Ways}
  <2>1. S # {} /\ S \in SUBSET (0 .. MaxRRPV)
    BY <1>1
  <2>2. \A w \in Ways : rrpv[w] \in S
    OBVIOUS
  <2>3. Max(S) \in S /\ \A y \in S : y <= Max(S)
    BY <1>1, <2>1, LargestOf
  <2>4. PICK w \in Ways : Max(S) = rrpv[w]
    BY <2>3
  <2>5. \A v \in Ways : rrpv[v] <= rrpv[w]
    BY <2>2, <2>3, <2>4
  <2> QED
    BY <2>5
<1>4. oldest \in eldest
  BY <1>1, <1>3, LargestOf
<1>5. Decrement(shct, signatures[oldest]) \in [PC -> 0 .. MaxShct]
  BY <1>1, TrainingType
<1> HIDE DEF oldest
<1>6. HawkeyeVictim = IF averse # {} THEN [way |-> Min(averse), shct |-> shct]
                      ELSE [way |-> oldest, shct |-> Decrement(shct, signatures[oldest])]
  BY DEF HawkeyeVictim, oldest
<1> QED
  BY <1>1, <1>2, <1>4, <1>5, <1>6

\* A friendly line becomes the youngest and the others keep their order.
LEMMA PromotedAges ==
  ASSUME NEW w \in Ways, NEW hit \in BOOLEAN, rrpv \in [Ways -> 0 .. MaxRRPV]
  PROVE  /\ Promoted(w, hit) \in [Ways -> 0 .. MaxRRPV] /\ Promoted(w, hit)[w] = 0
         /\ \A v \in Ways \ {w} : Promoted(w, hit)[v] < MaxRRPV => rrpv[v] < MaxRRPV
         /\ \A u, v \in Ways \ {w} :
              rrpv[u] <= rrpv[v] /\ rrpv[v] < MaxRRPV
                => Promoted(w, hit)[u] <= Promoted(w, hit)[v]
<1> DEFINE saturated == \E v \in Ways \ {w} : rrpv[v] = MaxRRPV - 1
           ages == ~hit /\ ~saturated
           aged(v) == IF ages /\ rrpv[v] < MaxRRPV - 1 THEN rrpv[v] + 1 ELSE rrpv[v]
<1>1. MaxRRPV \in Nat /\ MaxRRPV > 1 /\ \A v \in Ways : rrpv[v] \in 0 .. MaxRRPV
  BY ReplacementSizes
<1>2. Promoted(w, hit) = [v \in Ways |-> IF v = w THEN 0 ELSE aged(v)]
  BY DEF Promoted
<1>3. ages => \A v \in Ways \ {w} : rrpv[v] # MaxRRPV - 1
  OBVIOUS
<1> HIDE DEF ages
<1>4. \A v \in Ways : aged(v) \in 0 .. MaxRRPV
  BY <1>1
<1>5. \A v \in Ways \ {w} : aged(v) < MaxRRPV => rrpv[v] < MaxRRPV
  BY <1>1
<1>6. \A u, v \in Ways \ {w} :
        rrpv[u] <= rrpv[v] /\ rrpv[v] < MaxRRPV => aged(u) <= aged(v)
  BY <1>1, <1>3
<1> HIDE DEF aged
<1> QED
  BY <1>1, <1>2, <1>4, <1>5, <1>6

\* should_cache says that no quantum since the last use is full, so counting
\* the block in keeps every quantum within the capacity.
LEMMA HawkeyeUpdateType ==
  ASSUME TypeOK, NEW s \in [PC -> 0 .. MaxShct], NEW w \in Ways, NEW a \in Addr,
         NEW pc \in PC, NEW hit \in BOOLEAN, HawkeyeUpdate(s, w, a, pc, hit)
  PROVE  /\ rrpv' \in [Ways -> 0 .. MaxRRPV] /\ signatures' \in [Ways -> PC \cup {NoPC}]
         /\ shct' \in [PC -> 0 .. MaxShct]
         /\ addr_history' \in [Addr -> [last_quanta : -1 .. MaxAccesses,
                                        PC : PC \cup {NoPC}]]
         /\ liveness_history' \in Seq(0 .. OptSize) /\ num_cache' \in Nat
<1> DEFINE prior == addr_history[a]
           cached == prior # Never /\ ShouldCache(prior.last_quanta)
           now == Len(liveness_history)
<1>1. /\ rrpv \in [Ways -> 0 .. MaxRRPV] /\ signatures \in [Ways -> PC \cup {NoPC}]
      /\ addr_history \in [Addr -> [last_quanta : -1 .. MaxAccesses, PC : PC \cup {NoPC}]]
      /\ liveness_history \in Seq(0 .. OptSize) /\ num_cache \in Nat
      /\ MaxRRPV \in Nat
  BY ReplacementSizes DEF TypeOK
<1>2. now \in Nat /\ now < MaxAccesses
  BY <1>1, LenProperties DEF HawkeyeUpdate
<1>3. prior.last_quanta \in Int /\ cached \in BOOLEAN
  BY <1>1
<1>4. cached => \A i \in prior.last_quanta + 1 .. now : liveness_history[i] < OptSize
  BY DEF ShouldCache
<1>5. shct' \in [PC -> 0 .. MaxShct]
  BY TrainingType DEF HawkeyeUpdate
<1>6. rrpv' \in [Ways -> 0 .. MaxRRPV]
  <2>1. Promoted(w, hit) \in [Ways -> 0 .. MaxRRPV]
    BY <1>1, PromotedAges
  <2>2. [rrpv EXCEPT ![w] = MaxRRPV] \in [Ways -> 0 .. MaxRRPV]
    BY <1>1
  <2> QED
    BY <2>1, <2>2 DEF HawkeyeUpdate
<1>7. liveness_history' \in Seq(0 .. OptSize)
  <2> DEFINE g == [i \in 1 .. now |-> IF cached /\ i > prior.last_quanta
                                     THEN liveness_history[i] + 1
                                     ELSE liveness_history[i]]
  <2>1. liveness_history' = Append(g, 0)
    BY DEF HawkeyeUpdate
  <2>2. \A i \in 1 .. now : /\ liveness_history[i] \in 0 .. OptSize
                            /\ cached /\ i > prior.last_quanta => liveness_history[i] < OptSize
    <3>1. \A i \in 1 .. now : liveness_history[i] \in 0 .. OptSize
      BY <1>1, ElementOfSeq
    <3> HIDE DEF cached, now, prior
    <3> QED
      BY <1>2, <1>3, <1>4, <3>1
  <2>3. g \in [1 .. now -> 0 .. OptSize]
    <3>1. OptSize \in Nat
      BY ReplacementSizes
    <3> HIDE DEF cached, now, prior
    <3> QED
      BY <2>2, <3>1
  <2> HIDE DEF g
  <2>4. g \in Seq(0 .. OptSize) /\ 0 \in 0 .. OptSize
    BY <1>2, <2>3, SeqDef, ReplacementSizes
  <2> QED
    BY <2>1, <2>4, AppendProperties
<1>8. num_cache' \in Nat
  BY <1>1 DEF HawkeyeUpdate
<1>9. addr_history' \in [Addr -> [last_quanta : -1 .. MaxAccesses, PC : PC \cup {NoPC}]]
  <2>1. now \in -1 .. MaxAccesses
    BY <1>2, ReplacementSizes
  <2> QED
    BY <1>1, <1>2, <2>1 DEF HawkeyeUpdate
<1>10. signatures' \in [Ways -> PC \cup {NoPC}]
  BY <1>1 DEF HawkeyeUpdate
<1> QED
  BY <1>5, <1>6, <1>7, <1>8, <1>9, <1>10

LEMMA HawkeyeAges ==
  ASSUME TypeOK, younger \in [Ways -> SUBSET Ways], FriendlyLinesAge,
         NEW s, NEW w \in Ways, NEW a \in Addr, NEW pc \in PC, NEW hit \in BOOLEAN,
         HawkeyeUpdate(s, w, a, pc, hit), younger' = Touched(w)
  PROVE  FriendlyLinesAge'
<1>1. rrpv \in [Ways -> 0 .. MaxRRPV] /\ MaxRRPV \in Nat
  BY ReplacementSizes DEF TypeOK
<1>2. \A v \in Ways : younger'[v] = IF v = w THEN {} ELSE younger[v] \cup {w}
  BY DEF Touched
<1> SUFFICES ASSUME NEW old \in Ways, NEW young \in younger'[old],
                    rrpv'[old] < MaxRRPV, rrpv'[young] < MaxRRPV
             PROVE  rrpv'[young] <= rrpv'[old]
  BY DEF FriendlyLinesAge
<1>3. old # w /\ young \in Ways /\ (young = w \/ young \in younger[old])
  BY <1>2
<1>4. rrpv' = Promoted(w, hit) \/ rrpv' = [rrpv EXCEPT ![w] = MaxRRPV]
  BY DEF HawkeyeUpdate
<1>5. CASE rrpv' = Promoted(w, hit)
  <2>1. /\ rrpv' \in [Ways -> 0 .. MaxRRPV] /\ rrpv'[w] = 0
        /\ \A v \in Ways \ {w} : rrpv'[v] < MaxRRPV => rrpv[v] < MaxRRPV
        /\ \A u, v \in Ways \ {w} :
             rrpv[u] <= rrpv[v] /\ rrpv[v] < MaxRRPV => rrpv'[u] <= rrpv'[v]
    BY <1>1, <1>5, PromotedAges
  <2>2. CASE young = w
    BY <2>1, <2>2
  <2>3. CASE young # w
    <3>1. rrpv[old] < MaxRRPV /\ rrpv[young] < MaxRRPV
      BY <1>3, <2>1, <2>3
    <3>2. rrpv[young] <= rrpv[old]
      BY <1>3, <2>3, <3>1 DEF FriendlyLinesAge
    <3> QED
      BY <1>3, <2>1, <2>3, <3>1, <3>2
  <2> QED
    BY <2>2, <2>3
<1>6. CASE rrpv' = [rrpv EXCEPT ![w] = MaxRRPV]
  <2>1. young # w
    BY <1>1, <1>6
  <2>2. rrpv'[young] = rrpv[young] /\ rrpv'[old] = rrpv[old]
    BY <1>1, <1>3, <1>6, <2>1
  <2> QED
    BY <1>3, <2>1, <2>2 DEF FriendlyLinesAge
<1> QED
  BY <1>4, <1>5, <1>6

LEMMA HawkeyeSignatures ==
  ASSUME TypeOK, SignaturesMatch,
         NEW s, NEW w \in Ways, NEW a \in Addr, NEW pc \in PC, NEW hit \in BOOLEAN,
         HawkeyeUpdate(s, w, a, pc, hit), tag' = [tag EXCEPT ![w] = a],
         unused' = unused \ {w}, \A v \in Ways \ {w} : tag[v] # a
  PROVE  SignaturesMatch'
<1> SUFFICES ASSUME NEW v \in Ways \ unused', tag'[v] # NoAddr
             PROVE  signatures'[v] = addr_history'[tag'[v]].PC
  BY DEF SignaturesMatch
<1>1. /\ tag \in [Ways -> Addr \cup {NoAddr}] /\ signatures \in [Ways -> PC \cup {NoPC}]
      /\ addr_history \in [Addr -> [last_quanta : -1 .. MaxAccesses, PC : PC \cup {NoPC}]]
  BY DEF TypeOK
<1>2. /\ signatures' = [signatures EXCEPT ![w] = pc]
      /\ \E n : addr_history' = [addr_history EXCEPT ![a] = [last_quanta |-> n, PC |-> pc]]
  BY DEF HawkeyeUpdate
<1>3. CASE v = w
  BY <1>1, <1>2, <1>3
<1>4. CASE v # w
  <2>1. v \in Ways \ unused /\ tag'[v] = tag[v] /\ tag[v] \in Addr /\ tag[v] # a
    BY <1>1, <1>4
  <2>2. signatures'[v] = signatures[v] /\ addr_history'[tag[v]] = addr_history[tag[v]]
    BY <1>1, <1>2, <1>4, <2>1
  <2> QED
    BY <2>1, <2>2 DEF SignaturesMatch
<1> QED
  BY <1>3, <1>4
-----------------------------------------------------------------------------
(* The steps of the LLC. *)

LEMMA TouchedType ==
  ASSUME younger \in [Ways -> SUBSET Ways], NEW w \in Ways
  PROVE  Touched(w) \in [Ways -> SUBSET Ways]
BY DEF Touched

\* What a fill does to the tags, whichever way it takes.
LEMMA FillTags ==
  ASSUME TypeOK, OneTagPerBlock, NEW w \in Ways, NEW a \in Addr, a \notin Range(tag),
         tag' = [tag EXCEPT ![w] = a]
  PROVE  /\ tag' \in [Ways -> Addr \cup {NoAddr}] /\ OneTagPerBlock'
         /\ \A v \in Ways : tag[v] # a
<1>1. tag \in [Ways -> Addr \cup {NoAddr}]
  BY DEF TypeOK
<1>2. \A v \in Ways : tag[v] # a
  BY <1>1 DEF Range
<1> QED
  BY <1>1, <1>2 DEF OneTagPerBlock

LEMMA InitR == Init => RInv
<1> SUFFICES ASSUME Init PROVE RInv
  OBVIOUS
<1>1. /\ NumWay \in Nat \ {0} /\ LruWrap \in Nat /\ NumWay < LruWrap
      /\ MaxRRPV \in Nat /\ MaxShct \in Nat \ {0} /\ MaxAccesses \in Nat
      /\ Middle \in 0 .. MaxShct
  BY ReplacementSizes DEF Middle
<1>2. TypeOK
  <2>1. \A w \in Ways : w \in 0 .. LruWrap - 1
    BY <1>1 DEF Ways
  <2>2. lru \in [Ways -> 0 .. LruWrap - 1]
    BY <2>1 DEF Init
  <2>3. rrpv \in [Ways -> 0 .. MaxRRPV] /\ signatures \in [Ways -> PC \cup {NoPC}]
    BY <1>1 DEF Init
  <2>4. shct \in [PC -> 0 .. MaxShct]
    BY <1>1 DEF Init
  <2>5. addr_history \in [Addr -> [last_quanta : -1 .. MaxAccesses, PC : PC \cup {NoPC}]]
    <3>1. Never \in [last_quanta : -1 .. MaxAccesses, PC : PC \cup {NoPC}]
      BY <1>1 DEF Never
    <3> QED
      BY <3>1 DEF Init
  <2>6. liveness_history \in Seq(0 .. OptSize) /\ num_cache \in Nat
    BY EmptySeq DEF Init
  <2>7. policy \in Policies /\ current_assoc \in 1 .. NumWay
        /\ tag \in [Ways -> Addr \cup {NoAddr}]
    BY <1>1 DEF Init
  <2> QED
    BY <2>2, <2>3, <2>4, <2>5, <2>6, <2>7 DEF TypeOK
<1>3. \A w \in Ways : tag[w] = NoAddr /\ lru[w] = w /\ rrpv[w] = MaxRRPV
                      /\ younger[w] = {v \in Ways : v < w}
  BY DEF Init
<1>4. OneTagPerBlock /\ SignaturesMatch
  BY <1>3 DEF OneTagPerBlock, SignaturesMatch
<1>5. FriendlyLinesAge
  BY <1>1, <1>3 DEF FriendlyLinesAge
<1>6. Positions
  <2>1. lru \in [Ways -> Ways] /\ current_assoc = NumWay
    BY DEF Init
  <2> QED
    BY <1>3, <2>1 DEF Positions
<1>7. younger \in [Ways -> SUBSET Ways]
  BY DEF Init
<1> QED
  BY <1>2, <1>4, <1>5, <1>6, <1>7 DEF RInv

LEMMA HitInv ==
  ASSUME RInv, NEW w \in Ways, NEW pc \in PC, Hit(w, pc)
  PROVE  RInv'
<1>1. /\ tag[w] \in Addr /\ policy' = policy /\ current_assoc' = current_assoc
      /\ tag' = tag /\ resized' = resized /\ younger' = Touched(w)
      /\ unused' = unused \ {w}
  BY DEF Hit, RInv, TypeOK
<1>2. TypeOK /\ OneTagPerBlock /\ younger \in [Ways -> SUBSET Ways]
      /\ lru \in [Ways -> 0 .. LruWrap - 1]
  BY DEF RInv, TypeOK
<1>3. OneTagPerBlock' /\ younger' \in [Ways -> SUBSET Ways]
  BY <1>1, <1>2, TouchedType DEF OneTagPerBlock
<1>4. CASE policy = "lru" /\ lru' = LruUpdate(lru, w) /\ UNCHANGED hawkeye
  <2>1. lru' \in [Ways -> 0 .. LruWrap - 1]
    BY <1>2, <1>4, LruUpdateType
  <2>2. TypeOK'
    BY <1>1, <1>2, <1>4, <2>1 DEF TypeOK, hawkeye
  <2>3. ~resized => Positions'
    BY <1>1, <1>2, <1>4, UpdateMovesToFront DEF RInv
  <2> QED
    BY <1>1, <1>3, <1>4, <2>2, <2>3 DEF RInv
<1>5. CASE /\ policy = "hawkeye" /\ HawkeyeUpdate(shct, w, tag[w], pc, TRUE)
           /\ UNCHANGED lru
  <2>1. shct \in [PC -> 0 .. MaxShct]
    BY <1>2 DEF TypeOK
  <2>2. TypeOK'
    BY <1>1, <1>2, <1>5, <2>1, HawkeyeUpdateType DEF TypeOK
  <2>3. FriendlyLinesAge'
    BY <1>1, <1>2, <1>5, <2>1, HawkeyeAges DEF RInv
  <2>4. SignaturesMatch'
    <3>1. \A v \in Ways \ {w} : tag[v] # tag[w]
      BY <1>1, <1>2, ReplacementSizes DEF OneTagPerBlock
    <3>2. tag' = [tag EXCEPT ![w] = tag[w]]
      BY <1>1, <1>2 DEF TypeOK
    <3> QED
      BY <1>1, <1>2, <1>5, <3>1, <3>2, HawkeyeSignatures DEF RInv
  <2> QED
    BY <1>1, <1>3, <1>5, <2>2, <2>3, <2>4 DEF RInv
<1> QED
  BY <1>4, <1>5 DEF Hit

LEMMA FillInv ==
  ASSUME RInv, NEW a \in Addr, NEW pc \in PC, Fill(a, pc)
  PROVE  RInv'
<1>1. TypeOK /\ OneTagPerBlock /\ younger \in [Ways -> SUBSET Ways]
      /\ a \notin Range(tag) /\ policy' = policy /\ current_assoc' = current_assoc
      /\ resized' = resized
  BY DEF RInv, Fill
<1>2. CASE policy = "lru"
  <2> DEFINE w == LruVictim.way
  <2>1. /\ w \in Ways /\ LruVictim.lru \in [Ways -> 0 .. LruWrap - 1]
    BY <1>1, LruVictimFound
  <2>2. /\ lru' = LruUpdate(LruVictim.lru, w) /\ tag' = [tag EXCEPT ![w] = a]
        /\ younger' = Touched(w) /\ UNCHANGED hawkeye
    BY <1>2 DEF Fill
  <2> HIDE DEF w
  <2>3. OneTagPerBlock' /\ tag' \in [Ways -> Addr \cup {NoAddr}]
    BY <1>1, <2>1, <2>2, FillTags
  <2>4. lru' \in [Ways -> 0 .. LruWrap - 1]
    BY <1>1, <2>1, <2>2, LruUpdateType
  <2>5. TypeOK'
    BY <1>1, <2>2, <2>3, <2>4 DEF TypeOK, hawkeye
  <2>6. ~resized => Positions'
    <3>1. SUFFICES ASSUME ~resized PROVE Positions'
      OBVIOUS
    <3>2. Positions
      BY <1>2, <3>1 DEF RInv
    <3>3. LruVictim.lru = lru
      BY <1>1, <3>2, OldestSelected
    <3> QED
      BY <1>1, <2>1, <2>2, <3>2, <3>3, UpdateMovesToFront
  <2> QED
    BY <1>1, <1>2, <2>1, <2>2, <2>3, <2>5, <2>6, TouchedType DEF RInv
<1>3. CASE policy = "hawkeye"
  <2> DEFINE w == HawkeyeVictim.way
             s == HawkeyeVictim.shct
  <2>1. /\ w \in Ways /\ s \in [PC -> 0 .. MaxShct]
    BY <1>1, HawkeyeVictimFound
  <2>2. /\ HawkeyeUpdate(s, w, a, pc, FALSE) /\ tag' = [tag EXCEPT ![w] = a]
        /\ younger' = Touched(w) /\ unused' = unused \ {w} /\ lru' = lru
    BY <1>3 DEF Fill
  <2> HIDE DEF w, s
  <2>3. /\ OneTagPerBlock' /\ tag' \in [Ways -> Addr \cup {NoAddr}]
        /\ \A v \in Ways \ {w} : tag[v] # a
    BY <1>1, <2>1, <2>2, FillTags
  <2>4. TypeOK'
    BY <1>1, <2>1, <2>2, <2>3, HawkeyeUpdateType DEF TypeOK
  <2>5. FriendlyLinesAge'
    BY <1>1, <1>3, <2>1, <2>2, HawkeyeAges DEF RInv
  <2>6. SignaturesMatch'
    BY <1>1, <1>3, <2>1, <2>2, <2>3, HawkeyeSignatures DEF RInv
  <2> QED
    BY <1>1, <1>3, <2>1, <2>2, <2>3, <2>4, <2>5, <2>6, TouchedType DEF RInv
<1> QED
  BY <1>2, <1>3 DEF Fill

LEMMA WritebackFillInv ==
  ASSUME RInv, NEW a \in Addr, WritebackFill(a)
  PROVE  RInv'
<1>1. TypeOK /\ OneTagPerBlock /\ younger \in [Ways -> SUBSET Ways]
      /\ a \notin Range(tag) /\ policy' = policy /\ current_assoc' = current_assoc
      /\ resized' = resized
  BY DEF RInv, WritebackFill
<1>2. CASE policy = "lru"
  <2> DEFINE w == LruVictim.way
  <2>1. /\ w \in Ways /\ LruVictim.lru \in [Ways -> 0 .. LruWrap - 1]
    BY <1>1, LruVictimFound
  <2>2. /\ lru' = LruUpdate(LruVictim.lru, w) /\ tag' = [tag EXCEPT ![w] = a]
        /\ younger' = Touched(w) /\ UNCHANGED hawkeye
    BY <1>2 DEF WritebackFill
  <2> HIDE DEF w
  <2>3. OneTagPerBlock' /\ tag' \in [Ways -> Addr \cup {NoAddr}]
    BY <1>1, <2>1, <2>2, FillTags
  <2>4. lru' \in [Ways -> 0 .. LruWrap - 1]
    BY <1>1, <2>1, <2>2, LruUpdateType
  <2>5. TypeOK'
    BY <1>1, <2>2, <2>3, <2>4 DEF TypeOK, hawkeye
  <2>6. ~resized => Positions'
    <3>1. SUFFICES ASSUME ~resized PROVE Positions'
      OBVIOUS
    <3>2. Positions
      BY <1>2, <3>1 DEF RInv
    <3>3. LruVictim.lru = lru
      BY <1>1, <3>2, OldestSelected
    <3> QED
      BY <1>1, <2>1, <2>2, <3>2, <3>3, UpdateMovesToFront
  <2> QED
    BY <1>1, <1>2, <2>1, <2>2, <2>3, <2>5, <2>6, TouchedType DEF RInv
<1>3. CASE policy = "hawkeye"
  <2> DEFINE w == HawkeyeVictim.way
  <2>1. /\ w \in Ways /\ HawkeyeVictim.shct \in [PC -> 0 .. MaxShct]
    BY <1>1, HawkeyeVictimFound
  <2>2. /\ shct' = HawkeyeVictim.shct /\ tag' = [tag EXCEPT ![w] = a]
        /\ unused' = unused \cup {w}
        /\ UNCHANGED <<lru, younger, rrpv, signatures, addr_history,
                       liveness_history, num_cache>>
    BY <1>3 DEF WritebackFill
  <2> HIDE DEF w
  <2>3. OneTagPerBlock' /\ tag' \in [Ways -> Addr \cup {NoAddr}]
    BY <1>1, <2>1, <2>2, FillTags
  <2>4. TypeOK'
    BY <1>1, <2>1, <2>2, <2>3 DEF TypeOK
  <2>5. FriendlyLinesAge'
    BY <1>3, <2>2 DEF RInv, FriendlyLinesAge
  <2>6. SignaturesMatch'
    <3>1. \A v \in Ways \ unused' : v \in Ways \ unused /\ tag'[v] = tag[v]
      BY <1>1, <2>2 DEF TypeOK
    <3> QED
      BY <1>3, <2>2, <3>1 DEF RInv, SignaturesMatch
  <2> QED
    BY <1>1, <1>3, <2>2, <2>3, <2>4, <2>5, <2>6 DEF RInv
<1> QED
  BY <1>2, <1>3 DEF WritebackFill

LEMMA VictimNotReplacedInv ==
  ASSUME RInv, VictimNotReplaced
  PROVE  RInv'
<1>1. TypeOK /\ OneTagPerBlock /\ UNCHANGED <<policy, current_assoc, tag, younger, unused, resized>>
  BY DEF RInv, VictimNotReplaced
<1>2. OneTagPerBlock' /\ (younger \in [Ways -> SUBSET Ways])'
  BY <1>1 DEF OneTagPerBlock, RInv
<1>3. CASE policy = "lru" /\ lru' = LruVictim.lru /\ UNCHANGED hawkeye
  <2>1. TypeOK'
    BY <1>1, <1>3, LruVictimFound DEF TypeOK, hawkeye
  <2>2. ~resized => Positions'
    BY <1>1, <1>3, OldestSelected DEF RInv, Positions
  <2> QED
    BY <1>1, <1>2, <1>3, <2>1, <2>2 DEF RInv
<1>4. CASE /\ policy = "hawkeye" /\ shct' = HawkeyeVictim.shct
           /\ UNCHANGED <<lru, rrpv, signatures, addr_history, liveness_history, num_cache>>
  <2>1. TypeOK'
    BY <1>1, <1>4, HawkeyeVictimFound DEF TypeOK
  <2>2. FriendlyLinesAge' /\ SignaturesMatch'
    BY <1>1, <1>4 DEF RInv, FriendlyLinesAge, SignaturesMatch
  <2> QED
    BY <1>1, <1>2, <1>4, <2>1, <2>2 DEF RInv
<1> QED
  BY <1>3, <1>4 DEF VictimNotReplaced

LEMMA SetAssocInv ==
  ASSUME RInv, NEW n \in Assocs, SetAssoc(n)
  PROVE  RInv'
<1>1. n \in 1 .. NumWay
  BY ReplacementSizes
<1>2. TypeOK'
  BY <1>1 DEF RInv, SetAssoc, TypeOK, hawkeye
<1> QED
  BY <1>2 DEF RInv, SetAssoc, OneTagPerBlock

LEMMA NextR == RInv /\ [Next]_vars => RInv'
<1> SUFFICES ASSUME RInv, [Next]_vars PROVE RInv'
  OBVIOUS
<1>1. CASE UNCHANGED vars
  BY <1>1 DEF vars, hawkeye, RInv, TypeOK, OneTagPerBlock, Positions, FriendlyLinesAge,
              SignaturesMatch
<1> QED
  BY <1>1, HitInv, FillInv, WritebackFillInv, VictimNotReplacedInv, SetAssocInv DEF Next

LEMMA Invariance == Spec => []RInv
<1> QED
  BY InitR, NextR, PTL DEF Spec

\* Ages, counters and histories keep their types for any number of ways and any
\* partition, and under Hawkeye an older friendly line is never younger by its
\* RRPV and the signature of a way is the PC that last accessed its block.
THEOREM LinesCorrect == Spec => []LinesMatchHistory
<1>1. RInv => LinesMatchHistory
  BY DEF RInv, LinesMatchHistory
<1> QED
  BY <1>1, Invariance, PTL

\* lru_victim picks the block used longest ago, for any number of ways, while
\* the partition has not changed, although find_victim may have been called in
\* vain any number of times.
THEOREM LruCorrect == Spec => LruEvictsOldest
<1>1. ASSUME RInv, [Next]_vars, NEW w \in Ways,
             policy = "lru", ~resized, tag[w] # NoAddr, tag'[w] # tag[w]
      PROVE  younger[w] = Ways \ {w}
  <2>1. TypeOK /\ Positions
    BY <1>1 DEF RInv
  <2>2. tag' = [tag EXCEPT ![LruVictim.way] = tag'[LruVictim.way]]
        \/ tag' = tag
    BY <1>1, <2>1, LruVictimFound DEF Next, vars, Hit, Fill, WritebackFill,
         VictimNotReplaced, SetAssoc, TypeOK
  <2>3. w = LruVictim.way
    BY <1>1, <2>1, <2>2 DEF TypeOK
  <2> QED
    BY <1>1, <2>1, <2>3, OldestSelected
<1>2. RInv /\ [Next]_vars =>
        [\A w \in Ways :
           policy = "lru" /\ ~resized /\ tag[w] # NoAddr /\ tag'[w] # tag[w]
             => younger[w] = Ways \ {w}]_vars
  BY <1>1
<1> QED
  BY <1>2, Invariance, PTL DEF Spec, LruEvictsOldest
=============================================================================
