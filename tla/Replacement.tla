---------------------------- MODULE Replacement ----------------------------
(* One set of the LLC under the replacement policy built in: LRU of        *)
(* base_replacement.cc, whose share of the ways a prefetcher may change    *)
(* (current_assoc), or hawkeye_simple.llc_repl with its OPTgen and its     *)
(* predictor.  The cache calls find_victim and update_replacement_state.   *)
EXTENDS Integers, Sequences, FiniteSets, FiniteSetsExt, Functions

CONSTANTS
  Addr, NoAddr,   \* the blocks that map to the set
  PC, NoPC,       \* program counters; each has its own predictor entry
  Policies,       \* the llc_repl files to build
  NumWay, Assocs, \* LLC_WAY, the values current_assoc is given
  LruWrap,        \* block.lru counts modulo this (2^32)
  MaxRRPV, MaxShct, OptSize,  \* maxRRPV, MAX_SHCT, LLC_WAYS-2
  MaxAccesses     \* bound on the timer of the set

ASSUME ReplacementSizes ==
  /\ Policies \subseteq {"lru", "hawkeye"}
  /\ NumWay \in Nat \ {0} /\ Assocs \subseteq 1 .. NumWay
  /\ LruWrap \in Nat /\ LruWrap > NumWay
  /\ MaxRRPV \in Nat /\ MaxRRPV > 1 /\ MaxShct \in Nat \ {0} /\ OptSize \in Nat
  /\ MaxAccesses \in Nat
  /\ NoAddr \notin Addr /\ NoPC \notin PC

VARIABLES
  policy, current_assoc,
  tag,                \* the block in each way
  lru,                \* block.lru
  rrpv, signatures,   \* Hawkeye: of each way
  shct,               \* Hawkeye: the predictor
  addr_history,       \* Hawkeye: last quantum and PC of each block
  liveness_history, num_cache,   \* OPTgen: occupancy of each quantum, hits
  younger,            \* history: of each way, the ways updated after it
  unused,             \* history: ways written back to and not accessed since
  resized,            \* history: current_assoc has changed
  best                \* history: what an optimal cache could have had

hawkeye == <<rrpv, signatures, shct, addr_history, liveness_history, num_cache, best>>
vars == <<policy, current_assoc, tag, lru, hawkeye, younger, unused, resized>>

Ways == 0 .. NumWay - 1
Partition == 0 .. current_assoc - 1
Middle == (MaxShct + 1) \div 2   \* a counter's first value, and the threshold
Never == [last_quanta |-> -1, PC |-> NoPC]

Opt == INSTANCE OptimalCache

Init ==
  /\ policy \in Policies
  /\ current_assoc = NumWay
  /\ tag = [w \in Ways |-> NoAddr]
  /\ lru = [w \in Ways |-> w]
  /\ rrpv = [w \in Ways |-> MaxRRPV] /\ signatures = [w \in Ways |-> NoPC]
  /\ shct = [pc \in PC |-> Middle]
  /\ addr_history = [a \in Addr |-> Never]
  /\ liveness_history = <<>> /\ num_cache = 0
  /\ younger = [w \in Ways |-> {v \in Ways : v < w}]
  /\ unused = {}
  /\ resized = FALSE
  /\ best = Opt!NoHits

-----------------------------------------------------------------------------
(* LRU.                                                                      *)

(* lru_victim: the first invalid way; else the first way in the last         *)
(* position, all positions being raised until there is one.                  *)
LruVictim ==
  LET empty == {w \in Partition : tag[w] = NoAddr}
      rounds == Min({(current_assoc - 1 - lru[w]) % LruWrap : w \in Partition})
      raised == [w \in Ways |->
        IF w \in Partition THEN (lru[w] + rounds) % LruWrap ELSE lru[w]]
  IN IF empty # {} THEN [way |-> Min(empty), lru |-> lru]
     ELSE [way |-> Min({w \in Partition : raised[w] = current_assoc - 1}),
           lru |-> raised]

\* Mutant of LruUpdate: every other way of the partition ages.
LruUpdate_All(l, w) ==
  [i \in Ways |-> CASE i = w -> 0
                    [] i # w /\ i \in Partition -> (l[i] + 1) % LruWrap
                    [] OTHER -> l[i]]

(* lru_update: w becomes the most recent, those that were younger age.       *)
LruUpdate(l, w) ==
  [i \in Ways |-> CASE i = w -> 0
                    [] i # w /\ i \in Partition /\ l[i] < l[w] -> l[i] + 1
                    [] OTHER -> l[i]]

-----------------------------------------------------------------------------
(* Hawkeye.                                                                  *)

Increment(s, pc) == [s EXCEPT ![pc] = IF @ < MaxShct THEN @ + 1 ELSE MaxShct]
Decrement(s, pc) == [s EXCEPT ![pc] = IF @ # 0 THEN @ - 1 ELSE 0]

(* llc_find_victim: the first cache-averse line, else the oldest friendly    *)
(* one, whose PC is trained negatively.                                      *)
HawkeyeVictim ==
  LET averse == {w \in Ways : rrpv[w] = MaxRRPV}
      oldest == Max({w \in Ways : \A v \in Ways : rrpv[v] <= rrpv[w]})
  IN IF averse # {} THEN [way |-> Min(averse), shct |-> shct]
     ELSE [way |-> oldest, shct |-> Decrement(shct, signatures[oldest])]

\* Mutant of ShouldCache: one interval too many fits.
ShouldCache_Loose(last) ==
  \A i \in last + 1 .. Len(liveness_history) : liveness_history[i] <= OptSize

(* OPTgen::should_cache: from the last use of the block to now there was     *)
(* room for it.  Quantum i is element i + 1.                                 *)
ShouldCache(last) ==
  \A i \in last + 1 .. Len(liveness_history) : liveness_history[i] < OptSize

\* Mutant of Promoted: a hit does not make the line young.
Promoted_FillOnly(w, hit) ==
  LET saturated == \E v \in Ways \ {w} : rrpv[v] = MaxRRPV - 1
      aged(v) == IF ~hit /\ ~saturated /\ rrpv[v] < MaxRRPV - 1
                 THEN rrpv[v] + 1 ELSE rrpv[v]
  IN [v \in Ways |-> IF v = w /\ ~hit THEN 0 ELSE aged(v)]

(* The end of llc_update_replacement_state for a friendly line: it is young, *)
(* and a fill ages the other friendly lines unless one is as old as can be.  *)
Promoted(w, hit) ==
  LET saturated == \E v \in Ways \ {w} : rrpv[v] = MaxRRPV - 1
      aged(v) == IF ~hit /\ ~saturated /\ rrpv[v] < MaxRRPV - 1
                 THEN rrpv[v] + 1 ELSE rrpv[v]
  IN [v \in Ways |-> IF v = w THEN 0 ELSE aged(v)]

(* llc_update_replacement_state for an access to a in way w, with OPTgen's   *)
(* should_cache and add_access.  s is the predictor after find_victim.       *)
HawkeyeUpdate(s, w, a, pc, hit) ==
  LET prior == addr_history[a]
      cached == prior # Never /\ ShouldCache(prior.last_quanta)
      trained == CASE prior = Never -> s
                   [] cached -> Increment(s, prior.PC)
                   [] prior # Never /\ ~cached -> Decrement(s, prior.PC)
      now == Len(liveness_history)
  IN /\ now < MaxAccesses
     /\ shct' = trained
     /\ liveness_history' = Append([i \in 1 .. now |->
          IF cached /\ i > prior.last_quanta THEN liveness_history[i] + 1
          ELSE liveness_history[i]], 0)
     /\ num_cache' = num_cache + IF cached THEN 1 ELSE 0
     /\ addr_history' = [addr_history EXCEPT ![a] = [last_quanta |-> now, PC |-> pc]]
     /\ signatures' = [signatures EXCEPT ![w] = pc]
     /\ rrpv' = IF trained[pc] >= Middle THEN Promoted(w, hit)
                ELSE [rrpv EXCEPT ![w] = MaxRRPV]
     /\ best' = Opt!Serve(best, a)

-----------------------------------------------------------------------------
(* What the LLC does with the set.                                           *)

Touched(w) == [v \in Ways |-> IF v = w THEN {} ELSE younger[v] \cup {w}]

(* A demand or a prefetch hits in way w.                                     *)
Hit(w, pc) ==
  /\ tag[w] # NoAddr
  /\ \/ policy = "lru" /\ lru' = LruUpdate(lru, w) /\ UNCHANGED hawkeye
     \/ policy = "hawkeye" /\ HawkeyeUpdate(shct, w, tag[w], pc, TRUE) /\ UNCHANGED lru
  /\ younger' = Touched(w)
  /\ unused' = unused \ {w}
  /\ UNCHANGED <<policy, current_assoc, tag, resized>>

(* handle_fill: a block that is not in the set (OneCopyUnlessPrefetched of   *)
(* CacheHierarchy names the exception) comes from memory for the access of   *)
(* pc.  A write-back that hits changes nothing here.                         *)
Fill(a, pc) ==
  /\ a \notin Range(tag)
  /\ \/ /\ policy = "lru"
        /\ lru' = LruUpdate(LruVictim.lru, LruVictim.way)
        /\ tag' = [tag EXCEPT ![LruVictim.way] = a]
        /\ younger' = Touched(LruVictim.way)
        /\ unused' = unused \ {LruVictim.way}
        /\ UNCHANGED hawkeye
     \/ /\ policy = "hawkeye"
        /\ HawkeyeUpdate(HawkeyeVictim.shct, HawkeyeVictim.way, a, pc, FALSE)
        /\ tag' = [tag EXCEPT ![HawkeyeVictim.way] = a]
        /\ younger' = Touched(HawkeyeVictim.way)
        /\ unused' = unused \ {HawkeyeVictim.way}
        /\ UNCHANGED lru
  /\ UNCHANGED <<policy, current_assoc, resized>>

(* handle_writeback allocates a block: Hawkeye ignores write-backs, so the   *)
(* way keeps the age and the signature of the block it held.                 *)
WritebackFill(a) ==
  /\ a \notin Range(tag)
  /\ \/ /\ policy = "lru"
        /\ lru' = LruUpdate(LruVictim.lru, LruVictim.way)
        /\ tag' = [tag EXCEPT ![LruVictim.way] = a]
        /\ younger' = Touched(LruVictim.way)
        /\ unused' = unused \cup {LruVictim.way}
        /\ UNCHANGED hawkeye
     \/ /\ policy = "hawkeye"
        /\ shct' = HawkeyeVictim.shct
        /\ tag' = [tag EXCEPT ![HawkeyeVictim.way] = a]
        /\ unused' = unused \cup {HawkeyeVictim.way}
        /\ UNCHANGED <<lru, younger, rrpv, signatures, addr_history,
                       liveness_history, num_cache, best>>
  /\ UNCHANGED <<policy, current_assoc, resized>>

(* A fill finds its victim dirty and the lower write queue full, or is of    *)
(* metadata, which bypasses the set: find_victim has been called and nothing *)
(* else.  A stalled fill calls it again in every cycle.                      *)
VictimNotReplaced ==
  /\ \/ policy = "lru" /\ lru' = LruVictim.lru /\ UNCHANGED hawkeye
     \/ /\ policy = "hawkeye" /\ shct' = HawkeyeVictim.shct
        /\ UNCHANGED <<lru, rrpv, signatures, addr_history, liveness_history,
                       num_cache, best>>
  /\ UNCHANGED <<policy, current_assoc, tag, younger, unused, resized>>

(* An on-chip prefetcher takes ways for its metadata or gives them back.     *)
(* (Hawkeye does not look at current_assoc.)                                 *)
SetAssoc(n) ==
  /\ policy = "lru"
  /\ n # current_assoc
  /\ current_assoc' = n
  /\ resized' = TRUE
  /\ UNCHANGED <<policy, tag, lru, hawkeye, younger, unused>>

Next ==
  \/ \E w \in Ways, pc \in PC : Hit(w, pc)
  \/ \E a \in Addr, pc \in PC : Fill(a, pc)
  \/ \E a \in Addr : WritebackFill(a)
  \/ VictimNotReplaced
  \/ \E n \in Assocs : SetAssoc(n)

Spec == Init /\ [][Next]_vars

-----------------------------------------------------------------------------
TypeOK ==
  /\ policy \in Policies /\ current_assoc \in 1 .. NumWay
  /\ tag \in [Ways -> Addr \cup {NoAddr}]
  /\ lru \in [Ways -> 0 .. LruWrap - 1]
  /\ rrpv \in [Ways -> 0 .. MaxRRPV] /\ signatures \in [Ways -> PC \cup {NoPC}]
  /\ shct \in [PC -> 0 .. MaxShct]
  /\ addr_history \in [Addr -> [last_quanta : -1 .. MaxAccesses, PC : PC \cup {NoPC}]]
  /\ liveness_history \in Seq(0 .. OptSize) /\ num_cache \in Nat

(* "LRU victim" of lru_victim: while the partition has not changed, the      *)
(* block that leaves the set is the one used longest ago, write-back hits    *)
(* not counted, although find_victim may have been called before in vain.    *)
LruEvictsOldest ==
  [][\A w \in Ways :
       policy = "lru" /\ ~resized /\ tag[w] # NoAddr /\ tag'[w] # tag[w]
         => younger[w] = Ways \ {w}]_vars

(* OPTgen promises what Belady's optimal policy would do: its hits are as    *)
(* many as any schedule of a cache of its size could have had.               *)
OptgenIsOptimal == num_cache = Opt!Hits(best)

(* Hawkeye's lines agree with the history of the accesses: an older friendly *)
(* line is never younger by its RRPV, and the signature of a way is the PC   *)
(* that last accessed its block, unless a write-back put the block there.    *)
FriendlyLinesAge ==
  \A old \in Ways : \A young \in younger[old] :
    rrpv[old] < MaxRRPV /\ rrpv[young] < MaxRRPV => rrpv[young] <= rrpv[old]
SignaturesMatch ==
  \A w \in Ways \ unused : tag[w] # NoAddr => signatures[w] = addr_history[tag[w]].PC

LinesMatchHistory ==
  /\ TypeOK
  /\ policy = "hawkeye" => FriendlyLinesAge /\ SignaturesMatch
=============================================================================
