---------------------------- MODULE MCHierarchy ----------------------------
(* Instances of CacheHierarchy for TLC: the hierarchies main.cc wires, with *)
(* small queues that keep the size relations of cache.h (RQ of a level at   *)
(* least the sum of the MSHRs above it).                                    *)
EXTENDS CacheHierarchy

OneCpu == {0}
TwoCpus == {0, 1}
DataPort == <<0, FALSE>>
InstrPort == <<0, TRUE>>

All(S, x) == [c \in S |-> x]

(* One core, data side only: L1D - L2C - LLC - DRAM. *)
DataCaches == {"L1D", "L2C", "LLC"}
DataKind == [c \in DataCaches |-> c]
DataLower == [L1D |-> "L2C", L2C |-> "LLC", LLC |-> "DRAM"]
DataPortOf == All(DataCaches, DataPort)
DataUpper == [c \in DataCaches \cup {"DRAM"} |-> All(OneCpu \X BOOLEAN,
  CASE c \in {"L1D", "L2C"} -> "L1D" [] c = "LLC" -> "L2C" [] OTHER -> "LLC")]
DataLevel == [L1D |-> 1, L2C |-> 2, LLC |-> 4]
DataOne == All(DataCaches, 1)
DataL2Way2 == [L1D |-> 1, L2C |-> 2, LLC |-> 1]
DataMshr == [L1D |-> 2, L2C |-> 1, LLC |-> 1]
DataRq == [L1D |-> 1, L2C |-> 2, LLC |-> 1]

(* One core, both first levels: L1I and L1D - L2C - LLC - DRAM. *)
SplitCaches == {"L1I", "L1D", "L2C", "LLC"}
SplitKind == [c \in SplitCaches |-> c]
SplitLower == [L1I |-> "L2C", L1D |-> "L2C", L2C |-> "LLC", LLC |-> "DRAM"]
SplitPortOf == [c \in SplitCaches |-> IF c = "L1I" THEN InstrPort ELSE DataPort]
SplitUpper == [c \in SplitCaches \cup {"DRAM"} |-> [p \in OneCpu \X BOOLEAN |->
  CASE c = "LLC" -> "L2C" [] c = "DRAM" -> "LLC"
    [] OTHER -> IF p = InstrPort THEN "L1I" ELSE "L1D"]]
SplitLevel == [L1I |-> 1, L1D |-> 1, L2C |-> 2, LLC |-> 4]
SplitOne == All(SplitCaches, 1)
SplitRq == [L1I |-> 1, L1D |-> 1, L2C |-> 2, LLC |-> 1]

(* One core's data side whole: the same with DTLB - STLB - page walk. *)
PageCaches == DataCaches \cup {"DTLB", "STLB"}
PageKind == [c \in PageCaches |-> c]
PageLower == [c \in PageCaches |->
  CASE c = "DTLB" -> "STLB" [] c = "STLB" -> "NULL" [] OTHER -> DataLower[c]]
PagePortOf == All(PageCaches, DataPort)
PageUpper == [c \in PageCaches \cup {"DRAM"} |->
  IF c \in {"DTLB", "STLB"} THEN All(OneCpu \X BOOLEAN, "DTLB") ELSE DataUpper[c]]
PageLevel == [c \in PageCaches |->
  CASE c = "STLB" -> 2 [] c = "DTLB" -> 1 [] OTHER -> DataLevel[c]]
PageOne == All(PageCaches, 1)
PageMshr == [PageOne EXCEPT !["L1D"] = 2]
PageRq == [c \in PageCaches |-> IF c \in {"L2C", "STLB"} THEN 2 ELSE 1]

(* Two cores, one LLC: core 0 loads and stores, core 1 fetches; the L1D of  *)
(* core 1 is there to be told, wrongly, of a fetch.                         *)
TwinCaches == {"L1D0", "L1I1", "L1D1", "L2C0", "L2C1", "LLC"}
TwinKind == [L1D0 |-> "L1D", L1I1 |-> "L1I", L1D1 |-> "L1D",
             L2C0 |-> "L2C", L2C1 |-> "L2C", LLC |-> "LLC"]
TwinLower == [L1D0 |-> "L2C0", L1I1 |-> "L2C1", L1D1 |-> "L2C1",
              L2C0 |-> "LLC", L2C1 |-> "LLC", LLC |-> "DRAM"]
TwinPortOf == [c \in TwinCaches |->
  <<IF c \in {"L1I1", "L1D1", "L2C1"} THEN 1 ELSE 0, c = "L1I1">>]
TwinUpper == [c \in TwinCaches \cup {"DRAM"} |-> [p \in TwoCpus \X BOOLEAN |->
  CASE c = "DRAM" -> "LLC"
    [] c = "LLC" -> IF p[1] = 0 THEN "L2C0" ELSE "L2C1"
    [] OTHER -> IF p[1] = 0 THEN "L1D0" ELSE IF p[2] THEN "L1I1" ELSE "L1D1"]]
TwinLevel == [L1D0 |-> 1, L1I1 |-> 1, L1D1 |-> 1, L2C0 |-> 2, L2C1 |-> 2, LLC |-> 4]
TwinOne == All(TwinCaches, 1)
TwinRq == [c \in TwinCaches |-> IF c \in {"L2C1", "LLC"} THEN 2 ELSE 1]

(* Inputs.  Blocks a and b hold data or code.  The two cores use            *)
(* disjoint blocks: that is what PageTable's CoresShareNoFrame provides.     *)
Load(c, a) == [cache |-> c, addr |-> a, type |-> "LOAD"]
Rfo(c, a) == [cache |-> c, addr |-> a, type |-> "RFO"]
Store(c, a) == [cache |-> c, addr |-> a]
Pref(c, a, l) == [cache |-> c, addr |-> a, fl |-> l]

OneBlock == {"a"}
TwoBlocks == {"a", "b"}
ThreeBlocks == {"a", "b", "c"}
None == {}
CopyDemands == {Load("L1D", a) : a \in ThreeBlocks}
OneStore == {Store("L1D", "a")}
OvertakenPrefetches == {Pref("L2C", "a", 2)}
L2CPrefetches == {Pref("L1D", "b", 2)}
PageDemands == {Rfo("DTLB", "a"), Load("L1D", "a"), Load("L1D", "b")}
SharedDemands == {Load("L1I", "a"), Load("L1D", "a")}
TwinDemands == {Load("L1D0", "a"), Load("L1I1", "b")}
TwinPrefetches == {Pref("L1D0", "a", 2), Pref("L2C1", "b", 2)}
TwinStores == {Store("L1D0", "a")}
=============================================================================
