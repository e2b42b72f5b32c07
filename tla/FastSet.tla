------------------------------ MODULE FastSet -------------------------------
(* class fastset of src/inc/set.h: a set of indices, kept as a sorted array *)
(* while it is small and as a vector of bits from SMALL_SIZE elements on.   *)
(* The array and the bits share their memory (a union), and card says which *)
(* of the two is there: it stays at SMALL_SIZE once the bits are.           *)
EXTENDS Integers, Sequences, SequencesExt

CONSTANTS
  Ids,           \* the fastsets: the dependence sets of packets and ROB entries
  N,             \* the n of join and expand: elements are below it
  SMALL_SIZE, SMALLER_SIZE,
  WordBits       \* bits of a word, 64

Elems == 0..N - 1

ASSUME FastSetAssumption ==
  /\ N \in Nat \ {0} /\ WordBits \in Nat \ {0}
  /\ SMALLER_SIZE \in Nat /\ SMALL_SIZE \in Nat /\ 1 < SMALL_SIZE

VARIABLE set       \* the state of each fastset: card, and the union's content

\* values is empty once the bits have taken its place, and bits before.
FastSetType == [card : 0..SMALL_SIZE, values : Seq(Elems), bits : SUBSET Elems]
Empty == [card |-> 0, values |-> <<>>, bits |-> {}]

Small(f) == f.card < SMALL_SIZE

\* Mutant of InsertSmall: an element that is there is inserted again.
InsertSmall_Again(f, x) ==
  LET before == SelectSeq(f.values, LAMBDA y : y < x)
  IN [f EXCEPT !.values = InsertAt(@, Len(before) + 1, x), !.card = @ + 1]

\* insert_small: in front of the first greater value, the others moved up.
InsertSmall(f, x) ==
  LET before == SelectSeq(f.values, LAMBDA y : y < x)
  IN IF \E i \in DOMAIN f.values : f.values[i] = x THEN f
     ELSE [f EXCEPT !.values = InsertAt(@, Len(before) + 1, x), !.card = @ + 1]

\* smalltobit: the values move to the bits by way of a copy.
SmallToBit(f) == [f EXCEPT !.values = <<>>, !.bits = ToSet(f.values)]

\* Mutant of Settled: the array is left one element too late.
Settled_Late(f) == f
Settled(f) == IF f.card = SMALL_SIZE THEN SmallToBit(f) ELSE f

\* Mutant of Inserted: the empty set is not told apart, nor the array kept sorted.
Inserted_Unsorted(f, x) ==
  IF ~Small(f) THEN [f EXCEPT !.bits = @ \cup {x}]
  ELSE IF x \in ToSet(f.values) THEN f
  ELSE Settled([f EXCEPT !.values = <<x>> \o @, !.card = @ + 1])

\* fastset::insert
Inserted(f, x) ==
  IF f.card = 0 THEN [f EXCEPT !.values = <<x>>, !.card = 1]
  ELSE IF Small(f) THEN Settled(InsertSmall(f, x))
  ELSE [f EXCEPT !.bits = @ \cup {x}]

\* join ORs the words up to the one that holds bit n.
\* Mutant of Words: the last word is left out.
Words_Truncated == N \div WordBits
Words == N \div WordBits + 1

\* fastset::join
Joined(f, g) ==
  IF Small(g) THEN FoldLeft(Inserted, f, g.values)
  ELSE LET big == IF Small(f) THEN [SmallToBit(f) EXCEPT !.card = SMALL_SIZE] ELSE f
       IN [big EXCEPT !.bits = @ \cup {b \in g.bits : b \div WordBits < Words}]
-----------------------------------------------------------------------------
\* search_small_linear: stop at the first value that is not smaller.
SearchLinear(f, x) ==
  \E i \in DOMAIN f.values :
    f.values[i] = x /\ \A j \in 1..i - 1 : f.values[j] < x

\* The binary search of search_small, between positions begin and end.
SearchBinary(f, x) ==
  LET at[begin \in 0..f.card, end \in -1..f.card - 1] ==
        LET middle == (begin + end) \div 2
            y == f.values[middle + 1]
        IN IF end < begin THEN FALSE
           ELSE IF x < y THEN at[begin, middle - 1]
           ELSE IF x > y THEN at[middle + 1, end]
           ELSE TRUE
  IN at[0, f.card - 1]

\* fastset::search
Search(f, x) ==
  IF f.card = 0 THEN FALSE
  ELSE IF f.card = 1 THEN f.values[1] = x
  ELSE IF ~Small(f) THEN x \in f.bits
  ELSE IF f.card < SMALLER_SIZE THEN SearchLinear(f, x)
  ELSE SearchBinary(f, x)

\* fastset::expand: the array as it is, or the bits below n in order.
Expand(f) ==
  IF Small(f) THEN f.values
  ELSE SetToSortSeq({b \in f.bits : b < N}, <)
-----------------------------------------------------------------------------
Insert(s, x) == set' = [set EXCEPT ![s] = Inserted(@, x)]

Join(s, o) == set' = [set EXCEPT ![s] = Joined(@, set[o])]

\* A packet is cleared (remove_queue) or copied (add_queue, add_mshr) whole.
Clear(s) == set' = [set EXCEPT ![s] = Empty]
Copy(s, o) == set' = [set EXCEPT ![s] = set[o]]

Init == set = [s \in Ids |-> Empty]

Next == \E s \in Ids :
  \/ \E x \in Elems : Insert(s, x)
  \/ \E o \in Ids : Join(s, o)
  \/ \E o \in Ids : Copy(s, o)
  \/ Clear(s)

Spec == Init /\ [][Next]_set
-----------------------------------------------------------------------------
\* Types; only one of the two representations is in use, and the array never
\* grows past the union it shares with the bits.
TypeOK ==
  \A s \in Ids :
    /\ set[s] \in FastSetType
    /\ IF Small(set[s]) THEN Len(set[s].values) = set[s].card /\ set[s].bits = {}
       ELSE set[s].values = <<>>

Contents(f) == ToSet(f.values) \cup f.bits

\* Every representation and search (linear, binary, by bit) finds exactly the
\* elements that were inserted or joined.
SearchIsExact ==
  \A s \in Ids, x \in Elems : Search(set[s], x) <=> x \in Contents(set[s])

\* ITERATE_SET visits every element once.
ExpandIsExact ==
  \A s \in Ids : LET e == Expand(set[s]) IN
    /\ ToSet(e) = Contents(set[s])
    /\ \A i \in 1..Len(e) - 1 : e[i] < e[i + 1]

\* What a reader of a set sees, through search or ITERATE_SET, is what was put in,
\* on both sides of every change of representation: a consumer of a merged packet
\* is found, and woken once, whatever the order of insertion.
ReadsAreExact == TypeOK /\ SearchIsExact /\ ExpandIsExact

\* A fastset is a set: no representation change loses or invents an element.
Abstract == INSTANCE IndexSet WITH contents <- [s \in Ids |-> Contents(set[s])]
Implements == Abstract!Spec
=============================================================================
