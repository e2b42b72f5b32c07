------------------------------- MODULE MCCore -------------------------------
(* Traces for OutOfOrderCore.                                               *)
EXTENDS OutOfOrderCore

Alu(src, dst) == [src |-> src, dst |-> dst, loads |-> <<>>, stores |-> <<>>, branch |-> FALSE]
Branch(src) == [Alu(src, {}) EXCEPT !.branch = TRUE]
Load(src, dst, loads) == [Alu(src, dst) EXCEPT !.loads = loads]
Store(src, stores) == [Alu(src, {}) EXCEPT !.stores = stores]
Update(loads, stores) == [Load(<<>>, {}, loads) EXCEPT !.stores = stores]

Addresses == {"x", "y"}
Registers == {"r", "s"}

Forward == <<Store(<<>>, <<"x">>), Load(<<>>, {}, <<"x", "y">>), Store(<<>>, <<"x">>),
             Load(<<>>, {}, <<"x">>)>>
Anti == <<Load(<<>>, {"r"}, <<"y">>), Load(<<"r">>, {}, <<"x">>), Store(<<>>, <<"x">>),
          Load(<<>>, {}, <<"x">>)>>
Chain == <<Load(<<>>, {"r"}, <<"x">>), Alu(<<"r", "r">>, {"s"}), Branch(<<"s">>),
           Store(<<"s">>, <<"x">>), Load(<<>>, {}, <<"x">>)>>
Pair == <<Update(<<"x">>, <<"x", "y">>), Load(<<>>, {}, <<"y", "x">>), Update(<<"y">>, <<"y">>)>>
Rename == <<Alu(<<>>, {"r"}), Alu(<<"r">>, {"r"}), Alu(<<"r">>, {"s"}), Branch(<<"r", "s">>),
            Store(<<"s">>, <<"x">>)>>
Spill == <<Store(<<>>, <<"x">>), Load(<<>>, {"r"}, <<"x">>), Alu(<<"r">>, {"r"}),
           Store(<<"r">>, <<"x">>), Load(<<>>, {"r"}, <<"x">>), Load(<<"r">>, {}, <<"y">>)>>
(* Crossed traces: the older store finds a load that reads one of its two    *)
(* addresses from the younger store.                                         *)
CrossY == <<Store(<<>>, <<"x", "y">>), Store(<<>>, <<"y">>), Load(<<>>, {}, <<"x", "y">>)>>
CrossX == <<Store(<<>>, <<"x", "y">>), Store(<<>>, <<"x">>), Load(<<>>, {}, <<"y", "x">>),
            Load(<<>>, {}, <<"x">>)>>
Long == {Forward, Anti, Chain, Pair, Rename, Spill, CrossY, CrossX}

(* Every trace of three of these instructions.                               *)
Kinds == {Store(<<>>, <<"x">>), Store(<<"r">>, <<"x">>), Load(<<>>, {"r"}, <<"x">>),
          Load(<<"r">>, {}, <<"x", "y">>), Alu(<<"r">>, {"r"})}
Short == [1 .. 3 -> Kinds]
Traces == Long \cup Short

(* Loads that wait for a store fill the load queue; the store may not enter  *)
(* the store queue before one whose operand needs a load.                    *)
Blocked == {<<Load(<<>>, {"r"}, <<"y">>), Alu(<<"r">>, {"r"}), Load(<<"r">>, {"s"}, <<"y">>),
              Store(<<"s">>, <<"y">>), Store(<<>>, <<"x">>), Load(<<>>, {}, <<"x">>)>>}
=============================================================================
