------------------------------ MODULE IndexSet ------------------------------
(* What the users of fastset rely on: each one is a finite set of indices.  *)
CONSTANTS Ids, Elems
VARIABLE contents

Clear(s) == contents' = [contents EXCEPT ![s] = {}]
Copy(s, o) == contents' = [contents EXCEPT ![s] = contents[o]]
Insert(s, x) == contents' = [contents EXCEPT ![s] = @ \cup {x}]
Join(s, o) == contents' = [contents EXCEPT ![s] = @ \cup contents[o]]

Init == contents = [s \in Ids |-> {}]
Next == \E s, o \in Ids :
  Clear(s) \/ Copy(s, o) \/ Join(s, o) \/ \E x \in Elems : Insert(s, x)
Spec == Init /\ [][Next]_contents
=============================================================================
