-------------------------- MODULE InOrderMachine --------------------------
(* What an out-of-order core must look like from outside: the instructions *)
(* of the trace take effect one at a time, in program order.  A value is   *)
(* named by the number of the instruction that stored it, 0 at the start.  *)
EXTENDS Naturals, Sequences

CONSTANTS Addr, Programs

VARIABLES program, memory, seen
  \* seen[n] holds what the loads of the n-th instruction read

vars == <<program, memory, seen>>

Init ==
  /\ program \in Programs
  /\ memory = [a \in Addr |-> 0]
  /\ seen = <<>>

Execute ==
  /\ Len(seen) < Len(program)
  /\ LET id == Len(seen) + 1
         op == program[id]
     IN /\ seen' = Append(seen, [j \in DOMAIN op.loads |-> memory[op.loads[j]]])
        /\ memory' = [a \in Addr |->
             IF \E k \in DOMAIN op.stores : op.stores[k] = a THEN id ELSE memory[a]]
  /\ UNCHANGED program

Spec == Init /\ [][Execute]_vars
=============================================================================
