------------------------------- MODULE MCLocal -------------------------------
(* Instances of Local for TLC: threads 1 and 2 of one process, and process 3 *)
EXTENDS Local, TLC

Grouping == [p \in Pids |-> IF p = 2 THEN 1 ELSE p]

\* connections overlap only between processes
Processes == {pq \in Pids \X Pids : Grouping[pq[1]] # Grouping[pq[2]]}
\* a thread does not wait for its own connections either
Pipelined == Processes \cup {<<p, p>> : p \in Pids}
Anything == Pids \X Pids

ConnSymmetry == Permutations(Conns)

=============================================================================
