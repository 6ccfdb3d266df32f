----------------------------- MODULE MCSysvSem -----------------------------
(* Small tables of semaphore sets for TLC.                                    *)
EXTENDS SysvSem, TLC

P(n) == [num |-> n, op |-> -1]
V(n) == [num |-> n, op |-> 1]
Z(n) == [num |-> n, op |-> 0]

(* Put, put while another is zero, two takes of one semaphore, a wait for zero*)
(* after a put, and one past the set.  The third takes more than may be there,*)
(* and the fourth goes on after its own put: semop(2) would refuse both.      *)
Mixed ==
    {<<V(0)>>, <<Z(0), V(1)>>, <<P(0), P(0)>>, <<P(1), V(0), Z(0)>>, <<P(0), V(Nsems)>>}

(* The simplest lock.                                                         *)
TakeAndPut == {<<P(0)>>, <<V(0)>>}

Symmetry == Permutations(Threads)

(* The number of units and of calls has no bound of its own.                  *)
MaxNet == 1
MinNet == -2
NetBounded == \A s \in Entries, n \in Nums : net[s][n] \in MinNet .. MaxNet
=============================================================================
