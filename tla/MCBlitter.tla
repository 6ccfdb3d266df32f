----------------------------- MODULE MCBlitter -----------------------------
(* Small instances of the block allocator for TLC.                            *)
EXTENDS Blitter, TLC

Symmetry == Permutations(Threads)

(* An empty table, or one that adopted the blocks of inherited descriptors.   *)
MCInit ==
    /\ Init
    /\ \/ free = Blocks
       \/ PtrCount = 1 /\ free = Blocks \ {0}

MCSpec == MCInit /\ [][Next]_vars
MCFairSpec == MCSpec /\ \A t \in Threads : WF_vars(Work(t))

(* possess lets a block have two holders, who both release it: the counters   *)
(* then drift without limit, and are followed up to this bound.               *)
DriftBound == avail <= BlockCount + 1
=============================================================================
