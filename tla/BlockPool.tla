----------------------------- MODULE BlockPool -----------------------------
(* What the block allocator of ntapi (the "blitter") promises its clients,    *)
(* the fd and ofd tables of psxscl: every block is free or held by exactly    *)
(* one thread, a taken block was free, and only its holder gives it back.     *)

CONSTANTS Threads,      \* threads of the process
          Blocks        \* block ids of the allocator

VARIABLES free,         \* blocks whose bit is set
          held          \* held[t]: the blocks thread t may use

poolVars == <<free, held>>

(* Every block is free or held, none is both, none has two holders.           *)
Partition ==
    /\ free \cup UNION {held[t] : t \in Threads} = Blocks
    /\ \A t \in Threads : free \cap held[t] = {}
    /\ \A s, t \in Threads : s # t => held[s] \cap held[t] = {}

PoolInit ==
    /\ free \in SUBSET Blocks
    /\ held \in [Threads -> SUBSET Blocks]
    /\ Partition

Take(t, b) ==
    /\ b \in free
    /\ free' = free \ {b}
    /\ held' = [held EXCEPT ![t] = @ \cup {b}]

Give(t, b) ==
    /\ b \in held[t]
    /\ free' = free \cup {b}
    /\ held' = [held EXCEPT ![t] = @ \ {b}]

PoolNext == \E t \in Threads, b \in Blocks : Take(t, b) \/ Give(t, b)

PoolSpec == PoolInit /\ [][PoolNext]_poolVars
=============================================================================
