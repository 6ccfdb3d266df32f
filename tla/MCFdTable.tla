----------------------------- MODULE MCFdTable -----------------------------
(* Small descriptor tables for TLC, and the programs of two threads.          *)
EXTENDS FdTable, TLC

CONSTANTS t1, t2

Same(ops) == t1 :> ops @@ t2 :> ops
Careful == t1 :> {"open", "use", "close", "fcntl", "pipe"}
           @@ t2 :> {"open", "use", "close", "fcntl", "mqopen"}
Careless == Same({"use", "close"})
OneChanges == t1 :> {"open", "close", "dup", "dup3"} @@ t2 :> {"use"}

(* dup counts a reference on the wrong description each time, and racing uses *)
(* and closes let the counters of the slots drift.                            *)
RefsBounded ==
    /\ \A o \in Ofds : oref[o] \in 0 .. FdCap
    /\ \A f \in Fds : slot[f].ref \in -1 .. 2
=============================================================================
