---------------------------- MODULE SemaphoreSet ----------------------------
(* What a semaphore set of psxscl does when one semop runs at a time: the     *)
(* operations of a batch are done as one or not at all.  All are checked      *)
(* against the values that the batch starts from, so that they have no order, *)
(* and a batch that takes twice from one semaphore may take more than is      *)
(* there: the unsigned value wraps.                                           *)
EXTENDS Integers, Sequences, FiniteSetsExt

CONSTANTS
    Nums,           \* numbers of the semaphores of the set
    SemWord,        \* 2^16: values are unsigned shorts
    Batches,        \* sequences of operations [num, op]
    Values          \* values that SETVAL may store

VARIABLE val

SemInit == val = [n \in Nums |-> 0]

Possible(o) ==
    /\ o.num \in Nums
    /\ o.op < 0 => val[o.num] >= - o.op
    /\ o.op = 0 => val[o.num] = 0

Net(batch, n) ==
    MapThenSumSet(LAMBDA i : batch[i].op, {i \in DOMAIN batch : batch[i].num = n})

Do(batch) ==
    /\ \A i \in DOMAIN batch : Possible(batch[i])
    /\ val' = [n \in Nums |-> (val[n] + Net(batch, n)) % SemWord]

SetVal(n, v) == val' = [val EXCEPT ![n] = v]

(* A set that is removed and made anew starts from zero.                      *)
Renew == val' = [n \in Nums |-> 0]

SemNext ==
    \/ \E batch \in Batches : Do(batch)
    \/ \E n \in Nums, v \in Values : SetVal(n, v)
    \/ Renew

SemSpec == SemInit /\ [][SemNext]_val
=============================================================================
