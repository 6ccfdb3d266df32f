----------------------------- MODULE SortedKeys -----------------------------
(* What a dalist promises its users: a set of keys, each of them once, that a *)
(* walk meets in ascending order.                                             *)
EXTENDS Integers, Sequences

CONSTANT Keys

VARIABLE walk       \* the keys as a walk from the head meets them

Init == walk = <<>>

Present == {walk[i] : i \in 1 .. Len(walk)}

Insert(k) ==
    /\ k \notin Present
    /\ LET before == Len(SelectSeq(walk, LAMBDA j : j < k)) IN
       walk' = SubSeq(walk, 1, before) \o <<k>> \o SubSeq(walk, before + 1, Len(walk))

Discard(k) ==
    /\ k \in Present
    /\ walk' = SelectSeq(walk, LAMBDA j : j # k)

Spec == Init /\ [][\E k \in Keys : Insert(k) \/ Discard(k)]_walk
=============================================================================
