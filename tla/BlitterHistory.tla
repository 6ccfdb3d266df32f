--------------------------- MODULE BlitterHistory ---------------------------
(* The block allocator with a history of each call: what the bitmap looked    *)
(* like at some moment since the call began.  It says what ALLOCATE_BUCKET,   *)
(* which the fd table turns into EMFILE, really tells a caller.               *)
EXTENDS Blitter

VARIABLES
    sawFull,    \* sawFull[t]: no block was free but those being released
    sawEmpty    \* sawEmpty[t]: the words seen without a free block

historyVars == <<vars, sawFull, sawEmpty>>

(* The free blocks are no more than the releases that have not returned.      *)
Exhausted == Cardinality(free) <= Cardinality(At({"decUsed", "incAvail"}))

EmptyWords == {w \in 0 .. (PtrCount - 1) : free \cap InWord(w) = {}}

HistoryInit ==
    /\ Init
    /\ sawFull = [t \in Threads |-> FALSE]
    /\ sawEmpty = [t \in Threads |-> {}]

(* Histories begin with the call and are dropped when it returns.             *)
HistoryNext ==
    /\ Next
    /\ sawFull' = [t \in Threads |->
            /\ pc'[t] # "idle"
            /\ Exhausted \/ Exhausted' \/ (pc[t] # "idle" /\ sawFull[t])]
    /\ sawEmpty' = [t \in Threads |->
            IF pc'[t] = "idle" THEN {} ELSE EmptyWords \cup EmptyWords' \cup sawEmpty[t]]

HistorySpec == HistoryInit /\ [][HistoryNext]_historyVars

(* A plain acquire reports a full table only if, at some moment of the call,  *)
(* every free block was still being released, or each word was empty at a     *)
(* moment of its own, or other threads won all its round trips: the lagging   *)
(* counter alone never turns a caller away.                                   *)
FailsOnlyWhenFull ==
    [][\A t \in Threads :
        (pc[t] # "idle" /\ pc'[t] = "idle" /\ ret'[t] = "ALLOCATE_BUCKET")
        => \/ Exhausted \/ sawFull[t]
           \/ sawEmpty[t] \cup EmptyWords = 0 .. (PtrCount - 1)
           \/ loc[t].trips = RoundTrips
      ]_historyVars
=============================================================================
