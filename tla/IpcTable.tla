------------------------------ MODULE IpcTable ------------------------------
(* The static tables of System V objects (queues, semaphore sets, segments)   *)
(* and the identifiers that name their entries: (seq << 16) | (index + 1).    *)
EXTENDS Naturals

CONSTANTS
    Cap,            \* PSX_IPC_CAP
    SeqMask         \* PSX_IPC_SEQ_MASK + 1 = 2^16

ASSUME TableAssumption == Cap \in Nat \ {0} /\ SeqMask \in Nat \ {0}

Entries == 0 .. (Cap - 1)

IpcId(idx, seq) == [seq |-> seq % SeqMask, idx |-> idx]

(* The entries of a table that an identifier denotes: at most one.            *)
FromId(table, id) ==
    {idx \in Entries : table[idx].used /\ id = IpcId(idx, table[idx].seq)}

Keyed(table, key) == {idx \in Entries : table[idx].used /\ table[idx].key = key}

(* IPC_PRIVATE is never looked up: each call makes an object.                 *)
Private == 0
Known(table, key) == IF key = Private THEN {} ELSE Keyed(table, key)

Free(table) == {idx \in Entries : ~ table[idx].used}

First(S) == CHOOSE i \in S : \A j \in S : i <= j
=============================================================================
