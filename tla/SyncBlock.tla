------------------------------ MODULE SyncBlock ------------------------------
(* The sync block, the lock of ntapi (sync/ntapi_tt_sync_block.c), and the    *)
(* calls that take one: brk, under the heap lock (brk/_brk.c); the list of    *)
(* children, under the pid lock (internal/psx_session.c); the pseudo-terminal *)
(* (ntapi pty/ntapi_pty_io.c).  A block names its holder, who is let in again *)
(* and not counted.  A contended wait never blocks: it is for the address of  *)
(* a local variable, which is no handle, and fails at once.                   *)
EXTENDS Integers, FiniteSets

CONSTANTS
    Threads,    \* threads of the process
    BrkCap,     \* brk_cap, in pages
    MaxCalls    \* bound: calls the threads make together

ASSUME SyncBlockAssumption ==
    BrkCap \in Nat \ {0} /\ MaxCalls \in Nat /\ "none" \notin Threads

Blocks == {"heap", "pids", "pty"}
None == "none"

VARIABLES
    tid,        \* tid[b]: the holder of block b
    hwait,      \* blocks whose hwait is set
    brkSize,    \* brk_size
    committed,  \* pages of the heap that are committed
    nodes,      \* children in the list
    linking,    \* threads that are changing the list
    pc,         \* pc[t]: the next shared access of thread t
    loc,        \* loc[t]: [inside, block, brk, nbase], the locals of its call;
                \*   inside: where it goes on when it has the lock
    last,       \* history: how t's last call on the list of children ended
    granted,    \* history: the highest break that brk has answered with
    calls       \* calls made

heapV == <<brkSize, committed, granted>>
listV == <<nodes, linking>>
vars == <<tid, hwait, heapV, listV, pc, loc, last, calls>>

Locals(step, b, n) == [inside |-> step, block |-> b, brk |-> n, nbase |-> 0]
Idle == Locals("idle", "heap", 0)

Init ==
    /\ tid = [b \in Blocks |-> None] /\ hwait = {}
    /\ brkSize = 0 /\ committed = {} /\ granted = 0
    /\ nodes = 0 /\ linking = {}
    /\ pc = [t \in Threads |-> "idle"]
    /\ loc = [t \in Threads |-> Idle]
    /\ last = [t \in Threads |-> "none"]
    /\ calls = 0

Go(t, step) == pc' = [pc EXCEPT ![t] = step]
Return(t, how) ==
    /\ Go(t, "idle")
    /\ loc' = [loc EXCEPT ![t] = Idle]
    /\ last' = IF loc[t].block = "pids" THEN [last EXCEPT ![t] = how] ELSE last

Call(t, l) ==
    /\ pc[t] = "idle" /\ calls < MaxCalls
    /\ calls' = calls + 1
    /\ loc' = [loc EXCEPT ![t] = l]
    /\ Go(t, "own")
    /\ UNCHANGED <<tid, hwait, heapV, listV, last>>

-----------------------------------------------------------------------------
(* __ntapi_tt_sync_block_lock.                                                *)

Mine(t) == tid[loc[t].block] = t
Free(t) == tid[loc[t].block] = None

(* brk and the terminal give up; the pid lock is tried again.                 *)
Refused(t) ==
    IF loc[t].block = "pids" THEN Go(t, "own") /\ UNCHANGED <<loc, last>>
    ELSE Return(t, "refused")

LockOwn(t) ==
    /\ pc[t] = "own"
    /\ Go(t, IF Mine(t) THEN loc[t].inside ELSE "first")
    /\ UNCHANGED <<tid, hwait, heapV, listV, loc, last, calls>>

Take(t) == tid' = [tid EXCEPT ![loc[t].block] = t] /\ Go(t, loc[t].inside)

(* Mutant: the block is tested and not taken.                                 *)
LockFirstTests(t) ==
    /\ pc[t] = "first"
    /\ IF Free(t) THEN Go(t, loc[t].inside) /\ UNCHANGED <<loc, last>> ELSE Refused(t)
    /\ UNCHANGED <<tid, hwait, heapV, listV, calls>>

(* One try is all that brk and the terminal ask for.                          *)
LockFirst(t) ==
    /\ pc[t] = "first"
    /\ \/ Free(t) /\ Take(t) /\ UNCHANGED <<loc, last>>
       \/ /\ ~ Free(t)
          /\ IF loc[t].block # "pids" THEN Refused(t)
             ELSE /\ Go(t, IF loc[t].block \in hwait THEN "wait" ELSE "event")
                  /\ UNCHANGED <<loc, last>>
          /\ UNCHANGED tid
    /\ UNCHANGED <<hwait, heapV, listV, calls>>

(* An event may not be had; what is stored is not the event.                  *)
LockEvent(t) ==
    /\ pc[t] = "event"
    /\ \/ hwait' = hwait \cup {loc[t].block} /\ Go(t, "second") /\ UNCHANGED <<loc, last>>
       \/ Refused(t) /\ UNCHANGED hwait
    /\ UNCHANGED <<tid, heapV, listV, calls>>

LockSecond(t) ==
    /\ pc[t] = "second"
    /\ \/ Free(t) /\ Take(t)
       \/ ~ Free(t) /\ Go(t, "wait") /\ UNCHANGED tid
    /\ UNCHANGED <<hwait, heapV, listV, loc, last, calls>>

(* Mutant: the wait begins again, and the block is not looked at.             *)
LockWaitAgain(t) ==
    /\ pc[t] = "wait"
    /\ UNCHANGED vars

LockWait(t) ==
    /\ pc[t] = "wait"
    /\ Refused(t)
    /\ UNCHANGED <<tid, hwait, heapV, listV, calls>>

(* __ntapi_tt_sync_block_unlock: a block that is not the caller's is left.    *)
Unlock(t) ==
    tid' = IF Mine(t) THEN [tid EXCEPT ![loc[t].block] = None] ELSE tid

-----------------------------------------------------------------------------
(* __sys_brk                                                                  *)

Brk(t, n) == Call(t, Locals("brkRead", "heap", n))

(* A break that is below the size already is granted as it stands.            *)
BrkRead(t) ==
    /\ pc[t] = "brkRead"
    /\ IF loc[t].brk <= brkSize
       THEN /\ Unlock(t) /\ Return(t, "granted")
            /\ granted' = IF loc[t].brk > granted THEN loc[t].brk ELSE granted
       ELSE /\ Go(t, "commit")
            /\ loc' = [loc EXCEPT ![t].nbase = brkSize]
            /\ UNCHANGED <<tid, granted, last>>
    /\ UNCHANGED <<hwait, brkSize, committed, listV, calls>>

BrkCommit(t) ==
    /\ pc[t] = "commit"
    /\ \/ /\ committed' = committed \cup (loc[t].nbase .. (loc[t].brk - 1))
          /\ Go(t, "brkAdd") /\ UNCHANGED <<tid, loc, last>>
       \/ Unlock(t) /\ Return(t, "nomem") /\ UNCHANGED committed
    /\ UNCHANGED <<hwait, brkSize, granted, listV, calls>>

BrkAdd(t) ==
    /\ pc[t] = "brkAdd"
    /\ brkSize' = brkSize + (loc[t].brk - loc[t].nbase)
    /\ Go(t, "brkDone")
    /\ UNCHANGED <<tid, hwait, committed, granted, listV, loc, last, calls>>

BrkDone(t) ==
    /\ pc[t] = "brkDone"
    /\ Unlock(t) /\ Return(t, "granted")
    /\ granted' = IF loc[t].brk > granted THEN loc[t].brk ELSE granted
    /\ UNCHANGED <<hwait, brkSize, committed, listV, calls>>

-----------------------------------------------------------------------------
(* __ntapi_pty_read_write: no path gives the terminal back.                   *)

Pty(t) == Call(t, Locals("ptyIo", "pty", 0))

PtyIo(t) ==
    /\ pc[t] = "ptyIo"
    /\ Return(t, "io")
    /\ UNCHANGED <<tid, hwait, heapV, listV, calls>>

-----------------------------------------------------------------------------
(* The list of children: waitpid and setpgid look up, fork adds.              *)

Lookup(t) == Call(t, Locals("find", "pids", 0))
Fork(t) == Call(t, Locals("getNode", "pids", 0))

(* Mutant: the lock is kept when the child is found.                          *)
FindKeeps(t) ==
    /\ pc[t] = "find"
    /\ Return(t, IF nodes > 0 THEN "found" ELSE "unknown")
    /\ UNCHANGED <<tid, hwait, heapV, listV, calls>>

(* A pid that is in no record: the lock is kept.                              *)
Find(t) ==
    /\ pc[t] = "find"
    /\ \/ nodes > 0 /\ Unlock(t) /\ Return(t, "found")
       \/ Return(t, "unknown") /\ UNCHANGED tid
    /\ UNCHANGED <<hwait, heapV, listV, calls>>

GetNode(t) ==
    /\ pc[t] = "getNode"
    /\ \/ linking' = linking \cup {t} /\ Go(t, "link") /\ UNCHANGED <<tid, loc, last>>
       \/ Unlock(t) /\ Return(t, "nomem") /\ UNCHANGED linking
    /\ UNCHANGED <<hwait, heapV, nodes, calls>>

Link(t) ==
    /\ pc[t] = "link"
    /\ nodes' = nodes + 1
    /\ linking' = linking \ {t}
    /\ Unlock(t) /\ Return(t, "forked")
    /\ UNCHANGED <<hwait, heapV, calls>>

-----------------------------------------------------------------------------
Work(t) ==
    \/ LockOwn(t) \/ LockFirst(t) \/ LockEvent(t) \/ LockSecond(t) \/ LockWait(t)
    \/ BrkRead(t) \/ BrkCommit(t) \/ BrkAdd(t) \/ BrkDone(t) \/ PtyIo(t)
    \/ Find(t) \/ GetNode(t) \/ Link(t)

Next ==
    \E t \in Threads :
        \/ \E n \in 1 .. (BrkCap - 1) : Brk(t, n)
        \/ Pty(t) \/ Lookup(t) \/ Fork(t) \/ Work(t)

Spec == Init /\ [][Next]_vars

Fairness == \A t \in Threads : WF_vars(Work(t))
FairSpec == Spec /\ Fairness

-----------------------------------------------------------------------------
(* Properties.                                                                *)

Steps == {"idle", "own", "first", "event", "second", "wait", "brkRead", "commit", "brkAdd",
          "brkDone", "ptyIo", "find", "getNode", "link"}

TypeOK ==
    /\ tid \in [Blocks -> Threads \cup {None}] /\ hwait \subseteq Blocks
    /\ brkSize \in 0 .. (BrkCap - 1) /\ committed \subseteq 0 .. (BrkCap - 2)
    /\ nodes \in Nat /\ linking \subseteq Threads
    /\ pc \in [Threads -> Steps]
    /\ \A t \in Threads : loc[t].block \in Blocks /\ loc[t].brk \in 0 .. (BrkCap - 1)
    /\ granted \in 0 .. (BrkCap - 1) /\ calls \in 0 .. MaxCalls

(* The break is where the committed pages end, and no break that was granted  *)
(* is above it, however the calls of brk meet: the size is read, used and     *)
(* brought up to date by one thread at a time.                                *)
BreakExact ==
    /\ tid["heap"] = None => committed = 0 .. (brkSize - 1)
    /\ granted <= brkSize

(* One thread at a time changes the list of children, although the lock is    *)
(* taken by calls within calls and is sometimes kept.                         *)
OneLinks == Cardinality(linking) <= 1

(* A thread that is in no call holds no lock, but for a terminal, and for the *)
(* list of children when its last call looked for a pid that is not there.    *)
HeldOutside ==
    \A b \in Blocks, t \in Threads :
        tid[b] = t /\ pc[t] = "idle" =>
            b = "pty" \/ (b = "pids" /\ last[t] = "unknown")

(* The holder of a sync block is alone in what the block guards: the break    *)
(* and the committed pages agree, one thread at a time changes the list of    *)
(* children, and a thread outside keeps only what the code lets it keep.      *)
LocksGuard == TypeOK /\ BreakExact /\ OneLinks /\ HeldOutside

(* A thread outside keeps the lock of the list of children.                   *)
Kept == tid["pids"] # None /\ pc[tid["pids"]] = "idle"
============================================================================
