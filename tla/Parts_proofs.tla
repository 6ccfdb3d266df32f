----------------------------- MODULE Parts_proofs -----------------------------
(* What the parts do for any number of threads, children and calls.  Whoever  *)
(* holds a sync block is alone in what the block guards (IInv), and what a    *)
(* wait for children that slept returns has exited and is given to nobody else*)
(* (WaitInv); only the timer set last signals the program, unless the instance*)
(* was used while a timer thread was arming, and the program goes back where  *)
(* it was, unless a signal came before a trampoline had begun (AlarmInv).     *)
EXTENDS MCParts, Sequences, FiniteSetTheorems, TLAPS

HeapSteps == {"brkRead", "commit", "brkAdd", "brkDone"}
ListSteps == {"find", "getNode", "link"}
Trying == {"first", "event", "second", "wait"}

LocalsSet == [inside : {"idle", "brkRead", "ptyIo", "find", "getNode"}, block : Blocks,
           brk : 0 .. (BrkCap - 1), nbase : 0 .. (BrkCap - 1)]
Outcomes == {"none", "refused", "granted", "nomem", "io", "found", "unknown", "forked"}

Shape == TypeOK /\ loc \in [Threads -> LocalsSet] /\ last \in [Threads -> Outcomes]

Kinds == {<<"brkRead", "heap">>, <<"ptyIo", "pty">>, <<"find", "pids">>, <<"getNode", "pids">>}

(* A call asks for the block it needs; only the list is tried again.          *)
CallsBlock ==
  \A t \in Threads :
    /\ pc[t] # "idle" => <<loc[t].inside, loc[t].block>> \in Kinds
    /\ pc[t] \in HeapSteps => loc[t].block = "heap"
    /\ pc[t] = "ptyIo" => loc[t].block = "pty"
    /\ pc[t] \in ListSteps => loc[t].block = "pids"
    /\ pc[t] \in {"event", "second", "wait"} => loc[t].block = "pids"

(* The lock of the heap is held exactly inside brk, that of the list inside a *)
(* call on it and by a thread that looked for an unknown pid.                 *)
Holders ==
  \A t \in Threads :
    /\ tid["heap"] = t <=> pc[t] \in HeapSteps
    /\ pc[t] \in ListSteps => tid["pids"] = t
    /\ tid["pids"] = t => pc[t] \in ListSteps \/ last[t] = "unknown"

(* What brk has read is still so, and what it has committed is its own.       *)
HeapExact ==
  /\ granted <= brkSize
  /\ tid["heap"] = None => committed = 0 .. (brkSize - 1)
  /\ \A t \in Threads :
       /\ pc[t] \in {"brkRead", "commit", "brkDone"} => committed = 0 .. (brkSize - 1)
       /\ pc[t] \in {"commit", "brkAdd"} => loc[t].nbase = brkSize /\ brkSize < loc[t].brk
       /\ pc[t] = "brkAdd" => committed = 0 .. (loc[t].brk - 1)
       /\ pc[t] = "brkDone" => brkSize = loc[t].brk

Linkers == \A t \in Threads : t \in linking <=> pc[t] = "link"

IInv == Shape /\ CallsBlock /\ Holders /\ HeapExact /\ Linkers

USE DEF HeapSteps, ListSteps, Trying, Blocks, Steps, LocalsSet, Outcomes, Kinds

(* A new call has no lock, and keeps what its thread has kept.                *)
LEMMA CallKeeps ==
  ASSUME SyncBlockAssumption, IInv, NEW t \in Threads, NEW l \in LocalsSet,
         <<l.inside, l.block>> \in Kinds,
         Call(t, l)
  PROVE  IInv'
<1> USE DEF IInv, Call, Go, heapV, listV
<1>1. Shape' BY DEF Shape, TypeOK, SyncBlockAssumption
<1>2. CallsBlock' BY DEF Shape, TypeOK, CallsBlock
<1>3. Holders' BY DEF Shape, TypeOK, Holders
<1>4. HeapExact' BY DEF Shape, TypeOK, HeapExact
<1>5. Linkers' BY DEF Shape, TypeOK, Linkers
<1> QED BY <1>1, <1>2, <1>3, <1>4, <1>5

(* The lock: a free block is taken by one thread, and who is refused has not  *)
(* taken it.                                                                  *)
LEMMA LockKeeps ==
  ASSUME SyncBlockAssumption, IInv, NEW t \in Threads,
         LockOwn(t) \/ LockFirst(t) \/ LockEvent(t) \/ LockSecond(t) \/ LockWait(t)
  PROVE  IInv'
<1> USE DEF IInv, Go, heapV, listV
<1>1. ASSUME NEW b \in Blocks, loc[t].block = b, tid[b] = None,
             tid' = [tid EXCEPT ![b] = t], pc' = [pc EXCEPT ![t] = loc[t].inside],
             pc[t] \in Trying,
             UNCHANGED <<heapV, listV, loc, last, calls, hwait>>
      PROVE  IInv'
  <2>1. <<loc[t].inside, b>> \in Kinds
    BY <1>1 DEF CallsBlock
  <2>2. Shape' BY <1>1, <2>1 DEF Shape, TypeOK
  <2>3. CallsBlock' BY <1>1, <2>1 DEF Shape, TypeOK, CallsBlock
  <2>4. Holders' BY <1>1, <2>1 DEF Shape, TypeOK, Holders, SyncBlockAssumption, None
  <2>5. HeapExact' BY <1>1, <2>1 DEF Shape, TypeOK, HeapExact, Holders, SyncBlockAssumption, None
  <2>6. Linkers' BY <1>1, <2>1 DEF Shape, TypeOK, Linkers
  <2> QED BY <2>2, <2>3, <2>4, <2>5, <2>6
<1>2. ASSUME NEW s \in {"first", "event", "second", "wait", "own"},
             pc[t] \in Trying \cup {"own"}, s \in {"event", "second", "wait"} => loc[t].block = "pids",
             pc' = [pc EXCEPT ![t] = s], hwait' \subseteq Blocks,
             UNCHANGED <<tid, heapV, listV, loc, last, calls>>
      PROVE  IInv'
  <2>1. Shape' BY <1>2 DEF Shape, TypeOK
  <2>2. CallsBlock' BY <1>2 DEF Shape, TypeOK, CallsBlock
  <2>3. Holders' BY <1>2 DEF Shape, TypeOK, Holders
  <2>4. HeapExact' BY <1>2 DEF Shape, TypeOK, HeapExact
  <2>5. Linkers' BY <1>2 DEF Shape, TypeOK, Linkers
  <2> QED BY <2>1, <2>2, <2>3, <2>4, <2>5
<1>3. ASSUME pc[t] \in Trying, loc[t].block # "pids", Return(t, "refused"),
             UNCHANGED <<tid, hwait, heapV, listV, calls>>
      PROVE  IInv'
  <2>1. Shape' BY <1>3 DEF Shape, TypeOK, Return, Idle, Locals, SyncBlockAssumption
  <2>2. CallsBlock' BY <1>3 DEF Shape, TypeOK, CallsBlock, Return
  <2>3. Holders' BY <1>3 DEF Shape, TypeOK, Holders, Return
  <2>4. HeapExact' BY <1>3 DEF Shape, TypeOK, HeapExact, Return
  <2>5. Linkers' BY <1>3 DEF Shape, TypeOK, Linkers, Return
  <2> QED BY <2>1, <2>2, <2>3, <2>4, <2>5
<1>4. CASE LockOwn(t) /\ Mine(t)
  <2>1. <<loc[t].inside, loc[t].block>> \in Kinds
    BY <1>4 DEF CallsBlock, LockOwn
  <2>2. loc[t].block # "heap"
    BY <1>4 DEF LockOwn, Mine, Holders
  <2>3. Shape' BY <1>4, <2>1, <2>2 DEF Shape, TypeOK, LockOwn
  <2>4. CallsBlock' BY <1>4, <2>1, <2>2 DEF Shape, TypeOK, CallsBlock, LockOwn
  <2>5. Holders' BY <1>4, <2>1, <2>2 DEF Shape, TypeOK, Holders, LockOwn, Mine
  <2>6. HeapExact' BY <1>4, <2>1, <2>2 DEF Shape, TypeOK, HeapExact, LockOwn
  <2>7. Linkers' BY <1>4, <2>1, <2>2 DEF Shape, TypeOK, Linkers, LockOwn
  <2> QED BY <2>3, <2>4, <2>5, <2>6, <2>7
<1>5. CASE LockOwn(t) /\ ~ Mine(t)
  BY <1>2, <1>5 DEF LockOwn, Shape, TypeOK
<1>6. CASE LockFirst(t)
  <2>1. CASE Free(t)
    BY <1>1, <1>6, <2>1 DEF LockFirst, Free, Take, Shape, TypeOK
  <2>2. CASE ~ Free(t) /\ loc[t].block # "pids"
    BY <1>3, <1>6, <2>2 DEF LockFirst, Refused
  <2>3. CASE ~ Free(t) /\ loc[t].block = "pids"
    BY <1>2, <1>6, <2>3 DEF LockFirst, Shape, TypeOK
  <2> QED BY <2>1, <2>2, <2>3
<1>7. CASE LockEvent(t)
  <2>1. loc[t].block = "pids" BY <1>7 DEF LockEvent, CallsBlock
  <2> QED BY <1>2, <1>7, <2>1 DEF LockEvent, Refused, Shape, TypeOK
<1>8. CASE LockSecond(t)
  <2>1. loc[t].block = "pids" BY <1>8 DEF LockSecond, CallsBlock
  <2>2. CASE Free(t)
    BY <1>1, <1>8, <2>1, <2>2 DEF LockSecond, Free, Take
  <2>3. CASE ~ Free(t)
    BY <1>2, <1>8, <2>1, <2>3 DEF LockSecond, Shape, TypeOK
  <2> QED BY <2>2, <2>3
<1>9. CASE LockWait(t)
  <2>1. loc[t].block = "pids" BY <1>9 DEF LockWait, CallsBlock
  <2> QED BY <1>2, <1>9, <2>1 DEF LockWait, Refused, Shape, TypeOK
<1> QED BY <1>4, <1>5, <1>6, <1>7, <1>8, <1>9

(* What brk reads stays so until it is brought up to date, for no other       *)
(* thread is in brk.                                                          *)
LEMMA BrkKeeps ==
  ASSUME SyncBlockAssumption, IInv, NEW t \in Threads,
         BrkRead(t) \/ BrkCommit(t) \/ BrkAdd(t) \/ BrkDone(t)
  PROVE  IInv'
<1> USE DEF IInv, Go, heapV, listV
<1>1. /\ loc[t].block = "heap" /\ tid["heap"] = t /\ Mine(t)
      /\ \A u \in Threads : pc[u] \in HeapSteps => u = t
  BY DEF BrkRead, BrkCommit, BrkAdd, BrkDone, CallsBlock, Holders, Mine
<1>2. ASSUME NEW how \in Outcomes, Unlock(t), Return(t, how), pc[t] \in HeapSteps,
             committed = 0 .. (brkSize - 1), granted' \in 0 .. brkSize,
             UNCHANGED <<hwait, brkSize, committed, listV, calls>>
      PROVE  IInv'
  <2>1. /\ tid' = [tid EXCEPT !["heap"] = None] /\ pc' = [pc EXCEPT ![t] = "idle"]
        /\ loc' = [loc EXCEPT ![t] = Idle] /\ UNCHANGED last
    BY <1>1, <1>2 DEF Unlock, Return
  <2>2. Shape' BY <1>2, <2>1 DEF Shape, TypeOK, Idle, Locals, SyncBlockAssumption
  <2>3. CallsBlock' BY <2>1 DEF Shape, TypeOK, CallsBlock
  <2>4. Holders' BY <1>1, <1>2, <2>1 DEF Shape, TypeOK, Holders, SyncBlockAssumption, None
  <2>5. HeapExact' BY <1>1, <1>2, <2>1 DEF Shape, TypeOK, HeapExact
  <2>6. Linkers' BY <1>2, <2>1 DEF Shape, TypeOK, Linkers
  <2> QED BY <2>2, <2>3, <2>4, <2>5, <2>6
<1>3. ASSUME NEW s \in HeapSteps, pc[t] \in HeapSteps, pc' = [pc EXCEPT ![t] = s],
             loc' \in [Threads -> LocalsSet],
             loc'[t].inside = loc[t].inside /\ loc'[t].block = loc[t].block,
             \A u \in Threads : u # t => loc'[u] = loc[u],
             brkSize' \in 0 .. (BrkCap - 1), committed' \subseteq 0 .. (BrkCap - 2),
             UNCHANGED <<tid, hwait, granted, listV, last, calls>>
      PROVE  Shape' /\ CallsBlock' /\ Holders' /\ Linkers'
  <2>1. Shape' BY <1>3 DEF Shape, TypeOK
  <2>2. CallsBlock' BY <1>1, <1>3 DEF Shape, TypeOK, CallsBlock
  <2>3. Holders' BY <1>3 DEF Shape, TypeOK, Holders
  <2>4. Linkers' BY <1>3 DEF Shape, TypeOK, Linkers
  <2> QED BY <2>1, <2>2, <2>3, <2>4
<1>4. CASE BrkRead(t)
  <2>1. committed = 0 .. (brkSize - 1) BY <1>4 DEF BrkRead, HeapExact
  <2>2. CASE loc[t].brk <= brkSize
    <3>1. granted' \in 0 .. brkSize
      BY <1>4, <2>2 DEF BrkRead, HeapExact, Shape, TypeOK
    <3> QED BY <1>2, <1>4, <2>1, <2>2, <3>1 DEF BrkRead
  <2>3. CASE ~ (loc[t].brk <= brkSize)
    <3>1. Shape' /\ CallsBlock' /\ Holders' /\ Linkers'
      BY <1>3, <1>4, <2>3 DEF BrkRead, Shape, TypeOK
    <3>2. /\ loc'[t].nbase = brkSize /\ brkSize < loc'[t].brk /\ pc'[t] = "commit"
          /\ \A u \in Threads \ {t} : pc'[u] \notin HeapSteps
          /\ UNCHANGED <<granted, brkSize, committed, tid>>
      BY <1>1, <1>4, <2>3 DEF BrkRead, Shape, TypeOK
    <3>3. HeapExact' BY <1>1, <2>1, <3>2 DEF HeapExact, Shape, TypeOK
    <3> QED BY <3>1, <3>3
  <2> QED BY <2>2, <2>3
<1>5. CASE BrkCommit(t)
  <2>1. /\ committed = 0 .. (brkSize - 1) /\ loc[t].nbase = brkSize /\ brkSize < loc[t].brk
        /\ granted <= brkSize
    BY <1>5 DEF BrkCommit, HeapExact
  <2>2. CASE pc' = [pc EXCEPT ![t] = "brkAdd"]
    <3>1. /\ committed' = committed \cup (loc[t].nbase .. (loc[t].brk - 1))
          /\ UNCHANGED <<tid, loc, last, hwait, brkSize, granted, listV, calls>>
      BY <1>5, <2>2 DEF BrkCommit, Return, Shape, TypeOK
    <3>2. committed' = 0 .. (loc[t].brk - 1)
      BY <2>1, <3>1 DEF Shape, TypeOK, SyncBlockAssumption
    <3>3. committed' \subseteq 0 .. (BrkCap - 2)
      BY <3>2 DEF Shape, TypeOK, SyncBlockAssumption
    <3>4. Shape' /\ CallsBlock' /\ Holders' /\ Linkers'
      BY <1>3, <1>5, <2>2, <3>1, <3>3 DEF BrkCommit, Shape, TypeOK
    <3>5. /\ pc'[t] = "brkAdd" /\ \A u \in Threads \ {t} : pc'[u] \notin HeapSteps
          /\ UNCHANGED <<granted, brkSize, tid, loc>>
      BY <1>1, <2>2, <3>1 DEF Shape, TypeOK
    <3>6. tid'["heap"] # None BY <1>1, <3>5 DEF SyncBlockAssumption, None
    <3>7. HeapExact' BY <2>1, <3>2, <3>5, <3>6 DEF HeapExact, Shape, TypeOK
    <3> QED BY <3>4, <3>7
  <2>3. CASE Unlock(t) /\ Return(t, "nomem") /\ UNCHANGED committed
    <3>1. granted' \in 0 .. brkSize BY <1>5, <2>1 DEF BrkCommit, Shape, TypeOK
    <3> QED BY <1>2, <1>5, <2>1, <2>3, <3>1 DEF BrkCommit
  <2> QED BY <1>5, <2>2, <2>3 DEF BrkCommit
<1>6. CASE BrkAdd(t)
  <2>1. loc[t].nbase = brkSize /\ brkSize < loc[t].brk /\ committed = 0 .. (loc[t].brk - 1)
    BY <1>6 DEF BrkAdd, HeapExact
  <2>2. brkSize' = loc[t].brk BY <1>6, <2>1 DEF BrkAdd, Shape, TypeOK
  <2>3. Shape' /\ CallsBlock' /\ Holders' /\ Linkers'
    BY <1>3, <1>6, <2>2 DEF BrkAdd, Shape, TypeOK
  <2>4. /\ pc'[t] = "brkDone" /\ \A u \in Threads \ {t} : pc'[u] \notin HeapSteps
        /\ UNCHANGED <<granted, committed, tid, loc>> /\ tid["heap"] # None
    BY <1>1, <1>6 DEF BrkAdd, Shape, TypeOK, SyncBlockAssumption, None
  <2>5. granted <= brkSize /\ brkSize \in Int /\ granted \in Int /\ loc[t].brk \in Int
    BY DEF HeapExact, Shape, TypeOK
  <2>6. granted' <= brkSize' BY <2>1, <2>2, <2>4, <2>5
  <2>7. HeapExact' BY <2>1, <2>2, <2>4, <2>6 DEF HeapExact
  <2> QED BY <2>3, <2>7
<1>7. CASE BrkDone(t)
  <2>1. committed = 0 .. (brkSize - 1) /\ brkSize = loc[t].brk /\ granted <= brkSize
    BY <1>7 DEF BrkDone, HeapExact
  <2>2. granted' \in 0 .. brkSize BY <1>7, <2>1 DEF BrkDone, Shape, TypeOK
  <2> QED BY <1>2, <1>7, <2>1, <2>2 DEF BrkDone
<1> QED BY <1>4, <1>5, <1>6, <1>7

(* The terminal is never given back; of the calls on the list, one keeps it.  *)
LEMMA ListKeeps ==
  ASSUME SyncBlockAssumption, IInv, NEW t \in Threads,
         PtyIo(t) \/ Find(t) \/ GetNode(t) \/ Link(t)
  PROVE  IInv'
<1> USE DEF IInv, Go, heapV, listV
<1>1. /\ loc[t].block # "heap"
      /\ pc[t] \in ListSteps =>
           loc[t].block = "pids" /\ Mine(t) /\ \A u \in Threads : pc[u] \in ListSteps => u = t
  BY DEF PtyIo, Find, GetNode, Link, CallsBlock, Holders, Mine
<1>2. ASSUME NEW how \in Outcomes, pc[t] \in ListSteps \cup {"ptyIo"}, Return(t, how),
             \/ Unlock(t) /\ pc[t] \in ListSteps
             \/ UNCHANGED tid /\ (pc[t] \in ListSteps => how = "unknown"),
             linking' = linking \ {t}, nodes' \in Nat, UNCHANGED <<hwait, heapV, calls>>
      PROVE  IInv'
  <2>1. /\ tid' = IF pc[t] \in ListSteps /\ Unlock(t)
                  THEN [tid EXCEPT !["pids"] = None] ELSE tid
        /\ pc' = [pc EXCEPT ![t] = "idle"] /\ loc' = [loc EXCEPT ![t] = Idle]
        /\ last' = IF pc[t] \in ListSteps THEN [last EXCEPT ![t] = how] ELSE last
    BY <1>1, <1>2 DEF Unlock, Return, CallsBlock
  <2>2. Shape' BY <1>2, <2>1 DEF Shape, TypeOK, Idle, Locals, SyncBlockAssumption
  <2>3. CallsBlock' BY <2>1 DEF Shape, TypeOK, CallsBlock
  <2>4. Holders' BY <1>1, <1>2, <2>1 DEF Shape, TypeOK, Holders, SyncBlockAssumption, None, Mine
  <2>5. HeapExact' BY <1>2, <2>1 DEF Shape, TypeOK, HeapExact
  <2>6. Linkers' BY <1>2, <2>1 DEF Shape, TypeOK, Linkers
  <2> QED BY <2>2, <2>3, <2>4, <2>5, <2>6
<1>3. t \in linking <=> pc[t] = "link" BY DEF Linkers
<1>4. CASE PtyIo(t) BY <1>2, <1>3, <1>4 DEF PtyIo, Shape, TypeOK
<1>5. CASE Find(t) BY <1>2, <1>3, <1>5 DEF Find, Shape, TypeOK
<1>6. CASE GetNode(t)
  <2>1. CASE Unlock(t) /\ Return(t, "nomem") /\ UNCHANGED linking
    BY <1>2, <1>3, <1>6, <2>1 DEF GetNode, Shape, TypeOK
  <2>2. CASE linking' = linking \cup {t} /\ pc' = [pc EXCEPT ![t] = "link"]
             /\ UNCHANGED <<tid, loc, last>>
    <3>1. Shape' BY <1>6, <2>2 DEF GetNode, Shape, TypeOK
    <3>2. CallsBlock' BY <1>1, <1>6, <2>2 DEF GetNode, Shape, TypeOK, CallsBlock
    <3>3. Holders' BY <1>6, <2>2 DEF GetNode, Shape, TypeOK, Holders
    <3>4. HeapExact' BY <1>6, <2>2 DEF GetNode, Shape, TypeOK, HeapExact
    <3>5. Linkers' BY <1>6, <2>2 DEF GetNode, Shape, TypeOK, Linkers
    <3> QED BY <3>1, <3>2, <3>3, <3>4, <3>5
  <2> QED BY <1>6, <2>1, <2>2 DEF GetNode
<1>7. CASE Link(t) BY <1>2, <1>3, <1>7 DEF Link, Shape, TypeOK
<1> QED BY <1>4, <1>5, <1>6, <1>7

LEMMA InitHolds == SyncBlockAssumption /\ Init => IInv
<1> SUFFICES ASSUME SyncBlockAssumption, Init PROVE IInv OBVIOUS
<1>1. Shape BY DEF Init, Shape, TypeOK, Idle, Locals, SyncBlockAssumption
<1>2. CallsBlock /\ Holders /\ Linkers
  BY DEF Init, CallsBlock, Holders, Linkers, SyncBlockAssumption, None
<1>3. HeapExact BY DEF Init, HeapExact
<1> QED BY <1>1, <1>2, <1>3 DEF IInv

LEMMA NextKeeps == SyncBlockAssumption /\ IInv /\ [Next]_vars => IInv'
<1> SUFFICES ASSUME SyncBlockAssumption, IInv, [Next]_vars PROVE IInv' OBVIOUS
<1>1. CASE UNCHANGED vars
  BY <1>1 DEF vars, heapV, listV, IInv, Shape, TypeOK, CallsBlock, Holders, HeapExact, Linkers
<1>2. CASE Next
  <2>1. PICK t \in Threads : \/ \E n \in 1 .. (BrkCap - 1) : Brk(t, n)
                             \/ Pty(t) \/ Lookup(t) \/ Fork(t) \/ Work(t)
    BY <1>2 DEF Next
  <2>2. ASSUME NEW n \in 1 .. (BrkCap - 1), Brk(t, n) PROVE IInv'
    <3>1. 0 \in 0 .. (BrkCap - 1) /\ n \in 0 .. (BrkCap - 1) BY DEF SyncBlockAssumption
    <3> QED BY <2>2, <3>1, CallKeeps DEF Brk, Locals
  <2>3. CASE Pty(t) \/ Lookup(t) \/ Fork(t)
    <3>1. 0 \in 0 .. (BrkCap - 1) BY DEF SyncBlockAssumption
    <3>2. CASE Pty(t) BY <3>1, <3>2, CallKeeps DEF Pty, Locals
    <3>3. CASE Lookup(t) BY <3>1, <3>3, CallKeeps DEF Lookup, Locals
    <3>4. CASE Fork(t) BY <3>1, <3>4, CallKeeps DEF Fork, Locals
    <3> QED BY <2>3, <3>2, <3>3, <3>4
  <2>4. CASE Work(t) BY <2>4, LockKeeps, BrkKeeps, ListKeeps DEF Work
  <2> QED BY <2>1, <2>2, <2>3, <2>4
<1> QED BY <1>1, <1>2

(* Two threads never are inside the same block: at most one is in brk, and at *)
(* most one looks up or changes the list.                                     *)
LEMMA OneLinksHolds == IInv => OneLinks
<1> SUFFICES ASSUME IInv PROVE Cardinality(linking) <= 1 BY DEF OneLinks
<1> USE DEF IInv, Shape, TypeOK, Linkers, Holders
<1>1. CASE linking = {} BY <1>1, FS_EmptySet
<1>2. CASE linking # {}
  <2>1. PICK t \in linking : TRUE BY <1>2
  <2>2. linking = {t} BY <2>1
  <2>3. Cardinality(linking) = 1 BY <2>2, FS_Singleton
  <2> QED BY <2>3
<1> QED BY <1>1, <1>2

(* Whatever the threads call, and however their calls meet: the break and the *)
(* committed pages agree, one thread at a time changes the list of children,  *)
(* and a thread outside keeps only what the code lets it keep.                *)
THEOREM LocksAreExclusive == Spec => []LocksGuard
<1>1. Init => IInv BY SyncBlockAssumption, InitHolds
<1>2. IInv /\ [Next]_vars => IInv' BY SyncBlockAssumption, NextKeeps
<1>3. IInv => LocksGuard
  BY OneLinksHolds DEF IInv, LocksGuard, Shape, BreakExact, HeapExact, HeldOutside, Holders
<1> QED BY <1>1, <1>2, <1>3, PTL DEF Spec

-----------------------------------------------------------------------------
(* Waiting for children: __wait_in_vain and its helpers.                      *)

Deciders == {"claim", "giveBack", "publish", "settle"}
InCall(t) == at[t] \notin {"idle", "round"}
Walking == {"look", "test", "count", "create"}

WaitShape ==
    /\ exited \subseteq Wait!Children /\ waitable \subseteq Wait!Children
    /\ lock \in {{}} \cup {{t} : t \in Waiters}
    /\ at \in [Waiters -> Wait!Places] /\ phase \in [Waiters -> {"pid", "poll", "pool"}]
    /\ node \in [Waiters -> 0 .. Wait!Any] /\ alerted \in [Waiters -> BOOLEAN]
    /\ count \in [Waiters -> Nat]
    /\ status \in [Waiters -> {"pending", "more", "success"}]
    /\ pid \in [Waiters -> Wait!Pids]
    /\ event \in [Waiters -> BOOLEAN]
    /\ helper \in [Waiters -> [Wait!Children -> Wait!HelperPlaces]]
    /\ alerting \in [Waiters -> Nat] /\ alert \in [Waiters -> BOOLEAN]
    /\ left \in [Waiters -> Nat]
    /\ result \in [Waiters -> [pid : Wait!Pids, slept : BOOLEAN]]
    /\ taken \in [Waiters -> SUBSET Wait!Children] /\ reports \in [Wait!Children -> Nat]

(* Where a call is, and which helpers there can be by then.                   *)
Walk(t) ==
    /\ at[t] \in Walking \cup {"answer"} => node[t] \in Wait!Children
    /\ at[t] = "find" => node[t] # Wait!Any
    /\ at[t] \in {"count", "create"} => phase[t] # "poll"
    /\ at[t] = "answer" => phase[t] # "pool"
    /\ at[t] \in {"sleep", "end", "drain"} => phase[t] = "pool"
    /\ \/ at[t] \in {"find", "lock"}
       \/ at[t] \in Walking /\ phase[t] # "pool"
       \/ at[t] = "answer" /\ phase[t] = "poll"
       => status[t] = "pending"

Helped(t) ==
    \A c \in Wait!Children : helper[t][c] # "none" =>
        /\ at[t] \notin {"find", "lock"}
        /\ at[t] \in Walking => phase[t] = "pool" /\ c < node[t]
        /\ at[t] = "answer" => phase[t] = "pid" /\ c = node[t]
        /\ at[t] = "idle" => c = result[t].pid

(* Who decides for t, and what t has been given by then.                      *)
Decided(t) ==
    /\ \A c \in Wait!Children : helper[t][c] \in Deciders \cup {"cas"} => c \in exited
    /\ at[t] = "answer" => taken[t] \subseteq {node[t]}
    /\ at[t] = "idle" => taken[t] \subseteq {result[t].pid}
    /\ InCall(t) /\ status[t] = "pending" =>
          taken[t] = {} /\ pid[t] = Wait!None /\ \A c \in Wait!Children : helper[t][c] \notin Deciders
    /\ InCall(t) /\ status[t] = "more" => \E c \in Wait!Children :
          /\ helper[t][c] \in Deciders
          /\ \A d \in Wait!Children : d # c => helper[t][d] \notin Deciders
          /\ helper[t][c] \in {"claim", "giveBack"} => taken[t] = {} /\ pid[t] = Wait!None
          /\ helper[t][c] = "publish" => taken[t] = {c} /\ pid[t] = Wait!None
          /\ helper[t][c] = "settle" => taken[t] = {c} /\ pid[t] = c
    /\ InCall(t) /\ status[t] = "success" =>
          /\ taken[t] = {pid[t]}
          /\ \A c \in Wait!Children : helper[t][c] \notin Deciders

(* A child is taken once.                                                     *)
Given ==
    /\ \A t \in Waiters : taken[t] \subseteq exited \ waitable
    /\ \A s, t \in Waiters : s # t => taken[s] \cap taken[t] = {}
    /\ \A t \in Waiters : InCall(t) => \A c \in taken[t] : reports[c] = 0
    /\ \A c \in Wait!Children : reports[c] <= 1 /\ (c \in waitable => reports[c] = 0)

WaitInv ==
    /\ WaitShape /\ Wait!CountExact /\ Given /\ Wait!SleptReportsTheDead
    /\ \A t \in Waiters : Walk(t) /\ Helped(t) /\ Decided(t)

USE PartsAssumption DEF Wait!WaitsAssumption, Wait!Children, Wait!Any, Wait!None, Wait!Stranger,
    Wait!EINTR, Wait!Pids, Deciders, Walking, Wait!Places, Wait!HelperPlaces

(* The module of an instance has a Cardinality of its own: it is the same.    *)
LEMMA CountsAlike == ASSUME NEW S PROVE Wait!Cardinality(S) = Cardinality(S)
BY DEF Wait!Cardinality, Cardinality

(* What changes for nobody else.                                              *)
LEMMA Bystander ==
  ASSUME WaitInv, NEW r \in Waiters, exited \subseteq exited',
         at'[r] = at[r], phase'[r] = phase[r], node'[r] = node[r], status'[r] = status[r],
         pid'[r] = pid[r], helper'[r] = helper[r],
         result'[r] = result[r], taken'[r] = taken[r]
  PROVE  Walk(r)' /\ Helped(r)' /\ Decided(r)'
<1>1. Walk(r)' BY DEF WaitInv, Walk
<1>2. Helped(r)' BY DEF WaitInv, Helped
<1>3. Decided(r)'
  <2>1. InCall(r)' <=> InCall(r) BY DEF InCall
  <2> QED BY <2>1 DEF WaitInv, Decided
<1> QED BY <1>1, <1>2, <1>3

LEMMA GivenKept ==
  ASSUME WaitInv, UNCHANGED <<waitable, taken, reports>>, exited \subseteq exited',
         \A r \in Waiters : InCall(r)' => InCall(r) \/ taken[r] = {}
  PROVE  Given'
BY DEF WaitInv, Given

LEMMA CountKept ==
  ASSUME WaitInv, UNCHANGED <<helper, count>>,
         \A r \in Waiters : at'[r] = "create" <=> at[r] = "create"
  PROVE  Wait!CountExact'
BY CountsAlike DEF WaitInv, Wait!CountExact

LEMMA SleptKept ==
  ASSUME WaitInv, UNCHANGED result, exited \subseteq exited', waitable' \subseteq waitable
  PROVE  Wait!SleptReportsTheDead'
BY DEF WaitInv, Wait!SleptReportsTheDead

LEMMA HelpersFinite ==
  ASSUME NEW S, S \subseteq Wait!Children
  PROVE  IsFiniteSet(S) /\ Cardinality(S) \in Nat /\ Cardinality(S) <= Last
         /\ (S # Wait!Children => Cardinality(S) < Last)
<1>1. IsFiniteSet(Wait!Children) /\ Cardinality(Wait!Children) = Last
  <2>1. 1 \in Int /\ Last \in Int /\ 1 <= Last /\ Last - 1 + 1 = Last OBVIOUS
  <2> QED BY <2>1, FS_Interval
<1>2. IsFiniteSet(S) /\ Cardinality(S) <= Last BY <1>1, FS_Subset
<1>3. Cardinality(S) \in Nat BY <1>2, FS_CardinalityType
<1>4. ASSUME S # Wait!Children PROVE Cardinality(S) < Last
  <2>1. Cardinality(S) # Cardinality(Wait!Children) BY <1>1, <1>4, FS_Subset
  <2> QED BY <1>1, <1>2, <1>3, <2>1
<1> QED BY <1>2, <1>3, <1>4

LEMMA NoneLeft ==
  ASSUME WaitInv, NEW t \in Waiters, count[t] = 0
  PROVE  at[t] # "create" /\ \A c \in Wait!Children : helper[t][c] = "none"
<1> DEFINE H == {c \in Wait!Children : helper[t][c] # "none"}
<1>1. IsFiniteSet(H) /\ Cardinality(H) \in Nat BY HelpersFinite
<1>2. Cardinality(H) + (IF at[t] = "create" THEN 1 ELSE 0) = 0
  BY CountsAlike DEF WaitInv, Wait!CountExact
<1>3. at[t] # "create" /\ Cardinality(H) = 0 BY <1>1, <1>2
<1>4. H = {} BY <1>1, <1>3, FS_EmptySet
<1> QED BY <1>3, <1>4

-----------------------------------------------------------------------------
(* The caller.                                                                *)

Fine(t, p, f, n) ==
    /\ p \in Wait!Places \ {"create", "idle", "round"} /\ at[t] \notin {"create", "idle", "round"}
    /\ f \in {"pid", "poll", "pool"} /\ n \in 0 .. Wait!Any
    /\ p \in {"look", "test", "count", "answer"} => n \in Wait!Children
    /\ p = "count" => f # "poll"
    /\ p = "answer" => f # "pool" /\ taken[t] = {}
    /\ p \in {"sleep", "end", "drain"} => f = "pool"
    /\ status[t] = "pending" \/ f = "pool"
    /\ p \notin {"find", "lock"}
    /\ \A c \in Wait!Children : helper[t][c] # "none" =>
          /\ p # "answer"
          /\ p \in Walking => f = "pool" /\ c < n

LEMMA StepsOn ==
  ASSUME WaitInv, NEW t \in Waiters, NEW p, NEW f, NEW n, Fine(t, p, f, n),
         at' = [at EXCEPT ![t] = p], phase' = [phase EXCEPT ![t] = f],
         node' = [node EXCEPT ![t] = n], lock' \in {{}, {t}, lock},
         alerted' \in [Waiters -> BOOLEAN], alert' \in [Waiters -> BOOLEAN],
         event' \in [Waiters -> BOOLEAN],
         UNCHANGED <<Wait!childV, count, status, pid, helper, alerting, left, Wait!historyV>>
  PROVE  WaitInv'
<1> USE DEF Wait!childV, Wait!historyV
<1>1. WaitShape' BY DEF WaitInv, WaitShape, Fine
<1>2. \A r \in Waiters : at'[r] = IF r = t THEN p ELSE at[r] BY DEF WaitInv, WaitShape
<1>3. Wait!CountExact' BY <1>2, CountKept DEF Fine
<1>4. Given' BY <1>2, GivenKept DEF Fine, InCall
<1>5. Wait!SleptReportsTheDead' BY SleptKept
<1>6. ASSUME NEW r \in Waiters PROVE Walk(r)' /\ Helped(r)' /\ Decided(r)'
  <2>1. CASE r # t BY <2>1, Bystander DEF WaitInv, WaitShape
  <2>2. CASE r = t
    <3>1. at'[t] = p /\ phase'[t] = f /\ node'[t] = n BY DEF WaitInv, WaitShape
    <3>2. Walk(t)' BY <3>1 DEF Walk, Fine
    <3>3. Helped(t)' BY <3>1 DEF Helped, Fine
    <3>4. Decided(t)' BY <3>1 DEF WaitInv, Decided, Fine, InCall
    <3> QED BY <2>2, <3>2, <3>3, <3>4
  <2> QED BY <2>1, <2>2
<1> QED BY <1>1, <1>3, <1>4, <1>5, <1>6 DEF WaitInv

LEMMA WaitCalls ==
  ASSUME WaitInv, NEW t \in Waiters, NEW target \in Wait!Children \cup {Wait!Stranger, Wait!Any},
         Wait!Call(t, target)
  PROVE  WaitInv'
<1> USE DEF Wait!childV, Wait!tlcaV, Wait!helperV, Wait!historyV
<1>1. /\ at[t] = "idle" /\ left[t] > 0 /\ left' = [left EXCEPT ![t] = @ - 1]
      /\ node' = [node EXCEPT ![t] = target] /\ at' = [at EXCEPT ![t] = "round"]
      /\ UNCHANGED <<Wait!childV, lock, phase, alerted, Wait!tlcaV, Wait!helperV, Wait!historyV>>
  BY DEF Wait!Call, Wait!Go
<1>2. WaitShape'
  <2>1. left' \in [Waiters -> Nat] BY <1>1 DEF WaitInv, WaitShape
  <2>2. target \in 0 .. Wait!Any BY DEF Wait!Any
  <2>3. node' \in [Waiters -> 0 .. Wait!Any] BY <1>1, <2>2 DEF WaitInv, WaitShape
  <2>4. at' \in [Waiters -> Wait!Places] BY <1>1 DEF WaitInv, WaitShape
  <2> QED BY <1>1, <2>1, <2>3, <2>4 DEF WaitInv, WaitShape
<1>3. \A r \in Waiters : /\ at'[r] = (IF r = t THEN "round" ELSE at[r])
                         /\ node'[r] = IF r = t THEN target ELSE node[r]
  BY <1>1 DEF WaitInv, WaitShape
<1>4. Wait!CountExact' BY <1>1, <1>3, CountKept
<1>5. Given' BY <1>1, <1>3, GivenKept DEF InCall
<1>6. Wait!SleptReportsTheDead' BY <1>1, SleptKept
<1>7. ASSUME NEW r \in Waiters PROVE Walk(r)' /\ Helped(r)' /\ Decided(r)'
  <2>1. CASE r # t BY <1>1, <1>3, <2>1, Bystander
  <2>2. CASE r = t
    <3>1. at'[t] = "round" BY <1>3
    <3>2. Walk(t)' /\ Helped(t)' BY <3>1 DEF Walk, Helped
    <3>3. Decided(t)' BY <1>1, <3>1 DEF WaitInv, Decided, InCall
    <3> QED BY <2>2, <3>2, <3>3
  <2> QED BY <2>1, <2>2
<1> QED BY <1>2, <1>4, <1>5, <1>6, <1>7 DEF WaitInv

(* Nobody works for a thread that starts a call: the words are its own.       *)
LEMMA WaitRounds ==
  ASSUME WaitInv, NEW t \in Waiters, Wait!Round(t)
  PROVE  WaitInv'
<1> USE DEF Wait!childV, Wait!helperV
<1>1. PICK p \in {"lock", "find"}, f \in {"pid", "poll", "pool"} :
        /\ at' = [at EXCEPT ![t] = p] /\ phase' = [phase EXCEPT ![t] = f]
        /\ p = "find" => node[t] # Wait!Any
  <2>1. CASE node[t] = Wait!Any
    <3>1. /\ at' = [at EXCEPT ![t] = "lock"] /\ phase' = [phase EXCEPT ![t] = phase[t]]
          /\ phase[t] \in {"pid", "poll", "pool"}
      BY <2>1 DEF Wait!Round, Wait!Go, WaitInv, WaitShape
    <3> QED BY <3>1
  <2>2. CASE node[t] # Wait!Any BY <2>2 DEF Wait!Round, Wait!Go
  <2> QED BY <2>1, <2>2
<1>2. /\ at[t] = "round" /\ count[t] = 0
      /\ pid' = [pid EXCEPT ![t] = Wait!None] /\ status' = [status EXCEPT ![t] = "pending"]
      /\ event' = [event EXCEPT ![t] = FALSE]
      /\ taken' = [taken EXCEPT ![t] = {}]
      /\ UNCHANGED <<Wait!childV, lock, node, alerted, count, Wait!helperV, left, result, reports>>
  BY DEF Wait!Round
<1>3. \A c \in Wait!Children : helper[t][c] = "none" BY <1>2, NoneLeft
<1>4. WaitShape'
  <2>1. /\ at' \in [Waiters -> Wait!Places] /\ phase' \in [Waiters -> {"pid", "poll", "pool"}]
        /\ status' \in [Waiters -> {"pending", "more", "success"}]
    BY <1>1, <1>2 DEF WaitInv, WaitShape
  <2>2. /\ pid' \in [Waiters -> Wait!Pids]
        /\ event' \in [Waiters -> BOOLEAN] /\ taken' \in [Waiters -> SUBSET Wait!Children]
    BY <1>2 DEF WaitInv, WaitShape
  <2> QED BY <1>2, <2>1, <2>2 DEF WaitInv, WaitShape
<1>5. \A r \in Waiters : r # t =>
        /\ at'[r] = at[r] /\ phase'[r] = phase[r] /\ pid'[r] = pid[r] /\ status'[r] = status[r]
        /\ taken'[r] = taken[r]
  BY <1>1, <1>2 DEF WaitInv, WaitShape
<1>6. /\ at'[t] = p /\ phase'[t] = f /\ pid'[t] = Wait!None /\ status'[t] = "pending"
      /\ taken'[t] = {}
  BY <1>1, <1>2 DEF WaitInv, WaitShape
<1>7. Wait!CountExact' BY <1>2, <1>5, <1>6, CountKept
<1>8. Given'
  <2>1. \A r \in Waiters : taken'[r] \subseteq taken[r] /\ (InCall(r)' => InCall(r) \/ taken'[r] = {})
    BY <1>5, <1>6 DEF InCall
  <2> QED BY <1>2, <2>1 DEF WaitInv, Given
<1>9. Wait!SleptReportsTheDead' BY <1>2, SleptKept
<1>10. ASSUME NEW r \in Waiters PROVE Walk(r)' /\ Helped(r)' /\ Decided(r)'
  <2>1. CASE r # t BY <1>2, <1>5, <2>1, Bystander
  <2>2. CASE r = t
    <3>1. Walk(t)' /\ Helped(t)' BY <1>1, <1>2, <1>3, <1>6 DEF Walk, Helped
    <3>2. Decided(t)' BY <1>2, <1>3, <1>6 DEF Decided, InCall
    <3> QED BY <2>2, <3>1, <3>2
  <2> QED BY <2>1, <2>2
<1> QED BY <1>4, <1>7, <1>8, <1>9, <1>10 DEF WaitInv

(* A call that has not slept returns what it found, or nothing.               *)
Fresh(t, p) ==
    /\ result' \in [Waiters -> [pid : Wait!Pids, slept : BOOLEAN]]
    /\ result'[t].pid = p /\ ~ result'[t].slept
    /\ \A r \in Waiters \ {t} : result'[r] = result[r]
    /\ at' = [at EXCEPT ![t] = "idle"] /\ UNCHANGED reports

LEMMA FreshReturn ==
  ASSUME WaitInv, NEW t \in Waiters, NEW p \in Wait!Pids,
         Wait!Return(t, p, FALSE)
  PROVE  Fresh(t, p)
<1>1. /\ at' = [at EXCEPT ![t] = "idle"]
      /\ result' = [result EXCEPT ![t] = [pid |-> p, slept |-> FALSE]]
      /\ reports' = [c \in Wait!Children |-> reports[c] + IF FALSE /\ c = p THEN 1 ELSE 0]
  BY DEF Wait!Return, Wait!Go
<1>2. result \in [Waiters -> [pid : Wait!Pids, slept : BOOLEAN]]
  BY DEF WaitInv, WaitShape
<1>3. reports' = reports BY <1>1 DEF WaitInv, WaitShape
<1>4. [pid |-> p, slept |-> FALSE] \in [pid : Wait!Pids, slept : BOOLEAN]
  OBVIOUS
<1>5. result'[t] = [pid |-> p, slept |-> FALSE] BY <1>1, <1>2
<1>6. result'[t].pid = p /\ ~ result'[t].slept BY <1>5
<1>7. \A r \in Waiters \ {t} : result'[r] = result[r] BY <1>1, <1>2
<1>8. result' \in [Waiters -> [pid : Wait!Pids, slept : BOOLEAN]]
  BY <1>1, <1>2, <1>4
<1> QED BY <1>1, <1>3, <1>6, <1>7, <1>8 DEF Fresh

LEMMA Returns ==
  ASSUME WaitInv, NEW t \in Waiters, NEW p \in Wait!Pids, Fresh(t, p),
         at[t] # "create", taken[t] \subseteq {p},
         \A c \in Wait!Children : helper[t][c] # "none" => c = p,
         lock' \in {{}, {t}, lock}, pid' \in [Waiters -> Wait!Pids],
         status' \in [Waiters -> {"pending", "more", "success"}],
         \A r \in Waiters \ {t} :
            pid'[r] = pid[r] /\ status'[r] = status[r],
         UNCHANGED <<Wait!childV, phase, node, alerted, count, event, Wait!helperV, left, taken>>
  PROVE  WaitInv'
<1> USE DEF Wait!childV, Wait!helperV
<1>1. /\ at' = [at EXCEPT ![t] = "idle"] /\ UNCHANGED reports
      /\ result'[t].pid = p /\ ~ result'[t].slept
      /\ \A r \in Waiters \ {t} : result'[r] = result[r]
  BY DEF Fresh
<1>3. WaitShape'
  <2>1. at' \in [Waiters -> Wait!Places] BY <1>1 DEF WaitInv, WaitShape
  <2>2. result' \in [Waiters -> [pid : Wait!Pids, slept : BOOLEAN]] BY DEF Fresh
  <2>3. lock' \in {{}} \cup {{r} : r \in Waiters}
    <3>1. lock \in {{}} \cup {{r} : r \in Waiters} BY DEF WaitInv, WaitShape
    <3> QED BY <3>1
  <2> QED BY <1>1, <2>1, <2>2, <2>3 DEF WaitInv, WaitShape
<1>4. \A r \in Waiters : at'[r] = (IF r = t THEN "idle" ELSE at[r])
  BY <1>1 DEF WaitInv, WaitShape
<1>6. Wait!CountExact' BY <1>4, CountKept
<1>7. Given' BY <1>1, <1>4, GivenKept DEF InCall
<1>8. Wait!SleptReportsTheDead' BY <1>1 DEF WaitInv, Wait!SleptReportsTheDead
<1>9. ASSUME NEW r \in Waiters PROVE Walk(r)' /\ Helped(r)' /\ Decided(r)'
  <2>1. CASE r # t BY <1>1, <1>4, <2>1, Bystander
  <2>2. CASE r = t
    <3>1. Walk(t)' /\ Helped(t)' BY <1>1, <1>4 DEF Walk, Helped
    <3>2. Decided(t)' BY <1>1, <1>4 DEF WaitInv, Decided, InCall
    <3> QED BY <2>2, <3>1, <3>2
  <2> QED BY <2>1, <2>2
<1> QED BY <1>3, <1>6, <1>7, <1>8, <1>9 DEF WaitInv

LEMMA Stays ==
  ASSUME WaitInv, UNCHANGED <<alerted, Wait!tlcaV, Wait!helperV>>
  PROVE  /\ alerted' \in [Waiters -> BOOLEAN] /\ alert' \in [Waiters -> BOOLEAN]
         /\ event' \in [Waiters -> BOOLEAN] /\ pid' \in [Waiters -> Wait!Pids]
         /\ status' \in [Waiters -> {"pending", "more", "success"}]
         /\ UNCHANGED <<count, status, pid, helper, alerting>>
BY DEF WaitInv, WaitShape, Wait!tlcaV, Wait!helperV

LEMMA WaitFinds ==
  ASSUME WaitInv, NEW t \in Waiters, Wait!Find(t)
  PROVE  WaitInv'
<1>1. at[t] = "find" /\ UNCHANGED <<Wait!childV, phase, node, alerted, Wait!tlcaV, Wait!helperV,
                                    left, taken>>
  BY DEF Wait!Find
<1>2. /\ taken[t] = {} /\ status[t] = "pending" /\ node[t] \in 0 .. Last
      /\ \A c \in Wait!Children : helper[t][c] = "none"
  <2>1. Walk(t) /\ Helped(t) /\ Decided(t) BY DEF WaitInv
  <2>2. status[t] = "pending" /\ node[t] # Wait!Any BY <1>1, <2>1 DEF Walk
  <2>3. taken[t] = {} BY <1>1, <2>1, <2>2 DEF Decided, InCall
  <2>4. \A c \in Wait!Children : helper[t][c] = "none" BY <1>1, <2>1 DEF Helped
  <2>5. node[t] \in 0 .. Wait!Any BY DEF WaitInv, WaitShape
  <2> QED BY <2>2, <2>3, <2>4, <2>5
<1>3. CASE node[t] = Wait!Stranger
  <2>1. lock' = {t} /\ Wait!Return(t, Wait!None, FALSE) BY <1>3 DEF Wait!Find
  <2>2. Wait!None \in Wait!Pids /\ FALSE \in BOOLEAN OBVIOUS
  <2>3. Fresh(t, Wait!None) BY <2>1, <2>2, FreshReturn
  <2>4. /\ at[t] # "create" /\ taken[t] \subseteq {Wait!None} /\ lock' \in {{}, {t}, lock}
        /\ \A c \in Wait!Children : helper[t][c] # "none" => c = Wait!None
    BY <1>1, <1>2, <2>1
  <2> QED BY <1>1, <2>2, <2>3, <2>4, Stays, Returns DEF Wait!tlcaV
<1>4. CASE node[t] # Wait!Stranger
  <2>1. lock' = {} /\ at' = [at EXCEPT ![t] = "look"] /\ UNCHANGED <<result, reports>>
    BY <1>4 DEF Wait!Find, Wait!Go
  <2>2. node[t] \in Wait!Children BY <1>2, <1>4
  <2>3. Fine(t, "look", phase[t], node[t])
    BY <1>1, <1>2, <2>2 DEF Fine, WaitInv, WaitShape
  <2>4. phase' = [phase EXCEPT ![t] = phase[t]] /\ node' = [node EXCEPT ![t] = node[t]]
    BY <1>1 DEF WaitInv, WaitShape
  <2>5. lock' \in {{}, {t}, lock} BY <2>1
  <2>6. /\ alerted' \in [Waiters -> BOOLEAN] /\ alert' \in [Waiters -> BOOLEAN]
        /\ event' \in [Waiters -> BOOLEAN]
        /\ UNCHANGED <<Wait!childV, count, status, pid, helper, alerting, left,
                       Wait!historyV>>
    <3>1. UNCHANGED Wait!historyV BY <1>1, <2>1 DEF Wait!historyV
    <3> QED BY <1>1, <3>1, Stays
  <2> HIDE DEF Wait!Children, Wait!Any, Wait!Pids
  <2> QED BY <2>1, <2>3, <2>4, <2>5, <2>6, StepsOn
<1> QED BY <1>3, <1>4

LEMMA WaitLocks ==
  ASSUME WaitInv, NEW t \in Waiters, Wait!Lock(t)
  PROVE  WaitInv'
<1>1. /\ at[t] = "lock" /\ lock' = {t} /\ at' = [at EXCEPT ![t] = "look"]
      /\ phase' = [phase EXCEPT ![t] = "poll"] /\ node' = [node EXCEPT ![t] = 1]
      /\ UNCHANGED <<Wait!childV, alerted, Wait!tlcaV, Wait!helperV, left, Wait!historyV>>
  BY DEF Wait!Lock, Wait!Go
<1>2. status[t] = "pending" /\ \A c \in Wait!Children : helper[t][c] = "none"
  BY <1>1 DEF WaitInv, WaitShape, Walk, Helped
<1>3. Fine(t, "look", "poll", 1) BY <1>1, <1>2 DEF Fine
<1> QED BY <1>1, <1>3, Stays, StepsOn

(* What a walk over the children comes to next.                               *)
LEMMA Advances ==
  ASSUME WaitInv, NEW t \in Waiters, Wait!Advance(t), at[t] \in Walking, at[t] # "create",
         phase[t] # "pid",
         UNCHANGED <<Wait!childV, alerted, Wait!tlcaV, Wait!helperV, left, Wait!historyV>>
  PROVE  WaitInv'
<1>1. /\ node[t] \in Wait!Children /\ phase[t] \in {"poll", "pool"} /\ Last \in Nat
      /\ phase[t] = "poll" => status[t] = "pending" /\ \A c \in Wait!Children : helper[t][c] = "none"
      /\ \A c \in Wait!Children : helper[t][c] # "none" => c < node[t]
  BY DEF WaitInv, WaitShape, Walk, Helped
<1>2. CASE node[t] < Last
  <2>1. /\ node' = [node EXCEPT ![t] = node[t] + 1] /\ at' = [at EXCEPT ![t] = "look"]
        /\ phase' = [phase EXCEPT ![t] = phase[t]] /\ lock' = lock
    BY <1>2 DEF Wait!Advance, Wait!Go, WaitInv, WaitShape
  <2>2. node[t] + 1 \in Wait!Children BY <1>1, <1>2
  <2>3. Fine(t, "look", phase[t], node[t] + 1) BY <1>1, <2>2 DEF Fine
  <2> QED BY <2>1, <2>3, Stays, StepsOn
<1>3. CASE node[t] = Last /\ phase[t] = "poll"
  <2>1. /\ node' = [node EXCEPT ![t] = 1] /\ at' = [at EXCEPT ![t] = "look"]
        /\ phase' = [phase EXCEPT ![t] = "pool"] /\ lock' = lock
    BY <1>3 DEF Wait!Advance, Wait!Go
  <2>2. Fine(t, "look", "pool", 1) BY <1>1, <1>3 DEF Fine
  <2> QED BY <2>1, <2>2, Stays, StepsOn
<1>4. CASE node[t] = Last /\ phase[t] = "pool"
  <2>1. /\ node' = [node EXCEPT ![t] = node[t]] /\ at' = [at EXCEPT ![t] = "sleep"]
        /\ phase' = [phase EXCEPT ![t] = "pool"] /\ lock' = {}
    BY <1>4 DEF Wait!Advance, Wait!Go, WaitInv, WaitShape
  <2>2. Fine(t, "sleep", "pool", node[t]) BY <1>1, <1>4 DEF Fine
  <2> QED BY <2>1, <2>2, Stays, StepsOn
<1> QED BY <1>1, <1>2, <1>3, <1>4

LEMMA WaitLooks ==
  ASSUME WaitInv, NEW t \in Waiters, Wait!Look(t) \/ Wait!Test(t)
  PROVE  WaitInv'
<1>1. /\ at[t] \in {"look", "test"}
      /\ UNCHANGED <<Wait!childV, alerted, Wait!tlcaV, Wait!helperV, left, taken>>
  BY DEF Wait!Look, Wait!Test, Wait!historyV
<1>2. /\ node[t] \in Wait!Children /\ phase[t] \in {"pid", "poll", "pool"} /\ node[t] \in 0 .. Wait!Any
      /\ phase[t] # "pool" =>
            /\ status[t] = "pending" /\ taken[t] = {}
            /\ \A c \in Wait!Children : helper[t][c] = "none"
      /\ \A c \in Wait!Children : helper[t][c] # "none" => c < node[t]
  <2>1. /\ Walk(t) /\ Helped(t) /\ Decided(t) /\ InCall(t)
        /\ phase[t] \in {"pid", "poll", "pool"} /\ node[t] \in 0 .. Wait!Any
    BY <1>1 DEF WaitInv, WaitShape, InCall
  <2>2. node[t] \in Wait!Children /\ (phase[t] # "pool" => status[t] = "pending")
    BY <1>1, <2>1 DEF Walk
  <2>3. \A c \in Wait!Children : helper[t][c] # "none" => phase[t] = "pool" /\ c < node[t]
    BY <1>1, <2>1 DEF Helped
  <2>4. status[t] = "pending" => taken[t] = {} BY <2>1 DEF Decided
  <2> QED BY <2>1, <2>2, <2>3, <2>4
<1>3. /\ UNCHANGED phase => phase' = [phase EXCEPT ![t] = phase[t]]
      /\ UNCHANGED node => node' = [node EXCEPT ![t] = node[t]]
  BY DEF WaitInv, WaitShape
<1>4. CASE Wait!Return(t, Wait!None, FALSE) /\ UNCHANGED <<lock, phase,
                                                                  node>> /\ phase[t] = "pid"
  <2>1. Wait!None \in Wait!Pids /\ FALSE \in BOOLEAN OBVIOUS
  <2>2. Fresh(t, Wait!None) BY <1>4, <2>1, FreshReturn
  <2>3. /\ at[t] # "create" /\ taken[t] \subseteq {Wait!None} /\ lock' \in {{}, {t}, lock}
        /\ \A c \in Wait!Children : helper[t][c] # "none" => c = Wait!None
    BY <1>1, <1>2, <1>4
  <2> QED BY <1>1, <1>4, <2>1, <2>2, <2>3, Stays, Returns DEF Wait!tlcaV
<1>5. CASE Wait!Advance(t) /\ UNCHANGED Wait!historyV /\ phase[t] # "pid" BY <1>1, <1>5, Advances
<1>6. ASSUME NEW p, Fine(t, p, phase[t], node[t]), Wait!Go(t, p),
             UNCHANGED <<lock, phase, node, Wait!historyV>>
      PROVE  WaitInv'
  BY <1>1, <1>3, <1>6, Stays, StepsOn DEF Wait!Go
<1>7. Fine(t, "test", phase[t], node[t]) BY <1>1, <1>2 DEF Fine
<1>8. phase[t] # "pool" => Fine(t, "answer", phase[t], node[t]) BY <1>1, <1>2 DEF Fine
<1>9. phase[t] # "poll" => Fine(t, "count", phase[t], node[t]) BY <1>1, <1>2 DEF Fine
<1>10. CASE Wait!Look(t)
  <2>1. CASE node[t] \in waitable BY <1>1, <1>6, <1>7, <1>10, <2>1 DEF Wait!Look, Wait!historyV
  <2>2. CASE node[t] \notin waitable /\ phase[t] = "pid" BY <1>4, <1>10, <2>2 DEF Wait!Look
  <2>3. CASE node[t] \notin waitable /\ phase[t] # "pid"
    BY <1>1, <1>5, <1>10, <2>3 DEF Wait!Look, Wait!historyV
  <2> QED BY <2>1, <2>2, <2>3
<1>11. CASE Wait!Test(t)
  <2>1. CASE node[t] \in exited /\ phase[t] # "pool" BY <1>6, <1>8, <1>11, <2>1 DEF Wait!Test
  <2>2. CASE node[t] \notin exited /\ phase[t] # "poll" BY <1>6, <1>9, <1>11, <2>2 DEF Wait!Test
  <2>3. CASE (node[t] \in exited /\ phase[t] = "pool") \/ (node[t] \notin exited /\ phase[t] = "poll")
    BY <1>5, <1>11, <2>3 DEF Wait!Test
  <2> QED BY <2>1, <2>2, <2>3
<1> QED BY <1>10, <1>11

(* A helper is counted before it is there.                                    *)
LEMMA WaitCounts ==
  ASSUME WaitInv, NEW t \in Waiters, Wait!Count(t)
  PROVE  WaitInv'
<1> USE DEF Wait!childV, Wait!helperV, Wait!historyV
<1>1. /\ at[t] = "count" /\ count' = [count EXCEPT ![t] = @ + 1]
      /\ at' = [at EXCEPT ![t] = "create"]
      /\ UNCHANGED <<Wait!childV, lock, phase, node, alerted, status, pid, event,
                     Wait!helperV,
                     left, Wait!historyV>>
  BY DEF Wait!Count, Wait!Go
<1>2. WaitShape'
  <2>1. count' \in [Waiters -> Nat]
    <3>1. count \in [Waiters -> Nat] BY DEF WaitInv, WaitShape
    <3> QED BY <1>1, <3>1
  <2>2. at' \in [Waiters -> Wait!Places] BY <1>1 DEF WaitInv, WaitShape
  <2> QED BY <1>1, <2>1, <2>2 DEF WaitInv, WaitShape
<1>3. \A r \in Waiters : /\ at'[r] = (IF r = t THEN "create" ELSE at[r])
                         /\ count'[r] = IF r = t THEN count[r] + 1 ELSE count[r]
  BY <1>1 DEF WaitInv, WaitShape
<1>4. Wait!CountExact'
  <2>1. ASSUME NEW r \in Waiters
        PROVE  count'[r] = Cardinality({c \in Wait!Children : helper'[r][c] # "none"})
                           + IF at'[r] = "create" THEN 1 ELSE 0
    <3> DEFINE n == Cardinality({c \in Wait!Children : helper[r][c] # "none"})
    <3>1. n \in Nat BY HelpersFinite
    <3>2. count[r] = n + IF at[r] = "create" THEN 1 ELSE 0
      BY CountsAlike DEF WaitInv, Wait!CountExact
    <3>3. n = Cardinality({c \in Wait!Children : helper'[r][c] # "none"}) BY <1>1
    <3> HIDE DEF n
    <3> QED BY <1>1, <1>3, <3>1, <3>2, <3>3
  <2> QED BY <2>1, CountsAlike DEF Wait!CountExact
<1>5. Given' BY <1>1, <1>3, GivenKept DEF InCall
<1>6. Wait!SleptReportsTheDead' BY <1>1, SleptKept
<1>7. ASSUME NEW r \in Waiters PROVE Walk(r)' /\ Helped(r)' /\ Decided(r)'
  <2>1. CASE r # t BY <1>1, <1>3, <2>1, Bystander
  <2>2. CASE r = t
    <3>1. at'[t] = "create" BY <1>3
    <3>2. Walk(t)' /\ Helped(t)' BY <1>1, <3>1 DEF WaitInv, Walk, Helped
    <3>3. Decided(t)' BY <1>1, <3>1 DEF WaitInv, Decided, InCall
    <3> QED BY <2>2, <3>2, <3>3
  <2> QED BY <2>1, <2>2
<1> QED BY <1>2, <1>4, <1>5, <1>6, <1>7 DEF WaitInv

(* What its creation leaves.                                                  *)
LEMMA WaitCreates ==
  ASSUME WaitInv, NEW t \in Waiters, Wait!Create(t)
  PROVE  WaitInv'
<1> USE DEF Wait!childV, Wait!historyV
<1> DEFINE n == node[t]
<1>1. /\ at[t] = "create" /\ helper' = [helper EXCEPT ![t][n] = "wait"]
      /\ IF phase[t] = "pid"
         THEN Wait!Go(t, "answer") /\ UNCHANGED <<lock, phase, node>>
         ELSE Wait!Advance(t)
      /\ UNCHANGED <<Wait!childV, alerted, count, status, pid, event, alerting, alert, left,
                     Wait!historyV>>
  BY DEF Wait!Create, Wait!MayFail
<1>2. /\ n \in Wait!Children /\ helper[t][n] = "none" /\ phase[t] \in {"pid", "pool"}
      /\ phase[t] = "pid" =>
            /\ status[t] = "pending" /\ taken[t] = {}
            /\ \A c \in Wait!Children : helper[t][c] = "none"
      /\ \A c \in Wait!Children : helper[t][c] # "none" => c < n
  <2>1. Walk(t) /\ Helped(t) /\ Decided(t) BY DEF WaitInv
  <2>2. n \in Wait!Children /\ phase[t] # "poll" /\ (phase[t] # "pool" => status[t] = "pending")
    BY <1>1, <2>1 DEF Walk
  <2>3. \A c \in Wait!Children : helper[t][c] # "none" => phase[t] = "pool" /\ c < n
    BY <1>1, <2>1 DEF Helped
  <2>4. status[t] = "pending" => taken[t] = {} BY <1>1, <2>1 DEF Decided, InCall
  <2>5. phase[t] \in {"pid", "poll", "pool"} BY DEF WaitInv, WaitShape
  <2>6. ~ (n < n) BY <2>2
  <2> QED BY <2>2, <2>3, <2>4, <2>5, <2>6
<1>3. \E p \in {"look", "sleep", "answer"}, f \in {"pid", "pool"}, m \in Wait!Children :
        /\ at' = [at EXCEPT ![t] = p] /\ phase' = [phase EXCEPT ![t] = f]
        /\ node' = [node EXCEPT ![t] = m] /\ lock' \in {{}, lock}
        /\ p = "answer" <=> phase[t] = "pid"
        /\ p = "look" => m = n + 1
        /\ p = "answer" => m = n
        /\ f = phase[t]
  <2>0. /\ phase = [phase EXCEPT ![t] = phase[t]] /\ node = [node EXCEPT ![t] = n]
    BY DEF WaitInv, WaitShape
  <2>1. CASE phase[t] = "pid" BY <1>1, <1>2, <2>0, <2>1 DEF Wait!Go
  <2>2. CASE phase[t] = "pool" /\ n < Last
    <3>1. n + 1 \in Wait!Children BY <1>2, <2>2
    <3>2. /\ at' = [at EXCEPT ![t] = "look"] /\ node' = [node EXCEPT ![t] = n + 1]
          /\ UNCHANGED <<lock, phase>>
      BY <1>1, <2>2 DEF Wait!Advance, Wait!Go
    <3> QED BY <2>0, <2>2, <3>1, <3>2
  <2>3. CASE phase[t] = "pool" /\ ~ (n < Last)
    <3>1. /\ at' = [at EXCEPT ![t] = "sleep"] /\ UNCHANGED <<phase, node>> /\ lock' = {}
      BY <1>1, <2>3 DEF Wait!Advance, Wait!Go
    <3> QED BY <1>2, <2>0, <2>3, <3>1
  <2> QED BY <1>2, <2>1, <2>2, <2>3
<1>4. PICK p \in {"look", "sleep", "answer"}, f \in {"pid", "pool"}, m \in Wait!Children :
        /\ at' = [at EXCEPT ![t] = p] /\ phase' = [phase EXCEPT ![t] = f]
        /\ node' = [node EXCEPT ![t] = m] /\ lock' \in {{}, lock}
        /\ p = "answer" <=> phase[t] = "pid"
        /\ p = "look" => m = n + 1
        /\ p = "answer" => m = n
        /\ f = phase[t]
  BY <1>3
<1> HIDE DEF n
<1>5. WaitShape'
  <2>1. m \in 0 .. Wait!Any OBVIOUS
  <2>2. /\ at' \in [Waiters -> Wait!Places] /\ phase' \in [Waiters -> {"pid", "poll", "pool"}]
        /\ node' \in [Waiters -> 0 .. Wait!Any]
    BY <1>4, <2>1 DEF WaitInv, WaitShape
  <2>3. helper' \in [Waiters -> [Wait!Children -> Wait!HelperPlaces]] BY <1>1 DEF WaitInv, WaitShape
  <2> QED BY <1>1, <1>4, <2>2, <2>3 DEF WaitInv, WaitShape
<1>6. /\ at'[t] = p /\ phase'[t] = f /\ node'[t] = m
      /\ \A c \in Wait!Children : helper'[t][c] = IF c = n THEN "wait" ELSE helper[t][c]
      /\ \A r \in Waiters : r # t =>
            at'[r] = at[r] /\ phase'[r] = phase[r] /\ node'[r] = node[r] /\ helper'[r] = helper[r]
  BY <1>1, <1>4 DEF WaitInv, WaitShape
<1>7. Wait!CountExact'
  <2>1. ASSUME NEW r \in Waiters
        PROVE  count'[r] = Cardinality({c \in Wait!Children : helper'[r][c] # "none"})
                           + IF at'[r] = "create" THEN 1 ELSE 0
    <3> DEFINE H == {c \in Wait!Children : helper[r][c] # "none"}
               K == {c \in Wait!Children : helper'[r][c] # "none"}
    <3>1. count[r] = Cardinality(H) + IF at[r] = "create" THEN 1 ELSE 0
      BY CountsAlike DEF WaitInv, Wait!CountExact
    <3>2. CASE r # t
      <4>1. K = H /\ at'[r] = at[r] BY <1>6, <3>2
      <4> QED BY <1>1, <3>1, <4>1
    <3>3. CASE r = t
      <4>1. K = H \cup {n} /\ n \notin H BY <1>2, <1>6, <3>3
      <4>2. IsFiniteSet(H) /\ Cardinality(H) \in Nat BY HelpersFinite
      <4>3. Cardinality(K) = Cardinality(H) + 1 BY <4>1, <4>2, FS_AddElement
      <4>4. at'[r] # "create" BY <1>6, <3>3
      <4> QED BY <1>1, <3>1, <3>3, <4>2, <4>3, <4>4
    <3> QED BY <3>2, <3>3
  <2> QED BY <2>1, CountsAlike DEF Wait!CountExact
<1>8. Given' BY <1>1, <1>6, GivenKept DEF InCall
<1>9. Wait!SleptReportsTheDead' BY <1>1, SleptKept
<1>10. ASSUME NEW r \in Waiters PROVE Walk(r)' /\ Helped(r)' /\ Decided(r)'
  <2>1. CASE r # t BY <1>1, <1>6, <2>1, Bystander
  <2>2. CASE r = t
    <3>1. Walk(t)' BY <1>1, <1>2, <1>4, <1>6 DEF Walk
    <3>2. Helped(t)' BY <1>1, <1>2, <1>4, <1>6 DEF Helped
    <3>3. Decided(t)'
      <4>1. \A c \in Wait!Children : helper'[t][c] \in Deciders \cup {"cas"} <=>
                                helper[t][c] \in Deciders \cup {"cas"}
        BY <1>2, <1>6
      <4>2. \A c \in Wait!Children : helper'[t][c] \in Deciders <=> helper[t][c] \in Deciders
        BY <1>2, <1>6
      <4>3. \A c \in Wait!Children : helper[t][c] \in Deciders => helper'[t][c] = helper[t][c]
        BY <1>2, <1>6
      <4>4. InCall(t) BY <1>1 DEF InCall
      <4> QED BY <1>1, <1>2, <1>4, <1>6, <4>1, <4>2, <4>3, <4>4 DEF WaitInv, Decided
    <3> QED BY <2>2, <3>1, <3>2, <3>3
  <2> QED BY <2>1, <2>2
<1> QED BY <1>5, <1>7, <1>8, <1>9, <1>10 DEF WaitInv

LEMMA WaitAnswers ==
  ASSUME WaitInv, NEW t \in Waiters, Wait!Answer(t)
  PROVE  WaitInv'
<1> DEFINE n == node[t]
<1>1. /\ at[t] = "answer" /\ pid' = [pid EXCEPT ![t] = n]
      /\ status' = [status EXCEPT ![t] = "success"] /\ lock' = lock \ {t}
      /\ Wait!Return(t, n, FALSE)
      /\ UNCHANGED <<Wait!childV, phase, node, alerted, count, event, Wait!helperV, left, taken>>
  BY DEF Wait!Answer, Wait!MayFail
<1>2. /\ n \in Wait!Children /\ taken[t] \subseteq {n} /\ at[t] # "create"
      /\ \A c \in Wait!Children : helper[t][c] # "none" => c = n
  BY <1>1 DEF WaitInv, Walk, Helped, Decided
<1>3. n \in Wait!Pids BY <1>2
<1>4. Fresh(t, n) BY <1>1, <1>3, FreshReturn
<1>5. /\ pid' \in [Waiters -> Wait!Pids]
      /\ status' \in [Waiters -> {"pending", "more", "success"}]
      /\ \A r \in Waiters \ {t} :
            pid'[r] = pid[r] /\ status'[r] = status[r]
  BY <1>1, <1>3 DEF WaitInv, WaitShape
<1>6. lock' \in {{}, {t}, lock}
  <2>1. lock \in {{}} \cup {{r} : r \in Waiters} BY DEF WaitInv, WaitShape
  <2>2. CASE lock = {} BY <1>1, <2>2
  <2>3. CASE \E r \in Waiters : lock = {r} BY <1>1, <2>3
  <2> QED BY <2>1, <2>2, <2>3
<1> HIDE DEF n
<1> QED BY <1>1, <1>2, <1>3, <1>4, <1>5, <1>6, Returns

LEMMA WaitWakes ==
  ASSUME WaitInv, NEW t \in Waiters, Wait!Wake(t) \/ Wait!Apc(t) \/ Wait!End(t)
  PROVE  WaitInv'
<1>1. /\ at[t] \in {"sleep", "end"} /\ phase[t] = "pool" /\ node[t] \in 0 .. Wait!Any
      /\ phase' = [phase EXCEPT ![t] = "pool"] /\ node' = [node EXCEPT ![t] = node[t]]
      /\ lock' = lock
      /\ UNCHANGED <<Wait!childV, count, status, pid, helper, alerting, left, Wait!historyV>>
  BY DEF Wait!Wake, Wait!Apc, Wait!End, WaitInv, WaitShape, Walk, Wait!tlcaV, Wait!helperV
<1>2. /\ alerted' \in [Waiters -> BOOLEAN] /\ alert' \in [Waiters -> BOOLEAN]
      /\ event' \in [Waiters -> BOOLEAN]
  <2>1. /\ alerted \in [Waiters -> BOOLEAN] /\ alert \in [Waiters -> BOOLEAN]
        /\ event \in [Waiters -> BOOLEAN]
    BY DEF WaitInv, WaitShape
  <2>2. (event[t] \/ count[t] > 0) \in BOOLEAN OBVIOUS
  <2>3. CASE Wait!Wake(t) BY <2>1, <2>3 DEF Wait!Wake, Wait!tlcaV
  <2>4. CASE Wait!Apc(t) BY <2>1, <2>4 DEF Wait!Apc, Wait!tlcaV, Wait!helperV
  <2>5. CASE Wait!End(t) BY <2>1, <2>2, <2>5 DEF Wait!End, Wait!helperV
  <2> QED BY <2>3, <2>4, <2>5
<1>3. \E p \in {"sleep", "end", "drain"} : at' = [at EXCEPT ![t] = p]
  <2>1. at = [at EXCEPT ![t] = at[t]] BY DEF WaitInv, WaitShape
  <2> QED BY <2>1 DEF Wait!Wake, Wait!Apc, Wait!End, Wait!Go
<1>4. PICK p \in {"sleep", "end", "drain"} : at' = [at EXCEPT ![t] = p] BY <1>3
<1>5. Fine(t, p, "pool", node[t]) BY <1>1 DEF Fine
<1> QED BY <1>1, <1>2, <1>4, <1>5, StepsOn

(* What a call that slept gives is what its helpers have decided.             *)
LEMMA WaitDrains ==
  ASSUME WaitInv, NEW t \in Waiters, Wait!Drain(t)
  PROVE  WaitInv'
<1> USE DEF Wait!childV, Wait!helperV
<1> DEFINE p == IF pid[t] = Wait!None /\ alerted[t] THEN Wait!EINTR ELSE pid[t]
<1>1. /\ at[t] = "drain" /\ count[t] = 0
      /\ pid' = [pid EXCEPT ![t] = p] /\ at' = [at EXCEPT ![t] = "idle"]
      /\ result' = [result EXCEPT ![t] = [pid |-> p, slept |-> TRUE]]
      /\ reports' = [c \in Wait!Children |-> reports[c] + IF c = p THEN 1 ELSE 0]
      /\ UNCHANGED <<Wait!childV, lock, phase, node, alerted, count, status, event,
                     Wait!helperV,
                     left, taken>>
  BY DEF Wait!Drain, Wait!Finish, Wait!Return, Wait!Go
<1>2. \A c \in Wait!Children : helper[t][c] = "none" BY <1>1, NoneLeft
<1>3. pid[t] \in Wait!Pids /\ p \in Wait!Pids /\ (p \in Wait!Children => p = pid[t])
  BY DEF WaitInv, WaitShape
<1>4. /\ taken[t] \subseteq {p}
      /\ p \in Wait!Children => taken[t] = {p}
  <2>1. Decided(t) /\ status[t] \in {"pending", "more", "success"} /\ InCall(t)
        /\ taken[t] \subseteq Wait!Children
    BY <1>1 DEF WaitInv, WaitShape, InCall
  <2>2. CASE status[t] = "pending"
    <3>1. taken[t] = {} /\ pid[t] = Wait!None BY <2>1, <2>2 DEF Decided
    <3> QED BY <1>3, <3>1
  <2>3. status[t] # "more" BY <1>2, <2>1 DEF Decided
  <2>4. CASE status[t] = "success"
    <3>1. taken[t] = {pid[t]} BY <2>1, <2>4 DEF Decided
    <3>2. pid[t] \in Wait!Children /\ p = pid[t] BY <2>1, <3>1
    <3> QED BY <3>1, <3>2
  <2> QED BY <2>1, <2>2, <2>3, <2>4
<1> HIDE DEF p
<1>5. WaitShape'
  <2>1. [pid |-> p, slept |-> TRUE] \in [pid : Wait!Pids, slept : BOOLEAN]
    BY <1>3
  <2>2. result' \in [Waiters -> [pid : Wait!Pids, slept : BOOLEAN]]
    BY <1>1, <2>1 DEF WaitInv, WaitShape
  <2>3. pid' \in [Waiters -> Wait!Pids] /\ at' \in [Waiters -> Wait!Places]
    BY <1>1, <1>3 DEF WaitInv, WaitShape
  <2>4. reports' \in [Wait!Children -> Nat] BY <1>1 DEF WaitInv, WaitShape
  <2> QED BY <1>1, <2>2, <2>3, <2>4 DEF WaitInv, WaitShape
<1>6. /\ at'[t] = "idle" /\ result'[t] = [pid |-> p, slept |-> TRUE]
      /\ \A r \in Waiters : r # t =>
            at'[r] = at[r] /\ result'[r] = result[r] /\ pid'[r] = pid[r]
  BY <1>1 DEF WaitInv, WaitShape
<1>7. Wait!CountExact' BY <1>1, <1>6, CountKept
<1>8. Given'
  <2>1. \A c \in Wait!Children : /\ reports[c] \in Nat /\ reports[c] <= 1
                                 /\ c \in waitable => reports[c] = 0
    BY DEF WaitInv, WaitShape, Given
  <2>2. ASSUME p \in Wait!Children PROVE reports[p] = 0 /\ p \notin waitable
    <3>1. p \in taken[t] /\ InCall(t) BY <1>1, <1>4, <2>2 DEF InCall
    <3> QED BY <3>1 DEF WaitInv, Given
  <2>3. \A c \in Wait!Children : reports'[c] = (IF c = p THEN 1 ELSE reports[c])
    BY <1>1, <2>1, <2>2
  <2>4. \A c \in Wait!Children : reports'[c] <= 1 /\ (c \in waitable' => reports'[c] = 0)
    BY <1>1, <2>1, <2>2, <2>3
  <2>5. ASSUME NEW r \in Waiters, InCall(r)', NEW c \in taken'[r] PROVE reports'[c] = 0
    <3>1. r # t /\ InCall(r) BY <1>6, <2>5 DEF InCall
    <3>2. c \in Wait!Children /\ reports[c] = 0 BY <1>1, <3>1 DEF WaitInv, WaitShape, Given
    <3>3. c # p
      <4>1. taken[r] \cap taken[t] = {} BY <3>1 DEF WaitInv, Given
      <4> QED BY <1>1, <1>4, <3>2, <4>1
    <3> QED BY <2>3, <3>2, <3>3
  <2> QED BY <1>1, <2>4, <2>5 DEF WaitInv, Given
<1>9. Wait!SleptReportsTheDead'
  <2>1. ASSUME NEW r \in Waiters, result'[r].slept, result'[r].pid \in Wait!Children
        PROVE  result'[r].pid \in exited' \ waitable'
    <3>1. CASE r # t BY <1>1, <1>6, <2>1, <3>1 DEF WaitInv, Wait!SleptReportsTheDead
    <3>2. CASE r = t
      <4>1. p \in Wait!Children BY <1>6, <2>1, <3>2
      <4>2. p \in exited \ waitable BY <1>4, <4>1 DEF WaitInv, Given
      <4> QED BY <1>1, <1>6, <3>2, <4>2
    <3> QED BY <3>1, <3>2
  <2> QED BY <2>1 DEF Wait!SleptReportsTheDead
<1>10. ASSUME NEW r \in Waiters PROVE Walk(r)' /\ Helped(r)' /\ Decided(r)'
  <2>1. CASE r # t BY <1>1, <1>6, <2>1, Bystander
  <2>2. CASE r = t
    <3>1. Walk(t)' /\ Helped(t)' BY <1>1, <1>2, <1>6 DEF Walk, Helped
    <3>2. Decided(t)' BY <1>1, <1>2, <1>4, <1>6 DEF Decided, InCall
    <3> QED BY <2>2, <3>1, <3>2
  <2> QED BY <2>1, <2>2
<1> QED BY <1>5, <1>7, <1>8, <1>9, <1>10 DEF WaitInv

-----------------------------------------------------------------------------
(* The helpers.                                                               *)

LEMMA HelperSteps ==
  ASSUME WaitInv, NEW t \in Waiters, NEW c \in Wait!Children,
         NEW l \in Wait!HelperPlaces \ {"none"},
         helper[t][c] # "none", Wait!Step(t, c, l), Wait!HelperOnly, UNCHANGED <<count, event>>,
         waitable' \subseteq waitable, status' \in [Waiters -> {"pending", "more", "success"}],
         pid' \in [Waiters -> Wait!Pids],
         taken' \in [Waiters -> SUBSET Wait!Children],
         \A r \in Waiters \ {t} : /\ status'[r] = status[r] /\ pid'[r] = pid[r]
                                  /\ taken'[r] = taken[r],
         Given', Decided(t)'
  PROVE  WaitInv'
<1>1. /\ helper' = [helper EXCEPT ![t][c] = l]
      /\ UNCHANGED <<exited, lock, at, phase, node, alerted, alerting, alert, left, result,
                     reports>>
  BY DEF Wait!Step, Wait!HelperOnly, Wait!walkV
<1>2. WaitShape'
  <2>1. helper' \in [Waiters -> [Wait!Children -> Wait!HelperPlaces]] BY <1>1 DEF WaitInv, WaitShape
  <2> QED BY <1>1, <2>1 DEF WaitInv, WaitShape
<1>3. /\ \A r \in Waiters : r # t => helper'[r] = helper[r]
      /\ \A d \in Wait!Children : helper'[t][d] = IF d = c THEN l ELSE helper[t][d]
  BY <1>1 DEF WaitInv, WaitShape
<1>4. Wait!CountExact'
  <2>1. \A r \in Waiters : {d \in Wait!Children : helper'[r][d] # "none"}
                           = {d \in Wait!Children : helper[r][d] # "none"}
    BY <1>3
  <2> QED BY <1>1, <2>1, CountsAlike DEF WaitInv, Wait!CountExact
<1>5. Wait!SleptReportsTheDead' BY <1>1, SleptKept
<1>6. ASSUME NEW r \in Waiters PROVE Walk(r)' /\ Helped(r)' /\ Decided(r)'
  <2>1. CASE r # t BY <1>1, <1>3, <2>1, Bystander
  <2>2. CASE r = t
    <3>1. Helped(t)' BY <1>1, <1>3 DEF WaitInv, Helped
    <3>2. Walk(t)' BY <1>1 DEF WaitInv, Walk, Helped
    <3> QED BY <2>2, <3>1, <3>2
  <2> QED BY <2>1, <2>2
<1> QED BY <1>2, <1>4, <1>5, <1>6 DEF WaitInv

(* A helper that decides is the only one, and what there is is its work.      *)
LEMMA OneDecides ==
  ASSUME WaitInv, NEW t \in Waiters, NEW c \in Wait!Children, helper[t][c] \in Deciders
  PROVE  /\ c \in exited
         /\ at[t] = "answer" => c = node[t] /\ taken[t] \subseteq {node[t]}
         /\ at[t] = "idle" => c = result[t].pid /\ taken[t] \subseteq {result[t].pid}
         /\ InCall(t) =>
              /\ status[t] = "more"
              /\ \A d \in Wait!Children : d # c => helper[t][d] \notin Deciders
              /\ helper[t][c] \in {"claim", "giveBack"} => taken[t] = {} /\ pid[t] = Wait!None
              /\ helper[t][c] = "publish" => taken[t] = {c} /\ pid[t] = Wait!None
              /\ helper[t][c] = "settle" => taken[t] = {c} /\ pid[t] = c
<1>1. Helped(t) /\ Decided(t) /\ status[t] \in {"pending", "more", "success"}
  BY DEF WaitInv, WaitShape
<1>2. c \in exited BY <1>1 DEF Decided
<1>3. at[t] = "answer" => c = node[t] /\ taken[t] \subseteq {node[t]}
  BY <1>1 DEF Helped, Decided
<1>4. at[t] = "idle" => c = result[t].pid /\ taken[t] \subseteq {result[t].pid}
  BY <1>1 DEF Helped, Decided
<1>5. ASSUME InCall(t)
      PROVE  /\ status[t] = "more"
             /\ \A d \in Wait!Children : d # c => helper[t][d] \notin Deciders
             /\ helper[t][c] \in {"claim", "giveBack"} => taken[t] = {} /\ pid[t] = Wait!None
             /\ helper[t][c] = "publish" => taken[t] = {c} /\ pid[t] = Wait!None
             /\ helper[t][c] = "settle" => taken[t] = {c} /\ pid[t] = c
  <2>1. status[t] = "more" BY <1>1, <1>5 DEF Decided
  <2>2. PICK e \in Wait!Children :
          /\ helper[t][e] \in Deciders
          /\ \A d \in Wait!Children : d # e => helper[t][d] \notin Deciders
          /\ helper[t][e] \in {"claim", "giveBack"} => taken[t] = {} /\ pid[t] = Wait!None
          /\ helper[t][e] = "publish" => taken[t] = {e} /\ pid[t] = Wait!None
          /\ helper[t][e] = "settle" => taken[t] = {e} /\ pid[t] = e
    BY <1>1, <1>5, <2>1 DEF Decided
  <2>3. e = c BY <2>2
  <2> QED BY <2>1, <2>2, <2>3
<1> QED BY <1>2, <1>3, <1>4, <1>5

(* A helper that does not decide, before or after, moves nothing else.        *)
LEMMA HelperMoves ==
  ASSUME WaitInv, NEW t \in Waiters, NEW c \in Wait!Children,
         NEW l \in Wait!HelperPlaces \ {"none"},
         helper[t][c] # "none", helper[t][c] \notin Deciders, l \notin Deciders,
         l = "cas" => c \in exited,
         Wait!Step(t, c, l), Wait!HelperOnly, UNCHANGED <<waitable, Wait!tlcaV, taken>>
  PROVE  WaitInv'
<1> USE DEF Wait!tlcaV
<1>1. /\ status' \in [Waiters -> {"pending", "more", "success"}] /\ pid' \in [Waiters -> Wait!Pids]
      /\ taken' \in [Waiters -> SUBSET Wait!Children]
  BY DEF WaitInv, WaitShape
<1>2. UNCHANGED <<exited, at, node, result, reports>> BY DEF Wait!HelperOnly, Wait!walkV
<1>3. \A d \in Wait!Children : helper'[t][d] = IF d = c THEN l ELSE helper[t][d]
  BY DEF Wait!Step, WaitInv, WaitShape
<1>4. Given' BY <1>2, GivenKept DEF InCall
<1>5. Decided(t)'
  <2>1. Decided(t) BY DEF WaitInv
  <2>2. \A d \in Wait!Children : helper'[t][d] \in Deciders <=> helper[t][d] \in Deciders BY <1>3
  <2>3. \A d \in Wait!Children : helper[t][d] \in Deciders => helper'[t][d] = helper[t][d] BY <1>3
  <2>4. \A d \in Wait!Children : helper'[t][d] = "cas" => helper[t][d] = "cas" \/ d \in exited
    BY <1>3
  <2>5. InCall(t)' <=> InCall(t) BY <1>2 DEF InCall
  <2> QED BY <1>2, <2>1, <2>2, <2>3, <2>4, <2>5 DEF Decided
<1> QED BY <1>1, <1>4, <1>5, HelperSteps

LEMMA HelperStarts ==
  ASSUME WaitInv, NEW t \in Waiters, NEW c \in Wait!Children, Wait!HelperWakes(t,
         c) \/ Wait!HelperChecks(t, c)
  PROVE  WaitInv'
<1>1. CASE Wait!HelperWakes(t, c)
  <2>1. helper[t][c] = "wait" /\ Wait!Step(t, c, "check") /\ Wait!HelperOnly
        /\ UNCHANGED <<waitable, Wait!tlcaV, taken>>
    BY <1>1 DEF Wait!HelperWakes
  <2> QED BY <2>1, HelperMoves
<1>2. CASE Wait!HelperChecks(t, c)
  <2>1. helper[t][c] = "check" /\ Wait!HelperOnly /\ UNCHANGED <<waitable, Wait!tlcaV, taken>>
    BY <1>2 DEF Wait!HelperChecks
  <2>2. CASE c \in exited
    <3>1. Wait!Step(t, c, "cas") BY <1>2, <2>2 DEF Wait!HelperChecks
    <3> QED BY <2>1, <2>2, <3>1, HelperMoves
  <2>3. CASE c \notin exited
    <3>1. Wait!Step(t, c, "leave") BY <1>2, <2>3 DEF Wait!HelperChecks
    <3> QED BY <2>1, <3>1, HelperMoves
  <2> QED BY <2>2, <2>3
<1> QED BY <1>1, <1>2

(* The words of the helpers have the shape they had, whoever writes them.     *)
LEMMA HelperDecides ==
  ASSUME WaitInv, NEW t \in Waiters, NEW c \in Wait!Children, Wait!HelperCas(t, c)
  PROVE  WaitInv'
<1>1. /\ helper[t][c] = "cas" /\ status[t] # "more" /\ Wait!HelperOnly
      /\ UNCHANGED <<taken, waitable, count, pid, event>>
  BY DEF Wait!HelperCas
<1>2. CASE status[t] # "pending"
  <2>1. Wait!Step(t, c, "leave") /\ UNCHANGED status BY <1>2 DEF Wait!HelperCas
  <2> QED BY <1>1, <2>1, HelperMoves DEF Wait!tlcaV
<1>3. CASE status[t] = "pending"
  <2>1. Wait!Step(t, c, "claim") /\ status' = [status EXCEPT ![t] = "more"]
    BY <1>3 DEF Wait!HelperCas
  <2>2. /\ status' \in [Waiters -> {"pending", "more", "success"}]
        /\ pid' \in [Waiters -> Wait!Pids]
        /\ taken' \in [Waiters -> SUBSET Wait!Children]
    BY <1>1, <2>1 DEF WaitInv, WaitShape
  <2>3. status'[t] = "more" /\ \A r \in Waiters \ {t} : status'[r] = status[r]
    BY <2>1 DEF WaitInv, WaitShape
  <2>4. UNCHANGED <<exited, at, node, result, reports>> BY <1>1 DEF Wait!HelperOnly, Wait!walkV
  <2>5. \A d \in Wait!Children : helper'[t][d] = IF d = c THEN "claim" ELSE helper[t][d]
    BY <2>1 DEF Wait!Step, WaitInv, WaitShape
  <2>6. Given' BY <1>1, <2>4, GivenKept DEF InCall
  <2>7. Decided(t)'
    <3>1. Decided(t) /\ (InCall(t)' <=> InCall(t)) BY <2>4 DEF WaitInv, InCall
    <3>2. \A d \in Wait!Children : helper'[t][d] \in Deciders \cup {"cas"} => d \in exited'
      BY <1>1, <2>4, <2>5, <3>1 DEF Decided
    <3>3. ASSUME InCall(t)
          PROVE  /\ helper'[t][c] = "claim" /\ taken'[t] = {} /\ pid'[t] = Wait!None
                 /\ \A d \in Wait!Children : d # c => helper'[t][d] \notin Deciders
      BY <1>1, <1>3, <2>5, <3>1, <3>3 DEF Decided
    <3> QED BY <1>1, <2>3, <2>4, <3>1, <3>2, <3>3 DEF Decided
  <2> QED BY <1>1, <2>1, <2>2, <2>3, <2>6, <2>7, HelperSteps
<1> QED BY <1>2, <1>3

(* waitable gives a child once: before, no thread has it.                     *)
LEMMA HelperTakes ==
  ASSUME WaitInv, NEW t \in Waiters, NEW c \in Wait!Children, Wait!HelperClaims(t, c)
  PROVE  WaitInv'
<1> DEFINE l == IF c \in waitable THEN "publish" ELSE "giveBack"
<1>1. /\ helper[t][c] = "claim" /\ Wait!HelperOnly /\ Wait!Step(t, c, l)
      /\ waitable' = waitable \ {c}
      /\ taken' = [taken EXCEPT ![t] = taken[t] \cup ({c} \cap waitable)]
      /\ UNCHANGED <<count, status, pid, event>>
  BY DEF Wait!HelperClaims, Wait!tlcaV
<1>2. l \in {"publish", "giveBack"} /\ (l = "publish" <=> c \in waitable) OBVIOUS
<1> HIDE DEF l
<1>3. UNCHANGED <<exited, at, node, result, reports>> BY <1>1 DEF Wait!HelperOnly, Wait!walkV
<1>4. /\ status' \in [Waiters -> {"pending", "more", "success"}]
      /\ pid' \in [Waiters -> Wait!Pids]
      /\ taken' \in [Waiters -> SUBSET Wait!Children]
  BY <1>1 DEF WaitInv, WaitShape
<1>5. /\ taken'[t] = taken[t] \cup ({c} \cap waitable)
      /\ \A r \in Waiters : r # t => taken'[r] = taken[r]
  BY <1>1 DEF WaitInv, WaitShape
<1>6. \A d \in Wait!Children : helper'[t][d] = IF d = c THEN l ELSE helper[t][d]
  BY <1>1 DEF Wait!Step, WaitInv, WaitShape
<1>7. /\ c \in exited
      /\ at[t] = "answer" => c = node[t] /\ taken[t] \subseteq {node[t]}
      /\ at[t] = "idle" => c = result[t].pid /\ taken[t] \subseteq {result[t].pid}
      /\ InCall(t) => /\ status[t] = "more" /\ taken[t] = {} /\ pid[t] = Wait!None
                      /\ \A d \in Wait!Children : d # c => helper[t][d] \notin Deciders
  BY <1>1, OneDecides
<1>8. Given'
  <2>1. \A r \in Waiters : taken[r] \subseteq exited \ waitable BY DEF WaitInv, Given
  <2>2. \A r \in Waiters : taken'[r] \subseteq exited' \ waitable'
    BY <1>1, <1>3, <1>5, <1>7, <2>1
  <2>3. \A r, s \in Waiters : r # s => taken'[r] \cap taken'[s] = {}
    <3>1. \A r, s \in Waiters : r # s => taken[r] \cap taken[s] = {} BY DEF WaitInv, Given
    <3> QED BY <1>5, <2>1, <3>1
  <2>4. \A d \in Wait!Children : reports[d] <= 1 /\ (d \in waitable => reports[d] = 0)
    BY DEF WaitInv, Given
  <2>5. ASSUME NEW r \in Waiters, InCall(r)', NEW d \in taken'[r] PROVE reports'[d] = 0
    <3>1. InCall(r) BY <1>3, <2>5 DEF InCall
    <3>2. CASE d \in taken[r] BY <1>3, <3>1, <3>2 DEF WaitInv, Given
    <3>3. CASE d \notin taken[r] BY <1>3, <1>5, <2>4, <2>5, <3>3
    <3> QED BY <3>2, <3>3
  <2> QED BY <1>1, <1>3, <2>2, <2>3, <2>4, <2>5 DEF Given
<1>9. Decided(t)'
  <2>1. Decided(t) /\ (InCall(t)' <=> InCall(t)) BY <1>3 DEF WaitInv, InCall
  <2>2. \A d \in Wait!Children : helper'[t][d] \in Deciders \cup {"cas"} => d \in exited'
    BY <1>3, <1>6, <1>7, <2>1 DEF Decided
  <2>3. /\ at'[t] = "answer" => taken'[t] \subseteq {node'[t]}
        /\ at'[t] = "idle" => taken'[t] \subseteq {result'[t].pid}
    BY <1>3, <1>5, <1>7
  <2>4. ASSUME InCall(t)
        PROVE  /\ status'[t] = "more" /\ helper'[t][c] \in {"publish", "giveBack"}
               /\ \A d \in Wait!Children : d # c => helper'[t][d] \notin Deciders
               /\ helper'[t][c] = "giveBack" => taken'[t] = {} /\ pid'[t] = Wait!None
               /\ helper'[t][c] = "publish" => taken'[t] = {c} /\ pid'[t] = Wait!None
    BY <1>1, <1>2, <1>5, <1>6, <1>7, <2>4
  <2> QED BY <2>1, <2>2, <2>3, <2>4 DEF Decided
<1> QED BY <1>1, <1>2, <1>4, <1>5, <1>8, <1>9, HelperSteps

LEMMA HelperTriesAgain ==
  ASSUME WaitInv, NEW t \in Waiters, NEW c \in Wait!Children, Wait!HelperGivesBack(t, c)
  PROVE  WaitInv'
<1>1. /\ helper[t][c] = "giveBack" /\ Wait!HelperOnly /\ Wait!Step(t, c, "leave")
      /\ status' = [status EXCEPT ![t] = IF @ = "more" THEN "pending" ELSE @]
      /\ UNCHANGED <<taken, waitable, count, pid, event>>
  BY DEF Wait!HelperGivesBack
<1>2. UNCHANGED <<exited, at, node, result, reports>> BY <1>1 DEF Wait!HelperOnly, Wait!walkV
<1>3. /\ status' \in [Waiters -> {"pending", "more", "success"}]
      /\ pid' \in [Waiters -> Wait!Pids]
      /\ taken' \in [Waiters -> SUBSET Wait!Children]
  BY <1>1 DEF WaitInv, WaitShape
<1>4. /\ status[t] = "more" => status'[t] = "pending"
      /\ \A r \in Waiters \ {t} : status'[r] = status[r]
  BY <1>1 DEF WaitInv, WaitShape
<1>5. \A d \in Wait!Children : helper'[t][d] = IF d = c THEN "leave" ELSE helper[t][d]
  BY <1>1 DEF Wait!Step, WaitInv, WaitShape
<1>6. Given' BY <1>1, <1>2, GivenKept DEF InCall
<1>7. Decided(t)'
  <2>1. Decided(t) /\ (InCall(t)' <=> InCall(t)) BY <1>2 DEF WaitInv, InCall
  <2>2. \A d \in Wait!Children : helper'[t][d] \in Deciders \cup {"cas"} => d \in exited'
    BY <1>2, <1>5, <2>1 DEF Decided
  <2>3. ASSUME InCall(t)
        PROVE  /\ status'[t] = "pending" /\ taken'[t] = {} /\ pid'[t] = Wait!None
               /\ \A d \in Wait!Children : helper'[t][d] \notin Deciders
    BY <1>1, <1>4, <1>5, <2>3, OneDecides
  <2> QED BY <1>1, <1>2, <2>1, <2>2, <2>3 DEF Decided
<1> QED BY <1>1, <1>3, <1>4, <1>6, <1>7, HelperSteps

LEMMA HelperWrites ==
  ASSUME WaitInv, NEW t \in Waiters, NEW c \in Wait!Children, Wait!HelperPublishes(t, c)
  PROVE  WaitInv'
<1>1. /\ helper[t][c] = "publish" /\ Wait!HelperOnly /\ Wait!Step(t, c, "settle")
      /\ pid' = [pid EXCEPT ![t] = c]
      /\ UNCHANGED <<taken, waitable, count, status, event>>
  BY DEF Wait!HelperPublishes, Wait!MayFail
<1>2. UNCHANGED <<exited, at, node, result, reports>> BY <1>1 DEF Wait!HelperOnly, Wait!walkV
<1>3. c \in Wait!Pids /\ c \in exited
  <2>1. c \in Wait!Pids OBVIOUS
  <2>2. c \in exited BY <1>1, OneDecides
  <2> QED BY <2>1, <2>2
<1>4. /\ status' \in [Waiters -> {"pending", "more", "success"}]
      /\ pid' \in [Waiters -> Wait!Pids]
      /\ taken' \in [Waiters -> SUBSET Wait!Children]
  BY <1>1, <1>3 DEF WaitInv, WaitShape
<1>5. /\ pid'[t] = c
      /\ \A r \in Waiters \ {t} : pid'[r] = pid[r]
  BY <1>1, <1>3 DEF WaitInv, WaitShape
<1>6. \A d \in Wait!Children : helper'[t][d] = IF d = c THEN "settle" ELSE helper[t][d]
  BY <1>1 DEF Wait!Step, WaitInv, WaitShape
<1>7. Given' BY <1>1, <1>2, GivenKept DEF InCall
<1>8. Decided(t)'
  <2>1. Decided(t) /\ (InCall(t)' <=> InCall(t)) BY <1>2 DEF WaitInv, InCall
  <2>2. \A d \in Wait!Children : helper'[t][d] \in Deciders \cup {"cas"} => d \in exited'
    BY <1>2, <1>3, <1>6, <2>1 DEF Decided
  <2>3. ASSUME InCall(t)
        PROVE  /\ status'[t] = "more" /\ taken'[t] = {c} /\ helper'[t][c] = "settle"
               /\ \A d \in Wait!Children : d # c => helper'[t][d] \notin Deciders
    BY <1>1, <1>6, <2>3, OneDecides
  <2> QED BY <1>1, <1>2, <1>5, <2>1, <2>2, <2>3 DEF Decided
<1> QED BY <1>1, <1>4, <1>5, <1>7, <1>8, HelperSteps

LEMMA HelperEnds ==
  ASSUME WaitInv, NEW t \in Waiters, NEW c \in Wait!Children, Wait!HelperSettles(t, c)
  PROVE  WaitInv'
<1>1. /\ helper[t][c] = "settle" /\ Wait!HelperOnly /\ Wait!Step(t, c, "leave")
      /\ status' = [status EXCEPT ![t] = "success"]
      /\ UNCHANGED <<taken, waitable, count, pid, event>>
  BY DEF Wait!HelperSettles
<1>2. UNCHANGED <<exited, at, node, result, reports>> BY <1>1 DEF Wait!HelperOnly, Wait!walkV
<1>3. /\ status' \in [Waiters -> {"pending", "more", "success"}]
      /\ pid' \in [Waiters -> Wait!Pids]
      /\ taken' \in [Waiters -> SUBSET Wait!Children]
  BY <1>1 DEF WaitInv, WaitShape
<1>4. status'[t] = "success" /\ \A r \in Waiters \ {t} : status'[r] = status[r]
  BY <1>1 DEF WaitInv, WaitShape
<1>5. \A d \in Wait!Children : helper'[t][d] = IF d = c THEN "leave" ELSE helper[t][d]
  BY <1>1 DEF Wait!Step, WaitInv, WaitShape
<1>6. Given' BY <1>1, <1>2, GivenKept DEF InCall
<1>7. Decided(t)'
  <2>1. Decided(t) /\ (InCall(t)' <=> InCall(t)) BY <1>2 DEF WaitInv, InCall
  <2>2. \A d \in Wait!Children : helper'[t][d] \in Deciders \cup {"cas"} => d \in exited'
    BY <1>2, <1>5, <2>1 DEF Decided
  <2>3. ASSUME InCall(t)
        PROVE  /\ taken'[t] = {c} /\ pid'[t] = c
               /\ \A d \in Wait!Children : helper'[t][d] \notin Deciders
    BY <1>1, <1>5, <2>3, OneDecides
  <2> QED BY <1>1, <1>2, <1>4, <2>1, <2>2, <2>3 DEF Decided
<1> QED BY <1>1, <1>3, <1>4, <1>6, <1>7, HelperSteps

(* A helper that leaves has decided nothing that is not written.              *)
LEMMA HelperGoes ==
  ASSUME WaitInv, NEW t \in Waiters, NEW c \in Wait!Children, Wait!HelperLeaves(t, c)
  PROVE  WaitInv'
<1> USE DEF Wait!childV, Wait!walkV, Wait!historyV
<1>1. /\ helper[t][c] = "leave" /\ count' = [count EXCEPT ![t] = @ - 1]
      /\ alerting' = [alerting EXCEPT ![t] = @ + IF count[t] = 1 THEN 1 ELSE 0]
      /\ helper' = [helper EXCEPT ![t][c] = "none"]
      /\ UNCHANGED <<Wait!childV, Wait!walkV, status, pid, event, alert, left,
                     Wait!historyV>>
  BY DEF Wait!HelperLeaves, Wait!Step
<1>2. /\ \A r \in Waiters : r # t => helper'[r] = helper[r] /\ count'[r] = count[r]
      /\ \A d \in Wait!Children : helper'[t][d] = IF d = c THEN "none" ELSE helper[t][d]
      /\ count'[t] = count[t] - 1
  BY <1>1 DEF WaitInv, WaitShape
<1>3. count'[t] \in Nat
      /\ count'[t] = Cardinality({d \in Wait!Children : helper'[t][d] # "none"})
                     + IF at'[t] = "create" THEN 1 ELSE 0
  <2> DEFINE H == {d \in Wait!Children : helper[t][d] # "none"}
             K == {d \in Wait!Children : helper'[t][d] # "none"}
  <2>1. K = H \ {c} /\ c \in H BY <1>1, <1>2
  <2>2. IsFiniteSet(H) /\ Cardinality(H) \in Nat /\ Cardinality(K) \in Nat BY HelpersFinite
  <2>4. count[t] = Cardinality(H) + IF at[t] = "create" THEN 1 ELSE 0
    BY CountsAlike DEF WaitInv, Wait!CountExact
  <2>5. at'[t] = at[t] BY <1>1
  <2> HIDE DEF H, K
  <2>3. Cardinality(K) = Cardinality(H) - 1 BY <2>1, <2>2, FS_RemoveElement
  <2>6. count'[t] = Cardinality(K) + IF at'[t] = "create" THEN 1 ELSE 0
    BY <1>2, <2>2, <2>3, <2>4, <2>5
  <2>7. count'[t] \in Nat BY <2>2, <2>6
  <2> QED BY <2>6, <2>7 DEF K
<1>4. WaitShape'
  <2>1. helper' \in [Waiters -> [Wait!Children -> Wait!HelperPlaces]] BY <1>1 DEF WaitInv, WaitShape
  <2>2. alerting' \in [Waiters -> Nat] BY <1>1 DEF WaitInv, WaitShape
  <2>3. count' \in [Waiters -> Nat] BY <1>1, <1>2, <1>3 DEF WaitInv, WaitShape
  <2> QED BY <1>1, <2>1, <2>2, <2>3 DEF WaitInv, WaitShape
<1>5. Wait!CountExact'
  <2>1. ASSUME NEW r \in Waiters, r # t
        PROVE  count'[r] = Cardinality({d \in Wait!Children : helper'[r][d] # "none"})
                           + IF at'[r] = "create" THEN 1 ELSE 0
    <3>1. helper'[r] = helper[r] /\ count'[r] = count[r] /\ at'[r] = at[r]
      BY <1>1, <1>2, <2>1
    <3> QED BY <3>1, CountsAlike DEF WaitInv, Wait!CountExact
  <2> QED BY <1>3, <2>1, CountsAlike DEF Wait!CountExact
<1>6. Given' BY <1>1, GivenKept DEF InCall
<1>7. Wait!SleptReportsTheDead' BY <1>1, SleptKept
<1>8. ASSUME NEW r \in Waiters PROVE Walk(r)' /\ Helped(r)' /\ Decided(r)'
  <2>1. CASE r # t BY <1>1, <1>2, <2>1, Bystander
  <2>2. CASE r = t
    <3>1. Walk(t)' BY <1>1 DEF WaitInv, Walk
    <3>2. Helped(t)' BY <1>1, <1>2 DEF WaitInv, Helped
    <3>3. Decided(t)'
      <4>1. \A d \in Wait!Children : helper'[t][d] \in Deciders <=> helper[t][d] \in Deciders
        BY <1>1, <1>2
      <4>2. \A d \in Wait!Children :
              helper[t][d] \in Deciders \cup {"cas"} => helper'[t][d] = helper[t][d]
        BY <1>1, <1>2
      <4>3. \A d \in Wait!Children : helper'[t][d] = "cas" => helper[t][d] = "cas" BY <1>1, <1>2
      <4>4. Decided(t) /\ (InCall(t)' <=> InCall(t)) BY <1>1 DEF WaitInv, InCall
      <4> QED BY <1>1, <4>1, <4>2, <4>3, <4>4 DEF Decided
    <3> QED BY <2>2, <3>1, <3>2, <3>3
  <2> QED BY <2>1, <2>2
<1> QED BY <1>4, <1>5, <1>6, <1>7, <1>8 DEF WaitInv

(* An alert, and the exit of a child, change no word of a call.               *)
LEMMA OthersStep ==
  ASSUME WaitInv,
         (\E t \in Waiters : Wait!HelperAlerts(t)) \/ (\E c \in Wait!Children : Wait!Exit(c))
  PROVE  WaitInv'
<1>1. /\ UNCHANGED <<waitable, Wait!walkV, Wait!tlcaV, helper, left, Wait!historyV>>
      /\ exited \subseteq exited' /\ exited' \subseteq Wait!Children
      /\ alerting' \in [Waiters -> Nat] /\ alert' \in [Waiters -> BOOLEAN]
  <2>1. ASSUME NEW t \in Waiters, Wait!HelperAlerts(t)
        PROVE  /\ UNCHANGED <<Wait!childV, Wait!walkV, Wait!tlcaV, helper, left, Wait!historyV>>
               /\ alerting' \in [Waiters -> Nat] /\ alert' \in [Waiters -> BOOLEAN]
    <3>1. /\ alerting[t] > 0 /\ alerting' = [alerting EXCEPT ![t] = @ - 1]
          /\ alert' = [alert EXCEPT ![t] = TRUE]
          /\ UNCHANGED <<Wait!childV, Wait!walkV, Wait!tlcaV, helper, left, Wait!historyV>>
      BY <2>1 DEF Wait!HelperAlerts
    <3>2. alerting \in [Waiters -> Nat] /\ alert \in [Waiters -> BOOLEAN] BY DEF WaitInv, WaitShape
    <3> QED BY <3>1, <3>2
  <2>2. ASSUME NEW c \in Wait!Children, Wait!Exit(c)
        PROVE  /\ UNCHANGED <<waitable, Wait!walkV, Wait!tlcaV, Wait!helperV, left, Wait!historyV>>
               /\ exited' = exited \cup {c}
    BY <2>2 DEF Wait!Exit
  <2> QED BY <2>1, <2>2 DEF WaitInv, WaitShape, Wait!childV, Wait!helperV
<1> USE DEF Wait!walkV, Wait!tlcaV, Wait!historyV
<1>2. WaitShape' BY <1>1 DEF WaitInv, WaitShape
<1>3. Wait!CountExact' BY <1>1, CountKept
<1>4. Given' BY <1>1, GivenKept DEF InCall
<1>5. Wait!SleptReportsTheDead' BY <1>1, SleptKept
<1>6. ASSUME NEW r \in Waiters PROVE Walk(r)' /\ Helped(r)' /\ Decided(r)'
  BY <1>1, Bystander
<1> QED BY <1>2, <1>3, <1>4, <1>5, <1>6 DEF WaitInv

LEMMA WaitStarts == Wait!Init => WaitInv
<1> SUFFICES ASSUME Wait!Init PROVE WaitInv OBVIOUS
<1>1. WaitShape
  <2>1. left \in [Waiters -> Nat] BY DEF Wait!Init
  <2>2. Wait!NoResult \in [pid : Wait!Pids, slept : BOOLEAN] BY DEF Wait!NoResult
  <2>3. /\ result \in [Waiters -> [pid : Wait!Pids, slept : BOOLEAN]]
        /\ helper \in [Waiters -> [Wait!Children -> Wait!HelperPlaces]]
        /\ taken \in [Waiters -> SUBSET Wait!Children] /\ reports \in [Wait!Children -> Nat]
    BY <2>2 DEF Wait!Init
  <2>4. /\ at \in [Waiters -> Wait!Places] /\ phase \in [Waiters -> {"pid", "poll", "pool"}]
        /\ status \in [Waiters -> {"pending", "more", "success"}]
        /\ node \in [Waiters -> 0 .. Wait!Any] /\ pid \in [Waiters -> Wait!Pids]
        /\ count \in [Waiters -> Nat] /\ alerting \in [Waiters -> Nat]
    BY DEF Wait!Init
  <2>5. /\ alerted \in [Waiters -> BOOLEAN]
        /\ event \in [Waiters -> BOOLEAN] /\ alert \in [Waiters -> BOOLEAN]
    BY DEF Wait!Init
  <2>6. exited \subseteq Wait!Children /\ waitable \subseteq Wait!Children /\ lock \in {{}} \cup {{t} : t \in Waiters}
    BY DEF Wait!Init
  <2> QED BY <2>1, <2>3, <2>4, <2>5, <2>6 DEF WaitShape
<1>2. \A t \in Waiters : /\ at[t] = "idle" /\ taken[t] = {} /\ ~ result[t].slept /\ count[t] = 0
                         /\ \A c \in Wait!Children : helper[t][c] = "none"
  BY DEF Wait!Init, Wait!NoResult
<1>3. Wait!CountExact
  <2>1. ASSUME NEW t \in Waiters
        PROVE  count[t] = Cardinality({c \in Wait!Children : helper[t][c] # "none"})
                          + IF at[t] = "create" THEN 1 ELSE 0
    <3>1. {c \in Wait!Children : helper[t][c] # "none"} = {} BY <1>2
    <3>2. Cardinality({c \in Wait!Children : helper[t][c] # "none"}) = 0 BY <3>1, FS_EmptySet
    <3> QED BY <1>2, <3>2
  <2> QED BY <2>1, CountsAlike DEF Wait!CountExact
<1>4. Given BY <1>2 DEF Given, Wait!Init
<1>5. Wait!SleptReportsTheDead BY <1>2 DEF Wait!SleptReportsTheDead
<1>6. ASSUME NEW t \in Waiters PROVE Walk(t) /\ Helped(t) /\ Decided(t)
  BY <1>2 DEF Walk, Helped, Decided, InCall
<1> QED BY <1>1, <1>3, <1>4, <1>5, <1>6 DEF WaitInv

LEMMA WaitGoesOn == WaitInv /\ (Wait!Next \/ UNCHANGED Wait!vars) => WaitInv'
<1> SUFFICES ASSUME WaitInv, Wait!Next \/ UNCHANGED Wait!vars PROVE WaitInv' OBVIOUS
<1>1. CASE UNCHANGED Wait!vars
  <2>1. UNCHANGED <<exited, waitable, lock, at, phase, node, alerted, count, status, pid,
                    event, helper, alerting, alert, left, result, taken, reports>>
    BY <1>1 DEF Wait!vars, Wait!childV, Wait!walkV, Wait!tlcaV, Wait!helperV, Wait!historyV
  <2>2. WaitShape' BY <2>1 DEF WaitInv, WaitShape
  <2>3. Wait!CountExact' BY <2>1, CountKept
  <2>4. Given' BY <2>1, GivenKept DEF InCall
  <2>5. Wait!SleptReportsTheDead' BY <2>1, SleptKept
  <2>6. ASSUME NEW r \in Waiters PROVE Walk(r)' /\ Helped(r)' /\ Decided(r)'
    BY <2>1, Bystander
  <2> QED BY <2>2, <2>3, <2>4, <2>5, <2>6 DEF WaitInv
<1>2. ASSUME NEW t \in Waiters, Wait!CallerStep(t) \/ Wait!Apc(t) PROVE WaitInv'
  <2>1. CASE Wait!Round(t) \/ Wait!Find(t) \/ Wait!Lock(t) BY <2>1, WaitRounds, WaitFinds, WaitLocks
  <2>2. CASE Wait!Look(t) \/ Wait!Test(t) BY <2>2, WaitLooks
  <2>3. CASE Wait!Count(t) \/ Wait!Create(t) BY <2>3, WaitCounts, WaitCreates
  <2>4. CASE Wait!Answer(t) \/ Wait!Drain(t) BY <2>4, WaitAnswers, WaitDrains
  <2>5. CASE Wait!Wake(t) \/ Wait!Apc(t) \/ Wait!End(t) BY <2>5, WaitWakes
  <2> QED BY <1>2, <2>1, <2>2, <2>3, <2>4, <2>5 DEF Wait!CallerStep
<1>3. ASSUME NEW t \in Waiters, NEW c \in Wait!Children, Wait!HelperStep(t, c) PROVE WaitInv'
  <2>1. CASE Wait!HelperWakes(t, c) \/ Wait!HelperChecks(t, c) BY <2>1, HelperStarts
  <2>2. CASE Wait!HelperCas(t, c) \/ Wait!HelperClaims(t, c) BY <2>2, HelperDecides, HelperTakes
  <2>3. CASE Wait!HelperGivesBack(t, c) \/ Wait!HelperPublishes(t, c)
    BY <2>3, HelperTriesAgain, HelperWrites
  <2>4. CASE Wait!HelperSettles(t, c) \/ Wait!HelperLeaves(t, c) BY <2>4, HelperEnds, HelperGoes
  <2> QED BY <1>3, <2>1, <2>2, <2>3, <2>4 DEF Wait!HelperStep
<1>4. CASE Wait!Next
  <2>1. CASE \E c \in Wait!Children : Wait!Exit(c) BY <2>1, OthersStep
  <2>2. ASSUME NEW t \in Waiters, NEW target \in Wait!Children \cup {Wait!Stranger, Wait!Any},
               Wait!Call(t, target)
        PROVE  WaitInv'
    BY <2>2, WaitCalls
  <2>3. CASE \E t \in Waiters : Wait!HelperAlerts(t) BY <2>3, OthersStep
  <2> HIDE DEF Wait!Children, Wait!Any, Wait!Stranger
  <2> QED BY <1>2, <1>3, <1>4, <2>1, <2>2, <2>3 DEF Wait!Next
<1> QED BY <1>1, <1>4

(* What the runs check of waiting.                                            *)
LEMMA WaitSound == WaitInv => Wait!HelpersCounted /\ Wait!SleptReports /\ Wait!NoChildLost
<1> SUFFICES ASSUME WaitInv PROVE Wait!HelpersCounted /\ Wait!SleptReports /\ Wait!NoChildLost OBVIOUS
<1>1. Wait!TypeOK
  <2>1. ASSUME NEW t \in Waiters PROVE count[t] \in 0 .. Last
    <3> DEFINE H == {c \in Wait!Children : helper[t][c] # "none"}
    <3>1. Cardinality(H) \in Nat /\ Cardinality(H) <= Last /\ (H # Wait!Children => Cardinality(H) < Last)
      BY HelpersFinite
    <3>2. count[t] = Cardinality(H) + IF at[t] = "create" THEN 1 ELSE 0
      BY CountsAlike DEF WaitInv, Wait!CountExact
    <3>3. at[t] = "create" => H # Wait!Children
      <4>1. ASSUME at[t] = "create" PROVE node[t] \in Wait!Children /\ node[t] \notin H
        <5>1. Walk(t) /\ Helped(t) BY DEF WaitInv
        <5>2. node[t] \in Wait!Children /\ ~ (node[t] < node[t]) BY <4>1, <5>1 DEF Walk
        <5> QED BY <4>1, <5>1, <5>2 DEF Helped
      <4> QED BY <4>1
    <3> HIDE DEF H
    <3> QED BY <3>1, <3>2, <3>3
  <2>2. Cardinality(lock) <= 1
    <3>1. lock \in {{}} \cup {{t} : t \in Waiters} BY DEF WaitInv, WaitShape
    <3>2. Cardinality({}) = 0 /\ \A t \in Waiters : Cardinality({t}) = 1
      BY FS_EmptySet, FS_Singleton
    <3> QED BY <3>1, <3>2
  <2>3. count \in [Waiters -> 0 .. Last] BY <2>1 DEF WaitInv, WaitShape
  <2>4. lock \subseteq Waiters BY DEF WaitInv, WaitShape
  <2>5. node \in [Waiters -> Wait!Stranger .. Wait!Any] BY DEF WaitInv, WaitShape
  <2> QED BY <2>2, <2>3, <2>4, <2>5, CountsAlike DEF WaitInv, WaitShape, Wait!TypeOK
<1>2. Wait!SleptReportsOnce BY DEF WaitInv, Given, Wait!SleptReportsOnce
<1>3. Wait!NoChildLost BY DEF WaitInv, Decided, Wait!NoChildLost
<1> QED BY <1>1, <1>2, <1>3 DEF WaitInv, Wait!HelpersCounted, Wait!SleptReports

(* The helpers of a wait are counted at every step, the child that a wait that*)
(* slept returns has exited and goes to one call, and no child that a helper  *)
(* took is lost: for any number of threads and children, any calls, and       *)
(* whatever interrupts them.  Nothing is said of the exit code, which wait4   *)
(* overwrites.                                                                *)
THEOREM ChildrenAreReported == PartsSpec => []ChildrenReported
<1>1. PartsInit => WaitInv BY WaitStarts DEF PartsInit
<1>2. WaitInv /\ [PartsNext]_allVars => WaitInv'
  <2> SUFFICES ASSUME WaitInv, [PartsNext]_allVars PROVE WaitInv' OBVIOUS
  <2>1. Wait!Next \/ UNCHANGED waitVars BY DEF PartsNext, Others, allVars
  <2>2. UNCHANGED waitVars => UNCHANGED Wait!vars
    BY DEF waitVars, Wait!vars, Wait!childV, Wait!walkV, Wait!tlcaV, Wait!helperV, Wait!historyV
  <2> QED BY <2>1, <2>2, WaitGoesOn
<1>3. WaitInv => ChildrenReported BY WaitSound DEF ChildrenReported
<1> QED BY <1>1, <1>2, <1>3, PTL DEF PartsSpec

-----------------------------------------------------------------------------
(* Interval timers: the daemon, the timer threads and the program.            *)

Arming == {"arm", "restore"}
Posting == {"post", "postLate"}
Resting == {"receive", "ended"}     \* the daemon works on no request
Messages == [kind : {"set", "alarm"}, gen : 0 .. MaxSets, ti : Int, mode : Alarm!Modes]

TimerShape ==
    /\ client \in {"idle", "waiting"} /\ port \in Seq(Messages)
    /\ daemon \in [at : {"receive", "kill", "cancel", "create", "ended"}, mode : Alarm!Modes]
    /\ crossed \in BOOLEAN
    /\ instance \in Int /\ handle \in 0 .. MaxSets /\ latest \in 0 .. MaxSets
    /\ thr \in [Alarm!Gens -> [at : Alarm!ThreadPlaces, ti : Int, mode : Alarm!Modes]]
    /\ kill \subseteq Alarm!Gens
    /\ native \in [gen : 0 .. MaxSets, due : BOOLEAN, apc : BOOLEAN]
    /\ expiries \in [Alarm!Gens -> 0 .. MaxExpiries] /\ alarms \in [Alarm!Gens -> Nat]

PortPlaces == 1 .. Len(port)

(* One setitimer at a time.                                                   *)
OneSet ==
    /\ client = "idle" => daemon.at \in Resting /\ \A i \in PortPlaces : port[i].kind # "set"
    /\ client = "waiting" => latest < MaxSets
    /\ daemon.at \notin Resting => \A i \in PortPlaces : port[i].kind # "set"
    /\ \A i, j \in PortPlaces : port[i].kind = "set" /\ port[j].kind = "set" => i = j
    /\ daemon.at = "kill" => handle # Alarm!None

(* The instance tells the latest thread from those it replaces, as long as    *)
(* nobody has used it while a thread was arming.                              *)
Order ==
    \A g \in Alarm!Gens :
        /\ thr[g].at \in Arming =>
              g = latest /\ thr[g].ti = instance + 1 /\ daemon.at \in Resting
        /\ thr[g].at \notin Arming => thr[g].ti <= instance
        /\ thr[g].ti = instance =>
              (g = latest /\ daemon.at \in Resting) \/ \E h \in Alarm!Gens : h # g /\ thr[h].at \in Arming
        /\ thr[g].at # "none" => thr[g].ti > 0

Created ==
    \A g \in Alarm!Gens :
        /\ thr[g].at # "none" => g <= latest
        /\ thr[g].at = "none" => thr[g].ti = 0 /\ thr[g].mode = "off"

Instances == Created /\ (~ crossed => Order)

PortExact ==
    \A i \in PortPlaces : port[i].kind = "alarm" =>
        /\ port[i].gen \in Alarm!Gens
        /\ thr[port[i].gen].at # "none" /\ port[i].ti = thr[port[i].gen].ti

TimerInv == TimerShape /\ OneSet /\ Instances /\ PortExact

USE PartsAssumption DEF Alarm!Gens, Alarm!None, Alarm!Modes, Alarm!ThreadPlaces, Arming, Posting, Resting

LEMMA Appended ==
  ASSUME NEW s \in Seq(Messages), NEW m \in Messages
  PROVE  /\ Append(s, m) \in Seq(Messages) /\ Len(Append(s, m)) = Len(s) + 1
         /\ Len(s) \in Nat
         /\ \A i \in 1 .. Len(s) : Append(s, m)[i] = s[i]
         /\ Append(s, m)[Len(s) + 1] = m
OBVIOUS

LEMMA Received ==
  ASSUME NEW s \in Seq(Messages), s # <<>>
  PROVE  /\ Tail(s) \in Seq(Messages) /\ Len(s) \in Nat /\ Len(s) > 0
         /\ Len(Tail(s)) = Len(s) - 1
         /\ \A i \in 1 .. Len(Tail(s)) : Tail(s)[i] = s[i + 1]
         /\ Head(s) = s[1] /\ s[1] \in Messages
OBVIOUS

LEMMA TimerTypes ==
  ASSUME TimerInv
  PROVE  /\ instance \in Int /\ port \in Seq(Messages) /\ crossed \in BOOLEAN
         /\ native \in [gen : 0 .. MaxSets, due : BOOLEAN, apc : BOOLEAN]
         /\ thr \in [Alarm!Gens -> [at : Alarm!ThreadPlaces, ti : Int, mode : Alarm!Modes]]
         /\ TimerShape
BY DEF TimerInv, TimerShape

(* A use of the instance that leaves it in order met no arming thread.        *)
LEMMA InstanceUsed ==
  ASSUME TimerInv, Alarm!UseInstance
  PROVE  /\ crossed' \in BOOLEAN /\ (crossed => crossed')
         /\ ~ crossed' => ~ crossed /\ \A g \in Alarm!Gens : thr[g].at \notin Arming
<1>1. crossed \in BOOLEAN BY TimerTypes
<1>2. crossed' = (crossed \/ Alarm!Arming) BY DEF Alarm!UseInstance
<1>3. Alarm!Arming <=> \E g \in Alarm!Gens : thr[g].at \in Arming BY DEF Alarm!Arming
<1> QED BY <1>1, <1>2, <1>3

(* A timer thread goes to another place; the instance may stay.               *)
LEMMA ThreadMoves ==
  ASSUME TimerInv, NEW g \in Alarm!Gens,
         NEW l \in Alarm!ThreadPlaces \ {"none"}, Alarm!Move(g, l), thr[g].at # "none"
  PROVE  /\ thr' \in [Alarm!Gens -> [at : Alarm!ThreadPlaces, ti : Int, mode : Alarm!Modes]]
         /\ \A h \in Alarm!Gens : thr'[h].ti = thr[h].ti /\ thr'[h].mode = thr[h].mode
         /\ thr'[g].at = l /\ \A h \in Alarm!Gens : h # g => thr'[h] = thr[h]
<1>1. thr \in [Alarm!Gens -> [at : Alarm!ThreadPlaces, ti : Int, mode : Alarm!Modes]] BY TimerTypes
<1>2. thr' = [thr EXCEPT ![g].at = l] BY DEF Alarm!Move
<1> QED BY <1>1, <1>2

LEMMA ShapeStays ==
  ASSUME TimerShape, UNCHANGED <<client, daemon, handle, latest, kill, expiries, alarms>>,
         thr' \in [Alarm!Gens -> [at : Alarm!ThreadPlaces, ti : Int, mode : Alarm!Modes]], instance' \in Int,
         native' \in [gen : 0 .. MaxSets, due : BOOLEAN, apc : BOOLEAN], port' \in Seq(Messages),
         crossed' \in BOOLEAN
  PROVE  TimerShape'
BY DEF TimerShape

LEMMA PortStays ==
  ASSUME TimerInv, port' = port, \A h \in Alarm!Gens : thr[h].at # "none" =>
            thr'[h].at # "none" /\ thr'[h].ti = thr[h].ti
  PROVE  PortExact'
BY DEF TimerInv, PortExact, PortPlaces

LEMMA SetStays ==
  ASSUME TimerInv, UNCHANGED <<port, client, daemon, handle, latest>>
  PROVE  OneSet'
BY DEF TimerInv, OneSet, PortPlaces

(* Steps of a timer thread that is not arming and does not begin to.          *)
LEMMA ElsewhereKeeps ==
  ASSUME TimerInv, NEW g \in Alarm!Gens, NEW l \in Alarm!ThreadPlaces \ ({"none"} \cup Arming),
         Alarm!Move(g, l), thr[g].at \notin Arming \cup {"none"},
         UNCHANGED <<client, port, daemon, instance, handle, latest, kill, expiries, alarms>>,
         native' \in [gen : 0 .. MaxSets, due : BOOLEAN, apc : BOOLEAN],
         crossed' \in BOOLEAN, crossed => crossed'
  PROVE  TimerInv'
<1>1. TimerShape' BY ThreadMoves DEF TimerInv, TimerShape
<1>2. OneSet' BY SetStays
<1>m. /\ \A h \in Alarm!Gens : thr'[h].ti = thr[h].ti /\ thr'[h].mode = thr[h].mode
      /\ thr'[g].at = l /\ \A h \in Alarm!Gens : h # g => thr'[h] = thr[h]
  BY ThreadMoves
<1>3. Instances'
  <2>1. Created' BY <1>m DEF TimerInv, Instances, Created
  <2>2. ASSUME ~ crossed' PROVE Order'
    <3>1. Order BY <2>2 DEF TimerInv, Instances
    <3> QED BY <1>m, <3>1 DEF Order
  <2> QED BY <2>1, <2>2 DEF Instances
<1>4. PortExact' BY <1>m, PortStays
<1> QED BY <1>1, <1>2, <1>3, <1>4 DEF TimerInv

LEMMA ThreadKeeps == ASSUME TimerInv, NEW g \in Alarm!Gens, Alarm!TimerStep(g) PROVE TimerInv'
<1> USE DEF Alarm!programV
<1>1. CASE Alarm!Start(g)
  <2>1. (IF thr[g].mode = "off" THEN "done" ELSE "claim") \in Alarm!ThreadPlaces \ ({"none"} \cup Arming)
    OBVIOUS
  <2> QED BY <1>1, <2>1, ElsewhereKeeps DEF Alarm!Start, TimerInv, TimerShape
<1>2. CASE Alarm!Claim(g)
  <2>0. Alarm!UseInstance /\ thr[g].at = "claim" BY <1>2 DEF Alarm!Claim
  <2>u. /\ crossed' \in BOOLEAN /\ (crossed => crossed')
        /\ ~ crossed' => ~ crossed /\ \A h \in Alarm!Gens : thr[h].at \notin Arming
    BY <2>0, InstanceUsed
  <2>1. CASE instance = thr[g].ti
    <3>1. instance' = instance - 1 /\ Alarm!Move(g, "arm")
      BY <1>2, <2>1 DEF Alarm!Claim
    <3>m. /\ thr' \in [Alarm!Gens -> [at : Alarm!ThreadPlaces, ti : Int, mode : Alarm!Modes]]
          /\ \A h \in Alarm!Gens : thr'[h].ti = thr[h].ti /\ thr'[h].mode = thr[h].mode
          /\ thr'[g].at = "arm" /\ \A h \in Alarm!Gens : h # g => thr'[h] = thr[h]
      BY <2>0, <3>1, ThreadMoves
    <3>i. instance' \in Int BY <3>1, TimerTypes
    <3>4. TimerShape' BY <1>2, <2>u, <3>m, <3>i, TimerTypes, ShapeStays DEF Alarm!Claim
    <3>5. OneSet' BY <1>2, SetStays DEF Alarm!Claim
    <3>6. Created' BY <1>2, <2>0, <3>m DEF Alarm!Claim, TimerInv, Instances, Created
    <3>7. ASSUME ~ crossed' PROVE Order'
      <4>1. Order /\ \A h \in Alarm!Gens : thr[h].at \notin Arming
        BY <2>u, <3>7 DEF TimerInv, Instances
      <4>2. g = latest /\ daemon.at \in Resting /\ thr[g].ti > 0 BY <2>0, <2>1, <4>1 DEF Order
      <4>3. UNCHANGED <<latest, daemon>> BY <1>2 DEF Alarm!Claim
      <4>4. thr'[g].ti = instance' + 1 /\ thr'[g].ti # instance' /\ instance \in Int
        BY <2>1, <3>1, <3>m, TimerTypes
      <4>5. ASSUME NEW h \in Alarm!Gens, h # g
            PROVE  /\ thr'[h].at \notin Arming /\ thr'[h].ti <= instance'
                   /\ thr'[h].at # "none" => thr'[h].ti > 0
        <5>1. thr[h].ti \in Int BY TimerTypes
        <5>2. thr[h].ti <= instance /\ thr[h].ti # instance BY <4>1, <4>2, <4>5 DEF Order
        <5>3. thr[h].ti <= instance' BY <3>1, <4>4, <5>1, <5>2
        <5> QED BY <3>m, <4>1, <4>5, <5>3 DEF Order
      <4> QED BY <3>m, <4>2, <4>3, <4>4, <4>5 DEF Order
    <3>8. PortExact' BY <1>2, <3>m, PortStays DEF Alarm!Claim
    <3> QED BY <3>4, <3>5, <3>6, <3>7, <3>8 DEF TimerInv, Instances
  <2>2. CASE instance # thr[g].ti
    BY <1>2, <2>u, <2>2, ElsewhereKeeps DEF Alarm!Claim, TimerInv, TimerShape
  <2> QED BY <2>1, <2>2
<1>3. CASE Alarm!Arm(g)
  <2>1. Alarm!Move(g, "restore") /\ thr[g].at = "arm" BY <1>3 DEF Alarm!Arm
  <2>m. /\ thr' \in [Alarm!Gens -> [at : Alarm!ThreadPlaces, ti : Int, mode : Alarm!Modes]]
        /\ \A h \in Alarm!Gens : thr'[h].ti = thr[h].ti /\ thr'[h].mode = thr[h].mode
        /\ thr'[g].at = "restore" /\ \A h \in Alarm!Gens : h # g => thr'[h] = thr[h]
    BY <1>3, <2>1, ThreadMoves DEF Alarm!Arm
  <2>2. TimerShape'
    <3>1. native' \in [gen : 0 .. MaxSets, due : BOOLEAN, apc : BOOLEAN] BY <1>3 DEF Alarm!Arm
    <3> QED BY <1>3, <2>m, <3>1, TimerTypes, ShapeStays DEF Alarm!Arm
  <2>3. OneSet' BY <1>3, SetStays DEF Alarm!Arm
  <2>4. Instances' BY <1>3, <2>m DEF Alarm!Arm, TimerInv, Instances, Created, Order
  <2>5. PortExact' BY <1>3, <2>m, PortStays DEF Alarm!Arm
  <2> QED BY <2>2, <2>3, <2>4, <2>5 DEF TimerInv
<1>4. CASE Alarm!Restore(g)
  <2>1. Alarm!Move(g, "wait") /\ thr[g].at = "restore" /\ instance' = instance + 1
    BY <1>4 DEF Alarm!Restore
  <2>m. /\ thr' \in [Alarm!Gens -> [at : Alarm!ThreadPlaces, ti : Int, mode : Alarm!Modes]]
        /\ \A h \in Alarm!Gens : thr'[h].ti = thr[h].ti /\ thr'[h].mode = thr[h].mode
        /\ thr'[g].at = "wait" /\ \A h \in Alarm!Gens : h # g => thr'[h] = thr[h]
    BY <1>4, <2>1, ThreadMoves DEF Alarm!Restore
  <2>2. TimerShape' BY <1>4, <2>m, TimerTypes, ShapeStays DEF Alarm!Restore
  <2>3. OneSet' BY <1>4, SetStays DEF Alarm!Restore
  <2>4. Instances'
    <3>0. UNCHANGED <<latest, daemon, crossed>> BY <1>4 DEF Alarm!Restore
    <3>1. Created' BY <2>1, <2>m, <3>0 DEF TimerInv, Instances, Created
    <3>2. ASSUME ~ crossed' PROVE Order'
      <4>1. Order BY <3>0, <3>2 DEF TimerInv, Instances
      <4>2. g = latest /\ thr[g].ti = instance + 1 /\ daemon.at \in Resting
            /\ \A h \in Alarm!Gens : h # g => thr[h].at \notin Arming
        BY <2>1, <4>1 DEF Order
      <4>3. ASSUME NEW h \in Alarm!Gens
            PROVE  /\ thr'[h].at \notin Arming /\ thr'[h].ti <= instance'
                   /\ thr'[h].ti = instance' => h = latest
                   /\ thr'[h].at # "none" => thr'[h].ti > 0
        <5>1. thr[h].ti \in Int /\ instance \in Int BY TimerTypes
        <5>2. CASE h = g BY <2>1, <2>m, <4>1, <4>2, <5>1, <5>2 DEF Order
        <5>3. CASE h # g BY <2>1, <2>m, <4>1, <4>2, <5>1, <5>3 DEF Order
        <5> QED BY <5>2, <5>3
      <4> QED BY <3>0, <4>2, <4>3 DEF Order
    <3> QED BY <3>1, <3>2 DEF Instances
  <2>5. PortExact' BY <1>4, <2>m, PortStays DEF Alarm!Restore
  <2> QED BY <2>2, <2>3, <2>4, <2>5 DEF TimerInv
<1>5. CASE Alarm!WaitEnds(g) BY <1>5, ElsewhereKeeps DEF Alarm!WaitEnds, TimerInv, TimerShape
<1>6. CASE Alarm!DelayEnds(g)
  <2>1. Alarm!NextRound(g) \in {"claim", "done"} BY DEF Alarm!NextRound
  <2> QED BY <1>6, <2>1, ElsewhereKeeps DEF Alarm!DelayEnds, TimerInv, TimerShape
<1>7. CASE Alarm!TimerApc(g)
  <2>1. Alarm!NextRound(g) \in {"claim", "done"} BY DEF Alarm!NextRound
  <2>2. PICK l \in {"delay", "claim", "done", "post", "postLate"} : Alarm!Move(g, l)
    BY <1>7, <2>1 DEF Alarm!TimerApc, Alarm!Move
  <2>3. native' \in [gen : 0 .. MaxSets, due : BOOLEAN, apc : BOOLEAN]
    BY <1>7 DEF Alarm!TimerApc, TimerInv, TimerShape
  <2> QED BY <1>7, <2>2, <2>3, ElsewhereKeeps, TimerTypes DEF Alarm!TimerApc
<1>8. CASE Alarm!Post(g)
  <2> DEFINE m == [kind |-> "alarm", gen |-> g, ti |-> thr[g].ti, mode |-> "off"]
  <2>0. thr[g].at \in Posting /\ UNCHANGED <<client, daemon, instance, handle, kill, native, expiries, latest, alarms,
                                          crossed>>
    BY <1>8 DEF Alarm!Post
  <2>1. Alarm!NextRound(g) \in {"claim", "done"} BY DEF Alarm!NextRound
  <2>2. PICK l \in {"delay", "claim", "done"} : Alarm!Move(g, l) BY <1>8, <2>1 DEF Alarm!Post
  <2>m. /\ thr' \in [Alarm!Gens -> [at : Alarm!ThreadPlaces, ti : Int, mode : Alarm!Modes]]
        /\ \A h \in Alarm!Gens : thr'[h].ti = thr[h].ti /\ thr'[h].mode = thr[h].mode
        /\ thr'[g].at = l /\ \A h \in Alarm!Gens : h # g => thr'[h] = thr[h]
    BY <1>8, <2>2, ThreadMoves DEF Alarm!Post
  <2>3. m \in Messages /\ port' = Append(port, m)
    BY <1>8 DEF Alarm!Post, Messages, TimerInv, TimerShape
  <2>4. TimerShape'
    <3>1. port' \in Seq(Messages) BY <2>3, TimerTypes, Appended
    <3> QED BY <2>0, <2>m, <3>1, TimerTypes, ShapeStays
  <2>n. \A h \in Alarm!Gens : /\ (thr'[h].at \in Arming <=> thr[h].at \in Arming)
                              /\ (thr'[h].at = "none" <=> thr[h].at = "none")
    BY <2>0, <2>2, <2>m
  <2>5. Instances'
    <3>1. UNCHANGED <<instance, latest, daemon, crossed>> BY <2>0
    <3>2. \A h \in Alarm!Gens : thr'[h].ti = thr[h].ti /\ thr'[h].mode = thr[h].mode BY <2>m
    <3>3. Instances BY DEF TimerInv
    <3>4. Created' BY <2>n, <3>1, <3>2, <3>3 DEF Instances, Created
    <3>5. Order => Order' BY <2>n, <3>1, <3>2 DEF Order
    <3> QED BY <3>1, <3>3, <3>4, <3>5 DEF Instances
  <2> HIDE DEF m
  <2>6. PortPlaces' = PortPlaces \cup {Len(port) + 1} /\ port'[Len(port) + 1] = m
        /\ \A i \in PortPlaces : port'[i] = port[i]
    BY <2>3, Appended DEF PortPlaces, TimerInv, TimerShape
  <2>7. m.kind = "alarm" /\ m.gen = g /\ m.ti = thr[g].ti BY DEF m
  <2>8. OneSet' BY <2>0, <2>6, <2>7 DEF TimerInv, OneSet
  <2>9. PortExact'
    <3>1. \A h \in Alarm!Gens : thr[h].at # "none" => thr'[h].at # "none" /\ thr'[h].ti = thr[h].ti
      BY <2>2, <2>m
    <3>2. thr'[g].at # "none" /\ thr'[g].ti = thr[g].ti BY <2>2, <2>m
    <3> QED BY <2>6, <2>7, <3>1, <3>2 DEF TimerInv, PortExact
  <2> QED BY <2>4, <2>5, <2>8, <2>9 DEF TimerInv
<1>9. CASE Alarm!Killed(g) BY <1>9, ElsewhereKeeps DEF Alarm!Killed, TimerInv, TimerShape
<1> QED BY <1>1, <1>2, <1>3, <1>4, <1>5, <1>6, <1>7, <1>8, <1>9 DEF Alarm!TimerStep

LEMMA SetKeeps == ASSUME TimerInv, NEW k \in Alarm!Modes, Alarm!SetItimer(k) PROVE TimerInv'
<1> DEFINE m == [kind |-> "set", gen |-> Alarm!None, ti |-> 0, mode |-> k]
<1> USE DEF Alarm!programV, Alarm!timerV
<1>1. m \in Messages /\ port' = Append(port, m) BY DEF Alarm!SetItimer, Messages
<1>2. TimerShape' BY <1>1, Appended DEF Alarm!SetItimer, TimerInv, TimerShape
<1>3. m.kind = "set" OBVIOUS
<1> HIDE DEF m
<1>4. PortPlaces' = PortPlaces \cup {Len(port) + 1} /\ port'[Len(port) + 1] = m
      /\ \A i \in PortPlaces : port'[i] = port[i]
  BY <1>1, Appended DEF PortPlaces, TimerInv, TimerShape
<1>5. OneSet'
  <2>1. client = "idle" /\ client' = "waiting" /\ latest < MaxSets
        /\ UNCHANGED <<daemon, handle, latest>>
    BY DEF Alarm!SetItimer
  <2> QED BY <1>3, <1>4, <2>1 DEF TimerInv, OneSet
<1>6. Instances' BY DEF Alarm!SetItimer, TimerInv, Instances, Created, Order
<1>7. PortExact' BY <1>3, <1>4 DEF Alarm!SetItimer, TimerInv, PortExact
<1> QED BY <1>2, <1>5, <1>6, <1>7 DEF TimerInv

LEMMA ExpireKeeps == ASSUME TimerInv, Alarm!Expire PROVE TimerInv'
<1> USE DEF Alarm!programV
<1>1. native.gen \in Alarm!Gens BY DEF Alarm!Expire, TimerInv, TimerShape
<1>2. TimerShape'
  <2>1. expiries' \in [Alarm!Gens -> 0 .. MaxExpiries]
    BY <1>1 DEF Alarm!Expire, TimerInv, TimerShape
  <2>2. native' \in [gen : 0 .. MaxSets, due : BOOLEAN, apc : BOOLEAN]
    BY DEF Alarm!Expire, TimerInv, TimerShape
  <2> QED BY <2>1, <2>2 DEF Alarm!Expire, TimerInv, TimerShape
<1>3. OneSet' BY SetStays DEF Alarm!Expire
<1>4. Instances' BY DEF Alarm!Expire, TimerInv, Instances, Created, Order
<1>5. PortExact' BY PortStays DEF Alarm!Expire
<1> QED BY <1>2, <1>3, <1>4, <1>5 DEF TimerInv

(* The daemon takes the first message.                                        *)
LEMMA MessageTaken ==
  ASSUME TimerInv, port # <<>>, port' = Tail(port)
  PROVE  /\ port' \in Seq(Messages) /\ Head(port) = port[1] /\ 1 \in PortPlaces
         /\ Len(port) \in Nat /\ Head(port) \in Messages
         /\ \A i \in PortPlaces' : i + 1 \in PortPlaces /\ i + 1 # 1 /\ port'[i] = port[i + 1]
BY Received DEF TimerInv, TimerShape, PortPlaces

LEMMA TakenExact ==
  ASSUME TimerInv, port # <<>>, port' = Tail(port), thr' = thr
  PROVE  PortExact'
BY MessageTaken DEF TimerInv, PortExact

LEMMA DaemonKeeps == ASSUME TimerInv, Alarm!Daemon PROVE TimerInv'
<1> USE DEF Alarm!programV, Alarm!timerV
<1>1. CASE Alarm!DaemonSet
  <2>1. daemon.at = "receive" /\ port # <<>> /\ Head(port).kind = "set" /\ port' = Tail(port)
    BY <1>1 DEF Alarm!DaemonSet
  <2>u. /\ crossed' \in BOOLEAN
        /\ ~ crossed' => ~ crossed /\ \A g \in Alarm!Gens : thr[g].at \notin Arming
    BY <1>1, InstanceUsed DEF Alarm!DaemonSet
  <2>2. daemon' \in [at : {"create", "kill"}, mode : Alarm!Modes] /\ (daemon'.at = "kill" => handle # Alarm!None)
    BY <1>1, <2>1, MessageTaken DEF Alarm!DaemonSet, Messages
  <2>3. TimerShape'
    <3>1. port' \in Seq(Messages) /\ instance' \in Int
      BY <1>1, <2>1, MessageTaken, TimerTypes DEF Alarm!DaemonSet
    <3> QED BY <1>1, <2>2, <2>u, <3>1 DEF Alarm!DaemonSet, TimerInv, TimerShape
  <2>4. OneSet'
    <3>1. \A i \in PortPlaces' : port'[i].kind # "set" BY <2>1, MessageTaken DEF TimerInv, OneSet
    <3>2. client # "idle" BY <2>1, MessageTaken DEF TimerInv, OneSet
    <3>3. UNCHANGED <<client, handle, latest>> BY <1>1 DEF Alarm!DaemonSet
    <3> QED BY <2>2, <3>1, <3>2, <3>3 DEF TimerInv, OneSet
  <2>5. Instances'
    <3>1. instance' = instance + 1 /\ UNCHANGED <<thr, latest>> BY <1>1 DEF Alarm!DaemonSet
    <3>2. Created' BY <3>1 DEF TimerInv, Instances, Created
    <3>3. ASSUME ~ crossed' PROVE Order'
      <4>1. Order /\ \A g \in Alarm!Gens : thr[g].at \notin Arming
        BY <2>u, <3>3 DEF TimerInv, Instances
      <4>2. instance \in Int /\ \A g \in Alarm!Gens : thr[g].ti \in Int BY TimerTypes
      <4> QED BY <3>1, <4>1, <4>2 DEF Order
    <3> QED BY <3>2, <3>3 DEF Instances
  <2>6. PortExact' BY <1>1, <2>1, TakenExact DEF Alarm!DaemonSet
  <2> QED BY <2>3, <2>4, <2>5, <2>6 DEF TimerInv
<1>2. CASE Alarm!DaemonKill
  <2>1. daemon.at = "kill" /\ daemon' = [daemon EXCEPT !.at = "cancel"] BY <1>2 DEF Alarm!DaemonKill
  <2>2. daemon' \in [at : {"cancel"}, mode : Alarm!Modes] BY <2>1 DEF TimerInv, TimerShape
  <2>3. handle \in Alarm!Gens BY <2>1 DEF TimerInv, TimerShape, OneSet
  <2>4. TimerShape' BY <1>2, <2>2, <2>3 DEF Alarm!DaemonKill, TimerInv, TimerShape
  <2>5. OneSet' BY <1>2, <2>1, <2>2 DEF Alarm!DaemonKill, TimerInv, OneSet, PortPlaces
  <2>6. Instances' BY <1>2, <2>1, <2>2 DEF Alarm!DaemonKill, TimerInv, Instances, Created, Order
  <2>7. PortExact' BY <1>2, PortStays DEF Alarm!DaemonKill
  <2> QED BY <2>4, <2>5, <2>6, <2>7 DEF TimerInv
<1>3. CASE Alarm!DaemonCancel
  <2>1. daemon.at = "cancel" /\ daemon' = [daemon EXCEPT !.at = "create"]
    BY <1>3 DEF Alarm!DaemonCancel
  <2>2. daemon' \in [at : {"create"}, mode : Alarm!Modes] BY <2>1 DEF TimerInv, TimerShape
  <2>4. TimerShape' BY <1>3, <2>2 DEF Alarm!DaemonCancel, TimerInv, TimerShape
  <2>5. OneSet' BY <1>3, <2>1, <2>2 DEF Alarm!DaemonCancel, TimerInv, OneSet, PortPlaces
  <2>6. Instances' BY <1>3, <2>1, <2>2 DEF Alarm!DaemonCancel, TimerInv, Instances, Created, Order
  <2>7. PortExact' BY <1>3, PortStays DEF Alarm!DaemonCancel
  <2> QED BY <2>4, <2>5, <2>6, <2>7 DEF TimerInv
<1>4. CASE Alarm!DaemonCreate
  <2> DEFINE n == latest + 1
  <2>1. /\ daemon.at = "create" /\ latest' = n /\ client' = "idle"
        /\ daemon' = [at |-> "receive", mode |-> "off"]
        /\ UNCHANGED <<port, instance, kill, native, expiries, crossed, alarms>>
    BY <1>4 DEF Alarm!DaemonCreate
  <2>2. client = "waiting" /\ n \in Alarm!Gens /\ n = latest + 1
    BY <2>1 DEF TimerInv, TimerShape, OneSet
  <2>5. \/ thr' = [thr EXCEPT ![n] = [at |-> "start", ti |-> instance, mode |-> daemon.mode]]
           /\ handle' = n
        \/ UNCHANGED <<thr, handle>>
    BY <1>4 DEF Alarm!DaemonCreate
  <2> HIDE DEF n
  <2>4. thr[n].at = "none"
    <3>1. latest \in Nat /\ Created BY DEF TimerInv, TimerShape, Instances
    <3> QED BY <2>2, <3>1 DEF Created
  <2>6. daemon.mode \in Alarm!Modes BY DEF TimerInv, TimerShape
  <2>7. thr' \in [Alarm!Gens -> [at : Alarm!ThreadPlaces, ti : Int, mode : Alarm!Modes]]
    <3>1. [at |-> "start", ti |-> instance, mode |-> daemon.mode]
            \in [at : Alarm!ThreadPlaces, ti : Int, mode : Alarm!Modes]
      BY <2>6, TimerTypes
    <3> QED BY <2>5, <3>1, TimerTypes
  <2>8. /\ \A g \in Alarm!Gens \ {n} : thr'[g] = thr[g]
        /\ thr'[n] = thr[n] \/ (thr'[n].at = "start" /\ thr'[n].ti = instance)
    <3>1. thr \in [Alarm!Gens -> [at : Alarm!ThreadPlaces, ti : Int, mode : Alarm!Modes]]
      BY TimerTypes
    <3>2. CASE thr' = thr BY <3>2
    <3>3. CASE thr' = [thr EXCEPT ![n] = [at |-> "start", ti |-> instance, mode |-> daemon.mode]]
      <4>1. /\ \A g \in Alarm!Gens \ {n} : thr'[g] = thr[g]
            /\ thr'[n] = [at |-> "start", ti |-> instance, mode |-> daemon.mode]
        BY <2>2, <3>1, <3>3
      <4> QED BY <4>1
    <3> QED BY <2>5, <3>2, <3>3
  <2>9. TimerShape'
    <3>1. daemon' \in [at : {"receive", "kill", "cancel", "create", "ended"}, mode : Alarm!Modes]
      BY <2>1
    <3>2. latest' \in 0 .. MaxSets /\ client' \in {"idle", "waiting"} BY <2>1, <2>2
    <3>3. handle' \in 0 .. MaxSets
      <4>1. handle \in 0 .. MaxSets BY TimerTypes DEF TimerShape
      <4> QED BY <2>2, <2>5, <4>1
    <3> QED BY <2>1, <2>7, <3>1, <3>2, <3>3 DEF TimerInv, TimerShape
  <2>10. OneSet' BY <2>1, <2>2 DEF TimerInv, OneSet, PortPlaces
  <2>11. Instances'
    <3>1. instance \in Int /\ latest \in Nat /\ \A g \in Alarm!Gens : thr[g].ti \in Int /\ thr'[g].ti \in Int
      BY <2>7, TimerTypes DEF TimerShape
    <3>2. thr'[n] = thr[n] => thr'[n].at = "none" /\ thr'[n].ti = 0 /\ thr'[n].mode = "off"
      BY <2>2, <2>4 DEF TimerInv, Instances, Created
    <3>3. thr'[n].at # "none" => thr'[n].at = "start" /\ thr'[n].ti = instance
      BY <2>8, <3>2
    <3>4. Created'
      <4>1. ASSUME NEW g \in Alarm!Gens
            PROVE  /\ thr'[g].at # "none" => g <= n
                   /\ thr'[g].at = "none" => thr'[g].ti = 0 /\ thr'[g].mode = "off"
        <5>1. CASE g = n BY <2>2, <2>8, <3>2, <5>1
        <5>2. CASE g # n BY <2>2, <2>8, <3>1, <5>2 DEF TimerInv, Instances, Created
        <5> QED BY <5>1, <5>2
      <4> QED BY <2>1, <4>1 DEF Created
    <3>5. ASSUME ~ crossed' PROVE Order'
      <4>1. Order BY <2>1, <3>5 DEF TimerInv, Instances
      <4>2. \A g \in Alarm!Gens : thr[g].at \notin Arming BY <2>1, <4>1 DEF Order
      <4>3. \A g \in Alarm!Gens : thr[g].ti < instance BY <2>1, <3>1, <4>1, <4>2 DEF Order
      <4>4. instance > 0 BY <2>2, <2>4, <4>3 DEF TimerInv, Instances, Created
      <4>5. ASSUME NEW g \in Alarm!Gens
            PROVE  /\ thr'[g].at \notin Arming /\ thr'[g].ti <= instance
                   /\ thr'[g].ti = instance => g = n
                   /\ thr'[g].at # "none" => thr'[g].ti > 0
        <5>1. CASE g = n BY <2>8, <3>1, <3>2, <4>4, <5>1
        <5>2. CASE g # n BY <2>8, <3>1, <4>1, <4>2, <4>3, <5>2 DEF Order
        <5> QED BY <5>1, <5>2
      <4> QED BY <2>1, <4>5 DEF Order
    <3> QED BY <3>4, <3>5 DEF Instances
  <2>12. PortExact'
    <3>1. \A g \in Alarm!Gens : thr[g].at # "none" => thr'[g] = thr[g] BY <2>4, <2>8
    <3> QED BY <2>1, <3>1, PortStays
  <2> QED BY <2>9, <2>10, <2>11, <2>12 DEF TimerInv
<1>5. CASE Alarm!DaemonAlarm
  <2>1. /\ port # <<>> /\ port' = Tail(port) /\ Head(port).kind = "alarm"
        /\ daemon.at = "receive"
        /\ daemon' = daemon \/ daemon' = [daemon EXCEPT !.at = "ended"]
        /\ UNCHANGED <<client, instance, handle, thr, kill, native, expiries, latest>>
    BY <1>5 DEF Alarm!DaemonAlarm
  <2>d. daemon' \in [at : Resting, mode : Alarm!Modes]
    <3>1. daemon \in [at : {"receive", "kill", "cancel", "create", "ended"}, mode : Alarm!Modes]
      BY TimerTypes DEF TimerShape
    <3> QED BY <2>1, <3>1
  <2>u. /\ crossed' \in BOOLEAN
        /\ ~ crossed' => ~ crossed /\ \A g \in Alarm!Gens : thr[g].at \notin Arming
    BY <1>5, InstanceUsed DEF Alarm!DaemonAlarm
  <2>t. /\ port' \in Seq(Messages) /\ Head(port) = port[1] /\ 1 \in PortPlaces
        /\ \A i \in PortPlaces' : i + 1 \in PortPlaces /\ port'[i] = port[i + 1]
    BY <2>1, MessageTaken
  <2>a. alarms' \in [Alarm!Gens -> Nat]
    <3> DEFINE g == Head(port).gen
    <3>1. g \in Alarm!Gens BY <2>1, <2>t DEF TimerInv, PortExact
    <3>2. alarms' = alarms \/ alarms' = [alarms EXCEPT ![g] = @ + 1]
      BY <1>5 DEF Alarm!DaemonAlarm
    <3> HIDE DEF g
    <3>3. alarms \in [Alarm!Gens -> Nat] BY DEF TimerInv, TimerShape
    <3> QED BY <3>1, <3>2, <3>3
  <2>2. TimerShape' BY <2>1, <2>t, <2>a, <2>d, <2>u DEF TimerInv, TimerShape
  <2>3. OneSet'
    <3>1. ASSUME NEW i \in PortPlaces', NEW j \in PortPlaces', port'[i].kind = "set", port'[j].kind = "set"
          PROVE  i = j
      <4>1. i + 1 = j + 1 BY <2>t, <3>1 DEF TimerInv, OneSet
      <4> QED BY <4>1 DEF PortPlaces
    <3>2. \A i \in PortPlaces' : port'[i].kind = "set" => port[i + 1].kind = "set" /\ i + 1 \in PortPlaces
      BY <2>t
    <3>3. daemon'.at \in Resting BY <2>d
    <3>4. client = "idle" => \A i \in PortPlaces' : port'[i].kind # "set"
      BY <3>2 DEF TimerInv, OneSet
    <3> QED BY <2>1, <3>1, <3>3, <3>4 DEF TimerInv, OneSet
  <2>4. Instances'
    <3>1. Created' BY <2>1 DEF TimerInv, Instances, Created
    <3>2. ASSUME ~ crossed' PROVE Order'
      <4>1. Order BY <2>u, <3>2 DEF TimerInv, Instances
      <4> QED BY <2>1, <2>d, <4>1 DEF Order
    <3> QED BY <3>1, <3>2 DEF Instances
  <2>5. PortExact' BY <2>1, TakenExact
  <2> QED BY <2>2, <2>3, <2>4, <2>5 DEF TimerInv
<1> QED BY <1>1, <1>2, <1>3, <1>4, <1>5 DEF Alarm!Daemon

LEMMA NothingKeeps == ASSUME TimerInv, UNCHANGED <<client, port, daemon, Alarm!timerV, alarms>>
  PROVE TimerInv'
BY DEF TimerInv, TimerShape, OneSet, Instances, Created, Order, PortExact, PortPlaces, Alarm!timerV

LEMMA TimerKeeps == ASSUME TimerInv, Alarm!Next \/ UNCHANGED Alarm!vars PROVE TimerInv'
<1>1. CASE \E k \in Alarm!Modes : Alarm!SetItimer(k) BY <1>1, SetKeeps
<1>2. CASE \E g \in Alarm!Gens : Alarm!TimerStep(g) BY <1>2, ThreadKeeps
<1>3. CASE Alarm!Expire BY <1>3, ExpireKeeps
<1>4. CASE Alarm!Daemon BY <1>4, DaemonKeeps
<1>5. CASE Alarm!Program \/ UNCHANGED Alarm!vars
  BY <1>5, NothingKeeps DEF Alarm!Program, Alarm!Entry, Alarm!Handle, Alarm!DelayOver,
     Alarm!Continue, Alarm!vars
<1> QED BY <1>1, <1>2, <1>3, <1>4, <1>5 DEF Alarm!Next

LEMMA TimerStarts == Alarm!Init => TimerInv
<1> SUFFICES ASSUME Alarm!Init PROVE TimerInv OBVIOUS
<1>1. TimerShape
  <2>1. crossed \in BOOLEAN BY DEF Alarm!Init
  <2>2. native \in [gen : 0 .. MaxSets, due : BOOLEAN, apc : BOOLEAN] BY DEF Alarm!Init
  <2>3. thr \in [Alarm!Gens -> [at : Alarm!ThreadPlaces, ti : Int, mode : Alarm!Modes]]
    BY DEF Alarm!Init
  <2>4. daemon \in [at : {"receive", "kill", "cancel", "create", "ended"}, mode : Alarm!Modes]
    BY DEF Alarm!Init
  <2>5. /\ client \in {"idle", "waiting"} /\ port \in Seq(Messages) /\ kill \subseteq Alarm!Gens
        /\ instance \in Int /\ handle \in 0 .. MaxSets /\ latest \in 0 .. MaxSets
    BY DEF Alarm!Init
  <2>6. expiries \in [Alarm!Gens -> 0 .. MaxExpiries] /\ alarms \in [Alarm!Gens -> Nat]
    BY DEF Alarm!Init
  <2> QED BY <2>1, <2>2, <2>3, <2>4, <2>5, <2>6 DEF TimerShape
<1>2. OneSet /\ PortExact BY DEF Alarm!Init, OneSet, PortExact, PortPlaces
<1>3. Created BY DEF Alarm!Init, Created
<1>4. Order BY DEF Alarm!Init, Order
<1> QED BY <1>1, <1>2, <1>3, <1>4 DEF TimerInv, Instances

LEMMA OnlyTheLast ==
  ASSUME TimerInv, Alarm!Next \/ UNCHANGED Alarm!vars
  PROVE  \A g \in Alarm!Gens : alarms'[g] # alarms[g] => g = latest \/ crossed'
<1>1. CASE ~ Alarm!DaemonAlarm
  BY <1>1 DEF Alarm!Next, Alarm!SetItimer, Alarm!TimerStep, Alarm!Start, Alarm!Claim, Alarm!Arm,
     Alarm!Restore, Alarm!WaitEnds, Alarm!DelayEnds,
     Alarm!TimerApc, Alarm!Post, Alarm!Killed, Alarm!Expire, Alarm!Daemon, Alarm!DaemonSet,
     Alarm!DaemonKill, Alarm!DaemonCancel,
     Alarm!DaemonCreate, Alarm!Program, Alarm!Entry, Alarm!Handle, Alarm!DelayOver,
     Alarm!Continue, Alarm!vars
<1>2. CASE Alarm!DaemonAlarm
  <2> DEFINE m == Head(port)
  <2>1. port # <<>> /\ port' = Tail(port) /\ m.kind = "alarm" /\ Alarm!UseInstance
    BY <1>2 DEF Alarm!DaemonAlarm
  <2>2. m = port[1] /\ 1 \in PortPlaces BY <2>1, MessageTaken
  <2>3. m.gen \in Alarm!Gens /\ m.ti = thr[m.gen].ti BY <2>1, <2>2 DEF TimerInv, PortExact
  <2>4. m.ti = instance /\ ~ crossed' => m.gen = latest
    <3>1. ~ crossed' => ~ crossed /\ \A g \in Alarm!Gens : thr[g].at \notin Arming
      BY <2>1, InstanceUsed
    <3> QED BY <2>3, <3>1 DEF TimerInv, Instances, Order
  <2>5. \/ m.ti = instance /\ alarms' = [alarms EXCEPT ![m.gen] = @ + 1]
        \/ alarms' = alarms
    BY <1>2 DEF Alarm!DaemonAlarm
  <2> HIDE DEF m
  <2> QED BY <2>4, <2>5 DEF TimerInv, TimerShape
<1> QED BY <1>1, <1>2

-----------------------------------------------------------------------------
(* How often a timer signals.                                                 *)

InPort(g) == {i \in PortPlaces : port[i].kind = "alarm" /\ port[i].gen = g}
OnTheWay(g) ==
    (IF native.gen = g /\ native.apc THEN 1 ELSE 0) + (IF thr[g].at \in Posting THEN 1 ELSE 0)
AlarmBalance(g) == OnTheWay(g) + Cardinality(InPort(g)) + alarms[g] <= expiries[g]

NeverArmed(g) == native.gen # g /\ expiries[g] = 0
Rounds(g) ==
    /\ thr[g].at \in {"none", "start"} => NeverArmed(g)
    /\ thr[g].mode # "every" =>
         /\ expiries[g] <= 1
         /\ thr[g].at \in {"claim", "arm"} => NeverArmed(g)
         /\ native.gen = g /\ ~ native.due => expiries[g] = 0

AlarmsCounted == (native.apc => native.due) /\ \A g \in Alarm!Gens : AlarmBalance(g) /\ Rounds(g)

LEMMA TimerNumbers ==
  ASSUME TimerInv, NEW g \in Alarm!Gens
  PROVE  /\ IsFiniteSet(InPort(g)) /\ Cardinality(InPort(g)) \in Nat /\ OnTheWay(g) \in 0 .. 2
         /\ alarms[g] \in Nat /\ expiries[g] \in 0 .. MaxExpiries
<1>1. Len(port) \in Nat BY TimerTypes
<1>2. IsFiniteSet(PortPlaces) BY <1>1, FS_Interval DEF PortPlaces
<1>3. InPort(g) \subseteq PortPlaces BY DEF InPort
<1>4. IsFiniteSet(InPort(g)) BY <1>2, <1>3, FS_Subset
<1>5. Cardinality(InPort(g)) \in Nat BY <1>4, FS_CardinalityType
<1>6. alarms[g] \in Nat /\ expiries[g] \in 0 .. MaxExpiries BY TimerTypes DEF TimerShape
<1> QED BY <1>4, <1>5, <1>6 DEF OnTheWay

(* A thread goes on without an alarm.                                         *)
LEMMA PassKeeps ==
  ASSUME TimerInv, AlarmsCounted, NEW g \in Alarm!Gens,
         NEW l \in Alarm!ThreadPlaces \ ({"none", "start"} \cup Posting),
         Alarm!Move(g, l), thr[g].at \notin Posting \cup {"none"},
         thr[g].at \in {"start", "claim"} \/ l \notin {"claim", "arm"} \/ thr[g].mode = "every",
         UNCHANGED <<port, native, expiries, alarms>>
  PROVE  AlarmsCounted'
<1>m. /\ \A h \in Alarm!Gens : thr'[h].ti = thr[h].ti /\ thr'[h].mode = thr[h].mode
      /\ thr'[g].at = l /\ \A h \in Alarm!Gens : h # g => thr'[h] = thr[h]
  BY ThreadMoves
<1>1. ASSUME NEW h \in Alarm!Gens PROVE AlarmBalance(h)' /\ Rounds(h)'
  <2>1. thr'[h].at \in Posting <=> thr[h].at \in Posting BY <1>m
  <2>2. AlarmBalance(h)' BY <2>1 DEF AlarmsCounted, AlarmBalance, OnTheWay, InPort, PortPlaces
  <2>3. Rounds(h)'
    <3>1. Rounds(h) BY DEF AlarmsCounted
    <3>2. CASE h = g BY <1>m, <3>1, <3>2 DEF Rounds, NeverArmed
    <3>3. CASE h # g BY <1>m, <3>1, <3>3 DEF Rounds, NeverArmed
    <3> QED BY <3>2, <3>3
  <2> QED BY <2>2, <2>3
<1> QED BY <1>1 DEF AlarmsCounted

(* The port keeps its alarms, and the NT timer and the threads are the same.  *)
LEMMA AlarmsStay ==
  ASSUME TimerInv, AlarmsCounted, UNCHANGED <<thr, native, expiries, alarms>>,
         \A h \in Alarm!Gens : Cardinality(InPort(h)') \in Nat
                        /\ Cardinality(InPort(h)') <= Cardinality(InPort(h))
  PROVE  AlarmsCounted'
<1>1. ASSUME NEW h \in Alarm!Gens PROVE AlarmBalance(h)' /\ Rounds(h)'
  <2>1. OnTheWay(h)' = OnTheWay(h) BY DEF OnTheWay
  <2>2. AlarmBalance(h)' BY <2>1, TimerNumbers DEF AlarmsCounted, AlarmBalance
  <2>3. Rounds(h)' BY DEF AlarmsCounted, Rounds, NeverArmed
  <2> QED BY <2>2, <2>3
<1> QED BY <1>1 DEF AlarmsCounted

(* A message is taken: the others move up.                                    *)
LEMMA OneLess ==
  ASSUME TimerInv, port # <<>>, port' = Tail(port), NEW h \in Alarm!Gens
  PROVE  /\ Cardinality(InPort(h)') \in Nat
         /\ Cardinality(InPort(h)') + (IF 1 \in InPort(h) THEN 1 ELSE 0) <= Cardinality(InPort(h))
<1> DEFINE S == InPort(h) \ {1}  T == InPort(h)'  f == [i \in T |-> i + 1]
<1>1. IsFiniteSet(S) /\ Cardinality(S) + (IF 1 \in InPort(h) THEN 1 ELSE 0) = Cardinality(InPort(h))
  <2> DEFINE I == InPort(h)
  <2>1. IsFiniteSet(I) /\ Cardinality(I) \in Nat BY TimerNumbers
  <2> HIDE DEF I
  <2>2. IsFiniteSet(I \ {1})
        /\ Cardinality(I \ {1}) = IF 1 \in I THEN Cardinality(I) - 1 ELSE Cardinality(I)
    BY <2>1, FS_RemoveElement
  <2>3. IsFiniteSet(I \ {1}) /\ Cardinality(I \ {1}) + (IF 1 \in I THEN 1 ELSE 0) = Cardinality(I)
    BY <2>1, <2>2
  <2> QED BY <2>3 DEF I
<1>2. \A i \in T : i \in Nat /\ i + 1 \in S
  <2>1. ASSUME NEW i \in T PROVE i \in Nat /\ i + 1 \in S
    <3>1. i \in PortPlaces' /\ port'[i].kind = "alarm" /\ port'[i].gen = h BY DEF InPort
    <3>2. i + 1 \in PortPlaces /\ i + 1 # 1 /\ port'[i] = port[i + 1] BY <3>1, MessageTaken
    <3>3. i \in Nat BY <3>1 DEF PortPlaces
    <3> QED BY <3>1, <3>2, <3>3 DEF InPort
  <2> QED BY <2>1
<1> HIDE DEF S, T
<1>3. f \in Injection(T, S) BY <1>2 DEF Injection, IsInjective
<1>4. IsFiniteSet(T) /\ Cardinality(T) <= Cardinality(S) BY <1>1, <1>3, FS_Injection
<1>5. Cardinality(T) \in Nat /\ Cardinality(S) \in Nat BY <1>1, <1>4, FS_CardinalityType
<1>6. Cardinality(InPort(h)) \in Nat BY TimerNumbers
<1> QED BY <1>1, <1>4, <1>5, <1>6 DEF T

(* A message is sent.                                                         *)
LEMMA OneMore ==
  ASSUME TimerInv, NEW m \in Messages, port' = Append(port, m), NEW h \in Alarm!Gens
  PROVE  Cardinality(InPort(h)')
           = Cardinality(InPort(h)) + (IF m.kind = "alarm" /\ m.gen = h THEN 1 ELSE 0)
<1> DEFINE n == Len(port) + 1
<1>1. PortPlaces' = PortPlaces \cup {n} /\ n \notin PortPlaces /\ port'[n] = m
      /\ \A i \in PortPlaces : port'[i] = port[i]
  BY Appended, TimerTypes DEF PortPlaces
<1> HIDE DEF n
<1>2. InPort(h)' = IF m.kind = "alarm" /\ m.gen = h THEN InPort(h) \cup {n} ELSE InPort(h)
  BY <1>1 DEF InPort
<1>3. n \notin InPort(h) BY <1>1 DEF InPort
<1>4. IsFiniteSet(InPort(h)) /\ Cardinality(InPort(h)) \in Nat BY TimerNumbers
<1>5. Cardinality(InPort(h) \cup {n}) = Cardinality(InPort(h)) + 1 BY <1>3, <1>4, FS_AddElement
<1>6. CASE m.kind = "alarm" /\ m.gen = h BY <1>2, <1>5, <1>6
<1>7. CASE ~ (m.kind = "alarm" /\ m.gen = h) BY <1>2, <1>4, <1>7
<1> QED BY <1>6, <1>7

(* One timer has a step: the others have what they had.                       *)
LEMMA OthersStay ==
  ASSUME TimerInv, AlarmsCounted,
         NEW h \in Alarm!Gens, thr'[h] = thr[h], expiries'[h] = expiries[h],
         alarms'[h] = alarms[h], Cardinality(InPort(h)') = Cardinality(InPort(h)),
         native'.gen = h => native' = native
  PROVE  AlarmBalance(h)' /\ Rounds(h)'
<1>1. Rounds(h)' BY DEF AlarmsCounted, Rounds, NeverArmed
<1>2. OnTheWay(h)' <= OnTheWay(h) BY DEF OnTheWay
<1>3. OnTheWay(h)' \in 0 .. 2 BY DEF OnTheWay
<1>4. AlarmBalance(h) BY DEF AlarmsCounted
<1>5. AlarmBalance(h)' BY <1>2, <1>3, <1>4, TimerNumbers DEF AlarmBalance
<1> QED BY <1>1, <1>5

LEMMA ThreadCounts == ASSUME TimerInv, AlarmsCounted,
                             NEW g \in Alarm!Gens, Alarm!TimerStep(g) PROVE AlarmsCounted'
<1> USE DEF Alarm!programV
<1>1. CASE Alarm!Start(g)
  <2> DEFINE l == IF thr[g].mode = "off" THEN "done" ELSE "claim"
  <2>1. Alarm!Move(g, l) /\ thr[g].at = "start" /\ UNCHANGED <<port, native, expiries, alarms>>
    BY <1>1 DEF Alarm!Start
  <2>2. l \in {"done", "claim"} OBVIOUS
  <2> HIDE DEF l
  <2> QED BY <2>1, <2>2, PassKeeps
<1>2. CASE Alarm!Claim(g)
  <2>1. PICK l \in {"arm", "done"} : Alarm!Move(g, l) BY <1>2 DEF Alarm!Claim
  <2>2. thr[g].at = "claim" /\ UNCHANGED <<port, native, expiries, alarms>> BY <1>2 DEF Alarm!Claim
  <2> QED BY <2>1, <2>2, PassKeeps
<1>3. CASE Alarm!Arm(g)
  <2>1. /\ Alarm!Move(g, "restore") /\ thr[g].at = "arm" /\ UNCHANGED <<port, expiries, alarms>>
        /\ native' = [gen |-> g, due |-> FALSE, apc |-> FALSE]
    BY <1>3 DEF Alarm!Arm
  <2>2. \A h \in Alarm!Gens : InPort(h)' = InPort(h) BY <2>1 DEF InPort, PortPlaces
  <2>m. /\ thr'[g].mode = thr[g].mode /\ thr'[g].at = "restore"
        /\ \A h \in Alarm!Gens : h # g => thr'[h] = thr[h]
    BY <2>1, ThreadMoves
  <2>3. \A h \in Alarm!Gens : h # g => AlarmBalance(h)' /\ Rounds(h)'
    BY <2>1, <2>2, <2>m, OthersStay
  <2>4. Rounds(g)'
    <3>1. thr[g].mode # "every" => expiries[g] = 0 BY <2>1 DEF AlarmsCounted, Rounds, NeverArmed
    <3> QED BY <2>1, <2>m, <3>1 DEF Rounds
  <2>5. AlarmBalance(g)'
    <3>1. OnTheWay(g)' = 0 BY <2>1, <2>m DEF OnTheWay
    <3> QED BY <2>1, <2>2, <3>1, TimerNumbers DEF AlarmsCounted, AlarmBalance
  <2> QED BY <2>1, <2>3, <2>4, <2>5 DEF AlarmsCounted
<1>4. CASE Alarm!Restore(g)
  <2>1. Alarm!Move(g, "wait") /\ thr[g].at = "restore" /\ UNCHANGED <<port, native, expiries, alarms>>
    BY <1>4 DEF Alarm!Restore
  <2> QED BY <2>1, PassKeeps
<1>5. CASE Alarm!WaitEnds(g)
  <2>1. Alarm!Move(g, "delay") /\ thr[g].at = "wait" /\ UNCHANGED <<port, native, expiries, alarms>>
    BY <1>5 DEF Alarm!WaitEnds
  <2> QED BY <2>1, PassKeeps
<1>6. CASE Alarm!DelayEnds(g)
  <2>1. Alarm!NextRound(g) = "done" \/ (Alarm!NextRound(g) = "claim" /\ thr[g].mode = "every")
    BY DEF Alarm!NextRound
  <2>2. Alarm!Move(g, Alarm!NextRound(g)) /\ thr[g].at = "delay" /\ UNCHANGED <<port, native, expiries, alarms>>
    BY <1>6 DEF Alarm!DelayEnds
  <2> QED BY <2>1, <2>2, PassKeeps
<1>7. CASE Alarm!TimerApc(g)
  <2>1. /\ thr[g].at \in {"wait", "delay"} /\ native.gen = g /\ native.apc
        /\ native' = [native EXCEPT !.apc = FALSE] /\ UNCHANGED <<port, expiries, alarms>>
    BY <1>7 DEF Alarm!TimerApc
  <2>2. PICK l \in {"delay", "claim", "done", "post", "postLate"} :
          Alarm!Move(g, l) /\ (l = "claim" => thr[g].mode = "every")
    BY <1>7 DEF Alarm!TimerApc, Alarm!NextRound, Alarm!Move
  <2>m. /\ thr'[g].mode = thr[g].mode /\ thr'[g].at = l
        /\ \A h \in Alarm!Gens : h # g => thr'[h] = thr[h]
    BY <2>1, <2>2, ThreadMoves
  <2>3. \A h \in Alarm!Gens : InPort(h)' = InPort(h) BY <2>1 DEF InPort, PortPlaces
  <2>4. native'.gen = g /\ native'.due = native.due /\ ~ native'.apc BY <2>1, TimerTypes
  <2>5. \A h \in Alarm!Gens : h # g => AlarmBalance(h)' /\ Rounds(h)'
    BY <2>1, <2>3, <2>4, <2>m, OthersStay
  <2>6. Rounds(g)' BY <2>1, <2>2, <2>4, <2>m DEF AlarmsCounted, Rounds, NeverArmed
  <2>7. AlarmBalance(g)'
    <3>1. OnTheWay(g)' \in {0, 1} /\ OnTheWay(g) = 1 BY <2>1, <2>4 DEF OnTheWay
    <3> QED BY <2>1, <2>3, <3>1, TimerNumbers DEF AlarmsCounted, AlarmBalance
  <2> QED BY <2>4, <2>5, <2>6, <2>7 DEF AlarmsCounted
<1>8. CASE Alarm!Post(g)
  <2> DEFINE m == [kind |-> "alarm", gen |-> g, ti |-> thr[g].ti, mode |-> "off"]
  <2>1. /\ thr[g].at \in Posting /\ port' = Append(port, m)
        /\ UNCHANGED <<native, expiries, alarms>>
    BY <1>8 DEF Alarm!Post
  <2>2. PICK l \in {"delay", "claim", "done"} : Alarm!Move(g, l) /\ (l = "claim" => thr[g].mode = "every")
    BY <1>8 DEF Alarm!Post, Alarm!NextRound
  <2>m. /\ thr'[g].mode = thr[g].mode /\ thr'[g].at = l
        /\ \A h \in Alarm!Gens : h # g => thr'[h] = thr[h]
    BY <2>1, <2>2, ThreadMoves
  <2>3. m \in Messages /\ m.kind = "alarm" /\ m.gen = g BY TimerTypes DEF Messages
  <2> HIDE DEF m
  <2>4. \A h \in Alarm!Gens : Cardinality(InPort(h)') = Cardinality(InPort(h)) + (IF h = g THEN 1 ELSE 0)
    BY <2>1, <2>3, OneMore
  <2>5. ASSUME NEW h \in Alarm!Gens, h # g PROVE AlarmBalance(h)' /\ Rounds(h)'
    <3>1. Cardinality(InPort(h)') = Cardinality(InPort(h)) BY <2>4, <2>5, TimerNumbers
    <3> QED BY <2>1, <2>5, <2>m, <3>1, OthersStay
  <2>6. Rounds(g)' BY <2>1, <2>2, <2>m DEF AlarmsCounted, Rounds, NeverArmed
  <2>7. AlarmBalance(g)'
    <3>1. OnTheWay(g)' + 1 = OnTheWay(g) /\ OnTheWay(g)' \in {0, 1}
      BY <2>1, <2>2, <2>m DEF OnTheWay
    <3>2. Cardinality(InPort(g)') = Cardinality(InPort(g)) + 1 BY <2>4
    <3> QED BY <2>1, <3>1, <3>2, TimerNumbers DEF AlarmsCounted, AlarmBalance
  <2> QED BY <2>1, <2>5, <2>6, <2>7 DEF AlarmsCounted
<1>9. CASE Alarm!Killed(g)
  <2>1. Alarm!Move(g, "done") /\ thr[g].at \in {"wait", "delay"}
        /\ UNCHANGED <<port, native, expiries, alarms>>
    BY <1>9 DEF Alarm!Killed
  <2> QED BY <2>1, PassKeeps
<1> QED BY <1>1, <1>2, <1>3, <1>4, <1>5, <1>6, <1>7, <1>8, <1>9 DEF Alarm!TimerStep

LEMMA ExpireCounts == ASSUME TimerInv, AlarmsCounted, Alarm!Expire PROVE AlarmsCounted'
<1> USE DEF Alarm!programV
<1> DEFINE g == native.gen
<1>1. /\ g \in Alarm!Gens /\ ~ native.due /\ ~ native.apc /\ UNCHANGED <<port, thr, alarms>>
      /\ native' = [native EXCEPT !.due = TRUE, !.apc = TRUE]
      /\ expiries' = [expiries EXCEPT ![g] = @ + 1]
  BY TimerTypes DEF Alarm!Expire, AlarmsCounted
<1>2. native'.gen = g /\ native'.due /\ native'.apc BY <1>1, TimerTypes
<1>3. /\ expiries'[g] = expiries[g] + 1 /\ \A h \in Alarm!Gens : h # g => expiries'[h] = expiries[h]
  BY <1>1, TimerTypes DEF TimerShape
<1>4. \A h \in Alarm!Gens : InPort(h)' = InPort(h) BY <1>1 DEF InPort, PortPlaces
<1>5. \A h \in Alarm!Gens : h # g => AlarmBalance(h)' /\ Rounds(h)'
  BY <1>1, <1>2, <1>3, <1>4, OthersStay
<1>6. Rounds(g)' BY <1>1, <1>2, <1>3 DEF AlarmsCounted, Rounds, NeverArmed
<1>7. AlarmBalance(g)'
  <2>1. OnTheWay(g)' = OnTheWay(g) + 1 BY <1>1, <1>2 DEF OnTheWay
  <2> QED BY <1>1, <1>3, <1>4, <2>1, TimerNumbers DEF AlarmsCounted, AlarmBalance
<1> QED BY <1>2, <1>5, <1>6, <1>7 DEF AlarmsCounted

LEMMA DaemonCounts == ASSUME TimerInv, AlarmsCounted, Alarm!Daemon PROVE AlarmsCounted'
<1> USE DEF Alarm!programV, Alarm!timerV
<1>1. CASE Alarm!DaemonSet
  <2>1. port # <<>> /\ port' = Tail(port) /\ UNCHANGED <<thr, native, expiries, alarms>>
    BY <1>1 DEF Alarm!DaemonSet
  <2>2. ASSUME NEW h \in Alarm!Gens PROVE /\ Cardinality(InPort(h)') \in Nat
                                   /\ Cardinality(InPort(h)') <= Cardinality(InPort(h))
    BY <2>1, OneLess, TimerNumbers
  <2> QED BY <2>1, <2>2, AlarmsStay
<1>2. CASE Alarm!DaemonKill
  <2>1. \A h \in Alarm!Gens : InPort(h)' = InPort(h)
    BY <1>2 DEF Alarm!DaemonKill, InPort, PortPlaces
  <2> QED BY <1>2, <2>1, AlarmsStay, TimerNumbers DEF Alarm!DaemonKill
<1>3. CASE Alarm!DaemonCancel
  <2>1. /\ native' = [gen |-> Alarm!None, due |-> FALSE, apc |-> FALSE]
        /\ UNCHANGED <<port, thr, expiries, alarms>>
    BY <1>3 DEF Alarm!DaemonCancel
  <2>2. \A h \in Alarm!Gens : InPort(h)' = InPort(h) BY <2>1 DEF InPort, PortPlaces
  <2>3. \A h \in Alarm!Gens : AlarmBalance(h)' /\ Rounds(h)' BY <2>1, <2>2, OthersStay
  <2> QED BY <2>1, <2>3 DEF AlarmsCounted
<1>4. CASE Alarm!DaemonCreate
  <2>1. daemon.at = "create" /\ UNCHANGED <<port, native, expiries, alarms>>
    BY <1>4 DEF Alarm!DaemonCreate
  <2>3. PICK n \in Alarm!Gens : n = latest + 1
    <3>1. client = "waiting" BY <2>1, TimerTypes DEF TimerShape, TimerInv, OneSet
    <3> QED BY <3>1, TimerTypes DEF TimerShape, TimerInv, OneSet
  <2>2. \/ thr' = [thr EXCEPT ![n] = [at |-> "start", ti |-> instance, mode |-> daemon.mode]]
        \/ UNCHANGED thr
    BY <1>4, <2>3 DEF Alarm!DaemonCreate
  <2>4. thr[n].at = "none"
    <3>1. latest \in Nat /\ Created BY DEF TimerInv, TimerShape, Instances
    <3> QED BY <2>3, <3>1 DEF Created
  <2>5. /\ \A h \in Alarm!Gens : h # n => thr'[h] = thr[h]
        /\ thr'[n] = thr[n] \/ thr'[n].at = "start"
    <3>1. thr \in [Alarm!Gens -> [at : Alarm!ThreadPlaces, ti : Int, mode : Alarm!Modes]]
      BY TimerTypes
    <3>2. CASE thr' = thr BY <3>2
    <3>3. CASE thr' = [thr EXCEPT ![n] = [at |-> "start", ti |-> instance, mode |-> daemon.mode]]
      <4>1. /\ \A h \in Alarm!Gens : h # n => thr'[h] = thr[h]
            /\ thr'[n] = [at |-> "start", ti |-> instance, mode |-> daemon.mode]
        BY <2>3, <3>1, <3>3
      <4> QED BY <4>1
    <3> QED BY <2>2, <3>2, <3>3
  <2>6. \A h \in Alarm!Gens : InPort(h)' = InPort(h) BY <2>1 DEF InPort, PortPlaces
  <2>7. \A h \in Alarm!Gens : h # n => AlarmBalance(h)' /\ Rounds(h)'
    BY <2>1, <2>5, <2>6, OthersStay
  <2>8. NeverArmed(n) BY <2>3, <2>4 DEF AlarmsCounted, Rounds
  <2>9. Rounds(n)' BY <2>1, <2>5, <2>8 DEF Rounds, NeverArmed
  <2>10. AlarmBalance(n)'
    <3>1. OnTheWay(n)' = 0 BY <2>1, <2>4, <2>5, <2>8 DEF OnTheWay, NeverArmed
    <3> QED BY <2>1, <2>3, <2>6, <3>1, TimerNumbers DEF AlarmsCounted, AlarmBalance
  <2> QED BY <2>1, <2>7, <2>9, <2>10 DEF AlarmsCounted
<1>5. CASE Alarm!DaemonAlarm
  <2> DEFINE g == Head(port).gen
  <2>1. /\ port # <<>> /\ port' = Tail(port) /\ Head(port).kind = "alarm"
        /\ UNCHANGED <<thr, native, expiries>>
    BY <1>5 DEF Alarm!DaemonAlarm
  <2>2. alarms' = alarms \/ alarms' = [alarms EXCEPT ![g] = @ + 1] BY <1>5 DEF Alarm!DaemonAlarm
  <2>3. g \in Alarm!Gens /\ 1 \in InPort(g)
    <3>1. Head(port) = port[1] /\ 1 \in PortPlaces BY <2>1, MessageTaken
    <3> QED BY <2>1, <3>1 DEF TimerInv, PortExact, InPort
  <2> HIDE DEF g
  <2>4. /\ alarms'[g] \in {alarms[g], alarms[g] + 1}
        /\ \A h \in Alarm!Gens : h # g => alarms'[h] = alarms[h]
    <3>1. alarms \in [Alarm!Gens -> Nat] BY TimerTypes DEF TimerShape
    <3> QED BY <2>2, <2>3, <3>1
  <2>5. ASSUME NEW h \in Alarm!Gens PROVE AlarmBalance(h)' /\ Rounds(h)'
    <3>1. Rounds(h)' BY <2>1 DEF AlarmsCounted, Rounds, NeverArmed
    <3>2. OnTheWay(h)' = OnTheWay(h) BY <2>1 DEF OnTheWay
    <3>3. /\ Cardinality(InPort(h)') \in Nat
          /\ Cardinality(InPort(h)') + (IF 1 \in InPort(h) THEN 1 ELSE 0) <= Cardinality(InPort(h))
      BY <2>1, OneLess
    <3>4. AlarmBalance(h) BY DEF AlarmsCounted
    <3>5. CASE h = g
      <4>1. Cardinality(InPort(h)') + 1 <= Cardinality(InPort(h)) BY <2>3, <3>3, <3>5
      <4>2. alarms'[h] \in {alarms[h], alarms[h] + 1} BY <2>4, <3>5
      <4>3. /\ Cardinality(InPort(h)) \in Nat /\ OnTheWay(h) \in 0 .. 2
            /\ alarms[h] \in Nat /\ expiries[h] \in Nat /\ expiries'[h] = expiries[h]
        BY <2>1, TimerNumbers
      <4>4. AlarmBalance(h)' BY <3>2, <3>3, <3>4, <4>1, <4>2, <4>3 DEF AlarmBalance
      <4> QED BY <3>1, <4>4
    <3>6. CASE h # g
      <4>1. Cardinality(InPort(h)') <= Cardinality(InPort(h)) BY <3>3, TimerNumbers
      <4>2. /\ Cardinality(InPort(h)) \in Nat /\ OnTheWay(h) \in 0 .. 2 /\ alarms'[h] = alarms[h]
            /\ alarms[h] \in Nat /\ expiries[h] \in Nat /\ expiries'[h] = expiries[h]
        BY <2>1, <2>4, <3>6, TimerNumbers
      <4>3. AlarmBalance(h)' BY <3>2, <3>3, <3>4, <4>1, <4>2 DEF AlarmBalance
      <4> QED BY <3>1, <4>3
    <3> QED BY <3>5, <3>6
  <2> QED BY <2>1, <2>5 DEF AlarmsCounted
<1> QED BY <1>1, <1>2, <1>3, <1>4, <1>5 DEF Alarm!Daemon

LEMMA CountsKept == ASSUME TimerInv, AlarmsCounted, Alarm!Next \/ UNCHANGED Alarm!vars
  PROVE AlarmsCounted'
<1>1. ASSUME NEW k \in Alarm!Modes, Alarm!SetItimer(k) PROVE AlarmsCounted'
  <2> DEFINE m == [kind |-> "set", gen |-> Alarm!None, ti |-> 0, mode |-> k]
  <2>1. port' = Append(port, m) /\ UNCHANGED <<thr, native, expiries, alarms>>
    BY <1>1 DEF Alarm!SetItimer, Alarm!timerV
  <2>2. m \in Messages /\ m.kind = "set" BY DEF Messages
  <2> HIDE DEF m
  <2>3. ASSUME NEW h \in Alarm!Gens PROVE /\ Cardinality(InPort(h)') \in Nat
                                   /\ Cardinality(InPort(h)') <= Cardinality(InPort(h))
    BY <2>1, <2>2, OneMore, TimerNumbers
  <2> QED BY <2>1, <2>3, AlarmsStay
<1>2. CASE \E g \in Alarm!Gens : Alarm!TimerStep(g) BY <1>2, ThreadCounts
<1>3. CASE Alarm!Expire BY <1>3, ExpireCounts
<1>4. CASE Alarm!Daemon BY <1>4, DaemonCounts
<1>5. CASE Alarm!Program \/ UNCHANGED Alarm!vars
  <2>1. UNCHANGED <<port, thr, native, expiries, alarms>>
    BY <1>5 DEF Alarm!Program, Alarm!Entry, Alarm!Handle, Alarm!DelayOver, Alarm!Continue,
       Alarm!vars, Alarm!timerV
  <2>2. \A h \in Alarm!Gens : InPort(h)' = InPort(h) BY <2>1 DEF InPort, PortPlaces
  <2> QED BY <2>1, <2>2, AlarmsStay, TimerNumbers
<1> QED BY <1>1, <1>2, <1>3, <1>4, <1>5 DEF Alarm!Next

LEMMA CountsStart == Alarm!Init => AlarmsCounted
<1> SUFFICES ASSUME Alarm!Init PROVE AlarmsCounted OBVIOUS
<1>1. \A g \in Alarm!Gens : OnTheWay(g) = 0 /\ InPort(g) = {}
  BY DEF Alarm!Init, OnTheWay, InPort, PortPlaces
<1>2. \A g \in Alarm!Gens : AlarmBalance(g)
  <2>1. Cardinality({}) = 0 BY FS_EmptySet
  <2>2. \A g \in Alarm!Gens : Cardinality(InPort(g)) = 0 BY <1>1, <2>1
  <2>3. \A g \in Alarm!Gens : alarms[g] = 0 /\ expiries[g] = 0 BY DEF Alarm!Init
  <2> QED BY <1>1, <2>2, <2>3 DEF AlarmBalance
<1> QED BY <1>2 DEF Alarm!Init, AlarmsCounted, Rounds, NeverArmed

LEMMA CountsBound ==
  ASSUME TimerInv, AlarmsCounted, NEW g \in Alarm!Gens
  PROVE  alarms[g] <= MaxExpiries /\ (thr[g].mode # "every" => alarms[g] <= 1)
BY TimerNumbers DEF AlarmsCounted, AlarmBalance, Rounds

-----------------------------------------------------------------------------
(* What the program executes.                                                 *)

Signals(f) == {s \in Alarm!Gens \X (1 .. MaxExpiries) : s[2] <= f[s[1]]}

Right(c) ==
    /\ c.at = "user" <=> c.home = 0
    /\ c.at \in {"delay", "handler", "continue"} => c.uctx = c.home

(* A trampoline that has begun has read a context, the last one saved was.    *)
Begun(c) ==
    /\ c.home <= Cardinality(Signals(alarms))
    /\ c.at # "user" => sigctx # Alarm!None
    /\ c.at \in {"delay", "handler", "continue"} => c.uctx # Alarm!None

Placed ==
    /\ cur \in Alarm!Contexts /\ stack \in [Alarm!Depths -> Alarm!Contexts]
    /\ sigctx \in 0 .. Alarm!MaxDepth /\ apcs \in 0 .. Alarm!MaxDepth
    /\ suspended = FALSE /\ early \in BOOLEAN
    /\ Begun(cur) /\ \A d \in Alarm!Depths : Begun(stack[d])
    /\ apcs <= Cardinality(Signals(alarms))

(* As long as every signal came after the last trampoline had begun.          *)
Nested ==
    /\ Right(cur) /\ (cur.at = "entry" => sigctx = cur.home)
    /\ \A d \in 1 .. cur.home :
          Right(stack[d]) /\ stack[d].at # "entry" /\ stack[d].home + 1 = d

Trampolines == Placed /\ (~ early => Nested)

LEMMA DepthIsFinite == Alarm!MaxDepth \in Nat
BY DEF Alarm!MaxDepth

(* No more signals than all timers can send.                                  *)
LEMMA SignalsBound ==
  ASSUME NEW f
  PROVE  IsFiniteSet(Signals(f)) /\ Cardinality(Signals(f)) \in 0 .. Alarm!MaxDepth
<1>1. IsFiniteSet(Alarm!Gens) /\ Cardinality(Alarm!Gens) = MaxSets
  <2>1. 1 \in Int /\ MaxSets \in Int /\ (IF 1 > MaxSets THEN 0 ELSE MaxSets - 1 + 1) = MaxSets OBVIOUS
  <2> QED BY <2>1, FS_Interval
<1>2. IsFiniteSet(1 .. MaxExpiries) /\ Cardinality(1 .. MaxExpiries) = MaxExpiries
  <2>1. 1 \in Int /\ MaxExpiries \in Int
        /\ (IF 1 > MaxExpiries THEN 0 ELSE MaxExpiries - 1 + 1) = MaxExpiries
    OBVIOUS
  <2> QED BY <2>1, FS_Interval
<1> DEFINE S == Alarm!Gens  T == 1 .. MaxExpiries  All == S \X T
<1>4. Signals(f) \subseteq All BY DEF Signals
<1> HIDE DEF S, T
<1>3. IsFiniteSet(All) /\ Cardinality(All) = Alarm!MaxDepth
  <2>1. IsFiniteSet(S) /\ Cardinality(S) = MaxSets BY <1>1 DEF S
  <2>2. IsFiniteSet(T) /\ Cardinality(T) = MaxExpiries BY <1>2 DEF T
  <2>3. IsFiniteSet(All) /\ Cardinality(All) = Cardinality(S) * Cardinality(T)
    BY <2>1, <2>2, FS_Product
  <2> QED BY <2>1, <2>2, <2>3 DEF Alarm!MaxDepth
<1> HIDE DEF All
<1>5. IsFiniteSet(Signals(f)) /\ Cardinality(Signals(f)) <= Alarm!MaxDepth BY <1>3, <1>4, FS_Subset
<1>6. Cardinality(Signals(f)) \in Nat BY <1>5, FS_CardinalityType
<1> QED BY <1>5, <1>6, DepthIsFinite

LEMMA BoundedNext ==
  TimerInv' /\ AlarmsCounted' => (\A g \in Alarm!Gens : alarms[g] <= MaxExpiries)'
<1>1. TimerInv /\ AlarmsCounted => \A g \in Alarm!Gens : alarms[g] <= MaxExpiries BY CountsBound
<1> QED BY <1>1, PTL

LEMMA OneMoreSignal ==
  ASSUME TimerInv, AlarmsCounted, TimerInv', AlarmsCounted',
         NEW g \in Alarm!Gens, alarms' = [alarms EXCEPT ![g] = @ + 1]
  PROVE  Cardinality(Signals(alarms')) = Cardinality(Signals(alarms)) + 1
<1> DEFINE s == <<g, alarms[g] + 1>>
<1>1. alarms \in [Alarm!Gens -> Nat] BY TimerTypes DEF TimerShape
<1>2. alarms'[g] <= MaxExpiries BY BoundedNext
<1>3. s \in Alarm!Gens \X (1 .. MaxExpiries) /\ s[1] = g /\ s[2] = alarms[g] + 1 BY <1>1, <1>2
<1>4. \A r \in Alarm!Gens \X (1 .. MaxExpiries) :
         r[2] <= alarms'[r[1]] <=> r[2] <= alarms[r[1]] \/ r = s
  BY <1>1
<1> HIDE DEF s
<1>5. Signals(alarms') = Signals(alarms) \cup {s} BY <1>3, <1>4 DEF Signals
<1>6. s \notin Signals(alarms) BY <1>1, <1>3 DEF Signals
<1> QED BY <1>5, <1>6, SignalsBound, FS_AddElement

(* The daemon interrupts the program, or cancels the alarm.                   *)
LEMMA DeliverKeeps ==
  ASSUME TimerInv, AlarmsCounted, TimerInv', AlarmsCounted', Trampolines, Alarm!DaemonAlarm
  PROVE  Trampolines'
<1> DEFINE g == Head(port).gen
<1>1. /\ port # <<>> /\ port' = Tail(port) /\ Head(port).kind = "alarm"
      /\ \/ UNCHANGED <<alarms, Alarm!programV>>
         \/ alarms' = [alarms EXCEPT ![g] = @ + 1] /\ Alarm!Deliver
  BY DEF Alarm!DaemonAlarm
<1>2. g \in Alarm!Gens
  <2>1. Head(port) = port[1] /\ 1 \in PortPlaces BY <1>1, MessageTaken
  <2> QED BY <1>1, <2>1 DEF TimerInv, PortExact
<1> HIDE DEF g
<1>3. CASE UNCHANGED <<alarms, Alarm!programV>>
  BY <1>3 DEF Trampolines, Placed, Begun, Nested, Right, Signals, Alarm!programV
<1>4. CASE alarms' = [alarms EXCEPT ![g] = @ + 1] /\ Alarm!Deliver
  <2> DEFINE d == cur.home + 1
  <2>1. /\ stack' = [stack EXCEPT ![d] = cur]
        /\ cur' = [at |-> "entry", home |-> d, uctx |-> Alarm!None]
        /\ sigctx' = d /\ apcs' = apcs + 1 /\ suspended' = suspended
        /\ early' = (early \/ cur.at = "entry")
    BY <1>4 DEF Alarm!Deliver
  <2>2. Cardinality(Signals(alarms')) = Cardinality(Signals(alarms)) + 1
    BY <1>2, <1>4, OneMoreSignal
  <2>3. Cardinality(Signals(alarms)) \in Nat /\ Cardinality(Signals(alarms')) \in 0 .. Alarm!MaxDepth
    BY SignalsBound
  <2>4. cur.home \in Nat /\ apcs \in Nat /\ cur.home <= Cardinality(Signals(alarms))
        /\ apcs <= Cardinality(Signals(alarms)) /\ Alarm!MaxDepth \in Nat
    BY DepthIsFinite DEF Trampolines, Placed, Begun, Alarm!Contexts
  <2>5. d \in 1 .. Alarm!MaxDepth /\ d <= Cardinality(Signals(alarms')) /\ apcs' \in 0 .. Alarm!MaxDepth
        /\ apcs' <= Cardinality(Signals(alarms'))
    BY <2>1, <2>2, <2>3, <2>4
  <2> HIDE DEF d
  <2>6. cur' \in Alarm!Contexts /\ cur'.at = "entry" /\ cur'.home = d
    BY <2>1, <2>4, <2>5 DEF Alarm!Contexts
  <2>7. stack' \in [Alarm!Depths -> Alarm!Contexts] /\ stack'[d] = cur
        /\ \A e \in Alarm!Depths : e # d => stack'[e] = stack[e]
    BY <2>1, <2>5 DEF Trampolines, Placed, Alarm!Depths
  <2>8. d = cur.home + 1 /\ d # 0 BY <2>5 DEF d
  <2>9. sigctx' \in 0 .. Alarm!MaxDepth /\ sigctx' = d /\ suspended' = FALSE /\ early' \in BOOLEAN
    BY <2>1, <2>5 DEF Trampolines, Placed
  <2>10. Placed'
    <3>1. Begun(cur)' BY <2>5, <2>6, <2>8, <2>9 DEF Begun
    <3>2. ASSUME NEW e \in Alarm!Depths PROVE Begun(stack[e])'
      <4>1. PICK c \in Alarm!Contexts : c = stack'[e] /\ Begun(c)
        <5>1. CASE e = d BY <2>7, <5>1 DEF Trampolines, Placed
        <5>2. CASE e # d BY <2>7, <5>2 DEF Trampolines, Placed
        <5> QED BY <5>1, <5>2
      <4>2. c.home \in Nat BY DepthIsFinite DEF Alarm!Contexts
      <4>3. c.home <= Cardinality(Signals(alarms')) BY <2>2, <2>3, <4>1, <4>2 DEF Begun
      <4> QED BY <2>8, <2>9, <4>1, <4>3 DEF Begun
    <3> QED BY <2>5, <2>6, <2>7, <2>9, <3>1, <3>2 DEF Placed
  <2>11. ASSUME ~ early' PROVE Nested'
    <3>0. Nested /\ cur.at # "entry" BY <2>1, <2>11 DEF Trampolines
    <3>1. Right(cur') BY <2>5, <2>6 DEF Right
    <3>2. ASSUME NEW e \in 1 .. d
          PROVE  Right(stack'[e]) /\ stack'[e].at # "entry" /\ stack'[e].home + 1 = e
      <4>1. CASE e = d BY <2>7, <2>8, <3>0, <4>1 DEF Nested
      <4>2. CASE e # d
        <5>1. e \in 1 .. cur.home /\ e \in Alarm!Depths BY <2>4, <2>5, <2>8, <4>2 DEF Alarm!Depths
        <5> QED BY <2>7, <3>0, <4>2, <5>1 DEF Nested
      <4> QED BY <4>1, <4>2
    <3> QED BY <2>6, <2>9, <3>1, <3>2 DEF Nested
  <2> QED BY <2>10, <2>11 DEF Trampolines
<1> QED BY <1>1, <1>3, <1>4

(* The trampoline steps.                                                      *)
LEMMA ProgramKeeps == ASSUME Trampolines, Alarm!Program PROVE Trampolines'
<1>1. /\ cur \in Alarm!Contexts /\ stack \in [Alarm!Depths -> Alarm!Contexts] /\ cur.home \in 0 .. Alarm!MaxDepth
      /\ Alarm!MaxDepth \in Nat /\ Cardinality(Signals(alarms)) \in Nat
      /\ apcs \in 0 .. Alarm!MaxDepth /\ apcs <= Cardinality(Signals(alarms)) /\ sigctx \in 0 .. Alarm!MaxDepth
      /\ Begun(cur)
  BY DepthIsFinite, SignalsBound DEF Trampolines, Placed, Alarm!Contexts
<1>2. CASE Alarm!Entry \/ Alarm!Handle \/ Alarm!DelayOver
  <2>1. /\ UNCHANGED <<alarms, stack, sigctx, suspended, early>>
        /\ cur' \in Alarm!Contexts /\ cur'.home = cur.home
        /\ cur'.uctx = IF cur.at = "entry" THEN sigctx ELSE cur.uctx
        /\ cur'.at \in {"delay", "handler", "continue"}
        /\ cur.at \in {"entry", "delay", "handler"}
        /\ apcs' = apcs \/ (apcs > 0 /\ apcs' = apcs - 1)
    <3>1. CASE Alarm!Entry BY <1>1, <3>1 DEF Alarm!Entry, Alarm!Running, Alarm!Contexts
    <3>2. CASE Alarm!Handle BY <1>1, <3>2 DEF Alarm!Handle, Alarm!Running, Alarm!Contexts
    <3>3. CASE Alarm!DelayOver BY <1>1, <3>3 DEF Alarm!DelayOver, Alarm!Running, Alarm!Contexts
    <3> QED BY <1>2, <3>1, <3>2, <3>3
  <2>2. Signals(alarms') = Signals(alarms) BY <2>1 DEF Signals
  <2>3. apcs' \in 0 .. Alarm!MaxDepth /\ apcs' <= Cardinality(Signals(alarms)) BY <1>1, <2>1
  <2>4. Begun(cur)' BY <1>1, <2>1, <2>2 DEF Begun
  <2>5. \A d \in Alarm!Depths : Begun(stack[d])' BY <2>1, <2>2 DEF Trampolines, Placed, Begun
  <2>6. Placed' BY <2>1, <2>2, <2>3, <2>4, <2>5 DEF Trampolines, Placed
  <2>7. ASSUME ~ early' PROVE Nested'
    <3>1. Nested BY <2>1, <2>7 DEF Trampolines
    <3>2. Right(cur') /\ cur'.at # "entry" BY <2>1, <3>1 DEF Nested, Right
    <3> QED BY <2>1, <3>1, <3>2 DEF Nested
  <2> QED BY <2>6, <2>7 DEF Trampolines
<1>3. CASE Alarm!Continue
  <2> DEFINE c == stack[cur.uctx]
  <2>1. /\ cur' = c /\ UNCHANGED <<alarms, stack, sigctx, apcs, suspended, early>>
        /\ cur.at = "continue"
    BY <1>3 DEF Alarm!Continue, Alarm!Running
  <2>2. cur.uctx \in Alarm!Depths BY <1>1, <2>1 DEF Begun, Alarm!Depths, Alarm!Contexts
  <2>3. c \in Alarm!Contexts /\ Begun(c) BY <1>1, <2>2 DEF Trampolines, Placed
  <2>4. c = stack[cur.uctx] OBVIOUS
  <2> HIDE DEF c
  <2>5. Signals(alarms') = Signals(alarms) BY <2>1 DEF Signals
  <2>6. Placed'
    <3>1. Begun(cur)' BY <2>1, <2>3, <2>5 DEF Begun
    <3>2. \A d \in Alarm!Depths : Begun(stack[d])' BY <2>1, <2>5 DEF Trampolines, Placed, Begun
    <3> QED BY <2>1, <2>3, <2>5, <3>1, <3>2 DEF Trampolines, Placed
  <2>7. ASSUME ~ early' PROVE Nested'
    <3>1. Nested BY <2>1, <2>7 DEF Trampolines
    <3>2. cur.uctx = cur.home BY <2>1, <3>1 DEF Nested, Right
    <3>3. cur.home \in 1 .. cur.home BY <1>1, <2>2, <3>2 DEF Alarm!Depths
    <3>4. Right(c) /\ c.at # "entry" /\ c.home + 1 = cur.home BY <2>4, <3>1, <3>2, <3>3 DEF Nested
    <3>5. c.home \in Nat BY <1>1, <2>3 DEF Alarm!Contexts
    <3>6. \A d \in 1 .. c.home : d \in 1 .. cur.home BY <1>1, <3>4, <3>5
    <3> QED BY <2>1, <3>1, <3>4, <3>6 DEF Nested
  <2> QED BY <2>6, <2>7 DEF Trampolines
<1> QED BY <1>2, <1>3 DEF Alarm!Program

LEMMA TrampolinesKept ==
  ASSUME TimerInv, AlarmsCounted,
         TimerInv', AlarmsCounted', Trampolines, Alarm!Next \/ UNCHANGED Alarm!vars
  PROVE  Trampolines'
<1>1. CASE Alarm!DaemonAlarm BY <1>1, DeliverKeeps
<1>2. CASE Alarm!Program BY <1>2, ProgramKeeps
<1>3. CASE UNCHANGED <<alarms, Alarm!programV>>
  BY <1>3 DEF Trampolines, Placed, Begun, Nested, Right, Signals, Alarm!programV
<1> QED
  BY <1>1, <1>2, <1>3 DEF Alarm!Next, Alarm!SetItimer, Alarm!TimerStep, Alarm!Start, Alarm!Claim,
     Alarm!Arm, Alarm!Restore, Alarm!WaitEnds,
     Alarm!DelayEnds, Alarm!TimerApc, Alarm!Post, Alarm!Killed, Alarm!Expire, Alarm!Daemon,
     Alarm!DaemonSet, Alarm!DaemonKill, Alarm!DaemonCancel,
     Alarm!DaemonCreate, Alarm!vars

LEMMA TrampolinesStart == Alarm!Init => Trampolines
<1> SUFFICES ASSUME Alarm!Init PROVE Trampolines OBVIOUS
<1>1. Alarm!User \in Alarm!Contexts /\ Right(Alarm!User) /\ Alarm!User.at # "entry" /\ Alarm!User.home = 0
  BY DepthIsFinite DEF Alarm!User, Alarm!Contexts, Right
<1>2. Cardinality(Signals(alarms)) \in Nat BY SignalsBound
<1>3. Begun(Alarm!User) BY <1>2 DEF Begun, Alarm!User
<1>4. Placed
  <2>1. cur = Alarm!User /\ stack = [d \in Alarm!Depths |-> Alarm!User] BY DEF Alarm!Init
  <2>2. /\ sigctx \in 0 .. Alarm!MaxDepth /\ apcs \in 0 .. Alarm!MaxDepth
        /\ apcs <= Cardinality(Signals(alarms))
    BY <1>2, DepthIsFinite DEF Alarm!Init
  <2>5. suspended = FALSE /\ early \in BOOLEAN BY DEF Alarm!Init
  <2>3. /\ cur \in Alarm!Contexts /\ stack \in [Alarm!Depths -> Alarm!Contexts]
        /\ \A d \in Alarm!Depths : stack[d] = Alarm!User
    BY <1>1, <2>1
  <2>4. Begun(cur) /\ \A d \in Alarm!Depths : Begun(stack[d]) BY <1>3, <2>1, <2>3
  <2> QED BY <2>2, <2>3, <2>4, <2>5 DEF Placed
<1>5. Nested BY <1>1, DepthIsFinite DEF Alarm!Init, Nested
<1> QED BY <1>4, <1>5 DEF Trampolines

-----------------------------------------------------------------------------
AlarmInv == TimerInv /\ AlarmsCounted /\ Trampolines

LEMMA AlarmsGoOn ==
  AlarmInv /\ (Alarm!Next \/ UNCHANGED Alarm!vars)
    => AlarmInv' /\ (\A g \in Alarm!Gens : alarms'[g] # alarms[g] => g = latest \/ crossed')
BY TimerKeeps, CountsKept, TrampolinesKept, OnlyTheLast DEF AlarmInv

LEMMA AlarmsSound ==
  ASSUME AlarmInv
  PROVE  Alarm!TypeOK /\ Alarm!OneShotOnce /\ Alarm!GoesBackWhereItWas
<1>1. Alarm!TypeOK
  <2>1. \A i \in DOMAIN port : port[i].kind \in {"set", "alarm"}
    <3>1. port \in Seq(Messages) BY TimerTypes DEF AlarmInv
    <3>2. \A i \in DOMAIN port : port[i] \in Messages BY <3>1
    <3> QED BY <3>2 DEF Messages
  <2>2. alarms \in [Alarm!Gens -> 0 .. MaxExpiries]
    <3>1. alarms \in [Alarm!Gens -> Nat] BY TimerTypes DEF AlarmInv, TimerShape
    <3>2. \A g \in Alarm!Gens : alarms[g] <= MaxExpiries BY CountsBound DEF AlarmInv
    <3> QED BY <3>1, <3>2
  <2> QED BY <2>1, <2>2 DEF AlarmInv, TimerInv, TimerShape, Trampolines, Placed, Alarm!TypeOK
<1>2. Alarm!OneShotOnce BY CountsBound DEF AlarmInv, Alarm!OneShotOnce
<1>3. Alarm!GoesBackWhereItWas BY DEF AlarmInv, Trampolines, Nested, Right, Alarm!GoesBackWhereItWas
<1> QED BY <1>1, <1>2, <1>3

LEMMA AlarmStep ==
  AlarmInv /\ [PartsNext]_allVars
    => AlarmInv' /\ [\A g \in Alarm!Gens : alarms'[g] # alarms[g] => g = latest \/ crossed']_(Alarm!vars)
<1> SUFFICES ASSUME AlarmInv, [PartsNext]_allVars
             PROVE  /\ AlarmInv'
                    /\ [\A g \in Alarm!Gens : alarms'[g] # alarms[g] => g = latest \/ crossed']_(Alarm!vars)
  OBVIOUS
<1>1. Alarm!Next \/ UNCHANGED alarmVars BY DEF PartsNext, Others, allVars
<1>2. UNCHANGED alarmVars => UNCHANGED Alarm!vars
  BY DEF alarmVars, Alarm!vars, Alarm!timerV, Alarm!programV
<1> QED BY <1>1, <1>2, AlarmsGoOn

LEMMA AlarmsStart == PartsInit => AlarmInv
BY TimerStarts, CountsStart, TrampolinesStart DEF PartsInit, AlarmInv

(* In every interleaving, for any number of settings and expiries: a signal   *)
(* is of the timer that was set last, whatever an older one had under way, or *)
(* the instance has been used while a timer thread was arming (crossed).      *)
THEOREM OldTimersAreSilent == PartsSpec => NoStaleAlarm
BY AlarmsStart, AlarmStep, PTL DEF PartsSpec, NoStaleAlarm, Alarm!NoStaleAlarm

(* A timer without an interval signals once, crossed or not.  A trampoline    *)
(* goes back to the context that it interrupted, however signals interrupt    *)
(* one another, or one came before a trampoline had read its context (early). *)
THEOREM HandlersReturnRight == PartsSpec => []ReturnsExact
<1>1. AlarmInv => ReturnsExact BY AlarmsSound DEF ReturnsExact
<1> QED BY <1>1, AlarmsStart, AlarmStep, PTL DEF PartsSpec
=============================================================================
