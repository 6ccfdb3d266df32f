------------------------------- MODULE CondVar -------------------------------
(* pthread_cond_t and the normal mutex of musl-nt64 (thread/                  *)
(* pthread_cond_timedwait.c, pthread_mutex_*.c) on the futex of psxscl.  A    *)
(* waiter is a node on its own stack, in a list that a signal or a broadcast  *)
(* cuts; a node has a barrier that the thread before it in the order of       *)
(* waking opens.  A waiter that gives up takes its node out of the list, and  *)
(* the signaller waits for it.                                                *)
EXTENDS Futex, FiniteSets

CONSTANTS
    Waiters,        \* threads that wait once, with the mutex
    Timed,          \* those that wait with a time limit
    Signallers,     \* threads that signal or broadcast
    MaxCalls,       \* bound: calls the signallers make together
    Systems         \* what may be: [kernel, shared, ops], ops what signallers call

CondVarAssumption ==
    /\ Callers = Waiters \cup Signallers /\ Waiters \cap Signallers = {}
    /\ Timed \subseteq Waiters /\ MaxCalls \in Nat
    /\ \A s \in Systems : s.kernel \in BOOLEAN /\ s.shared \in BOOLEAN
                          /\ s.ops \subseteq {"signal", "broadcast"}

(* The system of one run: broadcasts, on a mutex of the process.              *)
PrivateBroadcast == {[kernel |-> TRUE, shared |-> FALSE, ops |-> {"broadcast"}]}

VARIABLES
    shared,         \* m->_m_type & 128: the mutex may be used by other processes
    ops,            \* what signallers call
    mwaiters,       \* m->_m_waiters
    ends,           \* [head, tail]: c->_c_head, c->_c_tail
    node,           \* node[t]: [prev, next, state, notify], the waiter t
    pc,             \* pc[t]: the next shared access of t
    loc,            \* loc[t]: the locals of its calls
    calls,          \* calls the signallers have made
    due             \* history: due[s], waiters in the list when s called

vars == <<word, asleep, kernel, shared, ops, mwaiters, ends, node, pc, loc, calls, due>>
fixed == <<kernel, shared, ops>>
listV == <<ends, node>>

Mutex == The("mutex")           \* 0 free, 1 held, 2 held and waited for
Lock == The("lock")             \* c->_c_lock: 0 free, 1 held, 2 waited for
Barrier(t) == Of("barrier", t)
Ref(t) == Of("ref", t)

NoNode == [prev |-> Nobody, next |-> Nobody, state |-> "none", notify |-> Nobody]
NoLoc == [ret |-> "wait", addr |-> Mutex, p |-> Nobody, first |-> Nobody, n |-> 0,
          val |-> 0, timedOut |-> FALSE, left |-> FALSE]

Init ==
    /\ word = [a \in {Mutex, Lock} \cup {Barrier(t) : t \in Waiters}
                     \cup {Ref(t) : t \in Signallers} |-> 0]
    /\ asleep = [t \in Callers |-> Awake]
    /\ \E s \in Systems : kernel = s.kernel /\ shared = s.shared /\ ops = s.ops
    /\ mwaiters = 0 /\ ends = [head |-> Nobody, tail |-> Nobody]
    /\ node = [t \in Waiters |-> NoNode]
    /\ pc = [t \in Callers |-> IF t \in Waiters THEN "try" ELSE "start"]
    /\ loc = [t \in Callers |-> NoLoc]
    /\ calls = 0 /\ due = [t \in Signallers |-> {}]

At(t, l) == pc[t] = l /\ asleep[t] = Awake
Go(t, l) == pc' = [pc EXCEPT ![t] = l]
Local(t, l) == loc' = [loc EXCEPT ![t] = l]
Store(a, v) == word' = [word EXCEPT ![a] = v]

(* Enter a routine on address a, and come back to r.                          *)
CallOn(t, l, a, r) == Go(t, l) /\ Local(t, [loc[t] EXCEPT !.addr = a, !.ret = r, !.val = 0])

-----------------------------------------------------------------------------
(* lock() and unlock() of the list and of barriers.                           *)

LockFree(t) ==
    /\ At(t, "lock")
    /\ IF word[loc[t].addr] = 0
       THEN Store(loc[t].addr, 1) /\ Go(t, loc[t].ret)
       ELSE UNCHANGED word /\ Go(t, "lockMark")
    /\ UNCHANGED <<asleep, fixed, mwaiters, listV, loc, calls, due>>

LockMark(t) ==
    /\ At(t, "lockMark")
    /\ IF word[loc[t].addr] = 1 THEN Store(loc[t].addr, 2) ELSE UNCHANGED word
    /\ Go(t, "lockWait")
    /\ UNCHANGED <<asleep, fixed, mwaiters, listV, loc, calls, due>>

(* Mutant: who has waited takes the lock as if nobody else waited.            *)
LockWaitUnmarked(t) ==
    /\ At(t, "lockWait")
    /\ FutexWait(t, loc[t].addr, 2)
    /\ IF word[loc[t].addr] = 0
       THEN Store(loc[t].addr, 1) /\ Go(t, loc[t].ret)
       ELSE UNCHANGED <<word, pc>>
    /\ UNCHANGED <<fixed, mwaiters, listV, loc, calls, due>>

(* It sleeps while others are let in, and takes the lock as one waited for.   *)
LockWait(t) ==
    /\ At(t, "lockWait")
    /\ FutexWait(t, loc[t].addr, 2)
    /\ IF word[loc[t].addr] = 0
       THEN Store(loc[t].addr, 2) /\ Go(t, loc[t].ret)
       ELSE UNCHANGED <<word, pc>>
    /\ UNCHANGED <<fixed, mwaiters, listV, loc, calls, due>>

(* unlock(), of a lock that guards the list, or of a barrier.                 *)
Give(t, a, r) ==
    /\ Store(a, 0)
    /\ CallOn(t, IF word[a] = 2 THEN "wake" ELSE r, a, r)

Wake(t) ==
    /\ At(t, "wake")
    /\ FutexWake(loc[t].addr)
    /\ Go(t, loc[t].ret)
    /\ UNCHANGED <<word, fixed, mwaiters, listV, loc, calls, due>>

-----------------------------------------------------------------------------
(* pthread_mutex_lock and pthread_mutex_unlock of a normal mutex.             *)

(* pthread_mutex_trylock; a thread that fails reads what the mutex holds.     *)
MutexTry(t) ==
    /\ At(t, "try")
    /\ IF word[Mutex] = 0
       THEN Store(Mutex, 1) /\ Go(t, loc[t].ret) /\ UNCHANGED loc
       ELSE Go(t, "count") /\ Local(t, [loc[t] EXCEPT !.val = word[Mutex]]) /\ UNCHANGED word
    /\ UNCHANGED <<asleep, fixed, mwaiters, listV, calls, due>>

MutexCount(t) ==
    /\ At(t, "count")
    /\ mwaiters' = mwaiters + 1
    /\ Go(t, "flag")
    /\ UNCHANGED <<word, asleep, fixed, listV, loc, calls, due>>

MutexFlag(t) ==
    /\ At(t, "flag")
    /\ IF word[Mutex] = loc[t].val THEN Store(Mutex, 2) ELSE UNCHANGED word
    /\ CallOn(t, "doze", Mutex, loc[t].ret)
    /\ UNCHANGED <<asleep, fixed, mwaiters, listV, calls, due>>

MutexDoze(t) ==
    /\ At(t, "doze")
    /\ FutexWait(t, Mutex, 2)
    /\ Go(t, "uncount")
    /\ UNCHANGED <<word, fixed, mwaiters, listV, loc, calls, due>>

MutexUncount(t) ==
    /\ At(t, "uncount")
    /\ mwaiters' = mwaiters - 1
    /\ Go(t, "try")
    /\ UNCHANGED <<word, asleep, fixed, listV, loc, calls, due>>

(* The waiters are read before the mutex is given up.                         *)
MutexLeave(t) ==
    /\ At(t, "leave")
    /\ Go(t, "swap")
    /\ Local(t, [loc[t] EXCEPT !.val = mwaiters])
    /\ UNCHANGED <<word, asleep, fixed, mwaiters, listV, calls, due>>

(* Mutant: only the waiters that were counted are woken.                      *)
MutexSwapCounted(t) ==
    /\ At(t, "swap")
    /\ Store(Mutex, 0)
    /\ Go(t, IF loc[t].val > 0 THEN "wake" ELSE loc[t].ret)
    /\ UNCHANGED <<asleep, fixed, mwaiters, listV, loc, calls, due>>

MutexSwap(t) ==
    /\ At(t, "swap")
    /\ Store(Mutex, 0)
    /\ Go(t, IF loc[t].val > 0 \/ word[Mutex] = 2 THEN "wake" ELSE loc[t].ret)
    /\ UNCHANGED <<asleep, fixed, mwaiters, listV, loc, calls, due>>

-----------------------------------------------------------------------------
(* pthread_cond_timedwait.                                                    *)

(* A thread with the mutex calls.                                             *)
Wait(t) ==
    /\ At(t, "wait")
    /\ CallOn(t, "lock", Lock, "enqueue")
    /\ UNCHANGED <<word, asleep, fixed, mwaiters, listV, calls, due>>

(* The node becomes the head; the list is the lock's.                         *)
Enqueue(t) ==
    /\ At(t, "enqueue")
    /\ word' = [word EXCEPT ![Barrier(t)] = 2, ![Lock] = 0]
    /\ node' = [w \in Waiters |->
            CASE w = t -> [prev |-> Nobody, next |-> ends.head, state |-> "waiting",
                           notify |-> Nobody]
              [] w = ends.head /\ ends.tail # Nobody -> [node[w] EXCEPT !.prev = t]
              [] OTHER -> node[w]]
    /\ ends' = [head |-> t, tail |-> IF ends.tail = Nobody THEN t ELSE ends.tail]
    /\ CallOn(t, IF word[Lock] = 2 THEN "wake" ELSE "release", Lock, "release")
    /\ UNCHANGED <<asleep, fixed, mwaiters, calls, due>>

Release(t) ==
    /\ At(t, "release")
    /\ CallOn(t, "leave", Mutex, "sleep")
    /\ UNCHANGED <<word, asleep, fixed, mwaiters, listV, calls, due>>

(* The sleep on the own barrier, which only its opening or the time ends.     *)
Sleep(t) ==
    /\ At(t, "sleep")
    /\ FutexWait(t, Barrier(t), 2)
    /\ IF word[Barrier(t)] = 2 /\ ~ loc[t].timedOut THEN UNCHANGED pc ELSE Go(t, "claim")
    /\ UNCHANGED <<word, fixed, mwaiters, listV, loc, calls, due>>

TimeOut(t) ==
    /\ t \in Timed /\ pc[t] = "sleep" /\ Stir(t)
    /\ Go(t, "claim")
    /\ Local(t, [loc[t] EXCEPT !.timedOut = TRUE])
    /\ UNCHANGED <<word, fixed, mwaiters, listV, calls, due>>

(* Mutant: a waiter whose time is up leaves although it was signalled.        *)
ClaimAlways(t) ==
    /\ At(t, "claim")
    /\ IF node[t].state = "waiting" \/ loc[t].timedOut
       THEN /\ node' = [node EXCEPT ![t].state = "leaving"]
            /\ loc' = [loc EXCEPT ![t].left = TRUE, ![t].addr = Lock, ![t].ret = "unlink"]
       ELSE /\ UNCHANGED node
            /\ loc' = [loc EXCEPT ![t].addr = Barrier(t), ![t].ret = "relock"]
    /\ Go(t, "lock")
    /\ UNCHANGED <<word, asleep, fixed, mwaiters, ends, calls, due>>

Claim(t) ==
    /\ At(t, "claim")
    /\ IF node[t].state = "waiting"
       THEN /\ node' = [node EXCEPT ![t].state = "leaving"]
            /\ loc' = [loc EXCEPT ![t].left = TRUE, ![t].addr = Lock, ![t].ret = "unlink"]
       ELSE /\ UNCHANGED node
            /\ loc' = [loc EXCEPT ![t].addr = Barrier(t), ![t].ret = "relock"]
    /\ Go(t, "lock")
    /\ UNCHANGED <<word, asleep, fixed, mwaiters, ends, calls, due>>

(* A waiter that left takes its node out, of the list or of one that was cut. *)
Unlink(t) ==
    /\ At(t, "unlink")
    /\ LET me == node[t] IN
        /\ ends' = [head |-> IF ends.head = t THEN me.next ELSE ends.head,
                    tail |-> IF ends.tail = t THEN me.prev ELSE ends.tail]
        /\ node' = [w \in Waiters |->
               CASE w = me.prev /\ ends.head # t -> [node[w] EXCEPT !.next = me.next]
                 [] w = me.next /\ ends.tail # t -> [node[w] EXCEPT !.prev = me.prev]
                 [] OTHER -> node[w]]
    /\ Give(t, Lock, "notify")
    /\ UNCHANGED <<asleep, fixed, mwaiters, calls, due>>

(* It tells the signaller that met it.                                        *)
Notify(t) ==
    /\ At(t, "notify")
    /\ IF node[t].notify = Nobody
       THEN UNCHANGED word /\ CallOn(t, "try", Mutex, "relocked")
       ELSE /\ Store(Ref(node[t].notify), word[Ref(node[t].notify)] - 1)
            /\ IF word[Ref(node[t].notify)] = 1
               THEN CallOn(t, "wake", Ref(node[t].notify), "relock")
               ELSE CallOn(t, "try", Mutex, "relocked")
    /\ UNCHANGED <<asleep, fixed, mwaiters, listV, calls, due>>

Relock(t) ==
    /\ At(t, "relock")
    /\ CallOn(t, "try", Mutex, "relocked")
    /\ UNCHANGED <<word, asleep, fixed, mwaiters, listV, calls, due>>

(* With the mutex, which alone reads its waiters: the first of a group counts *)
(* it with them, each opens the barrier of the next, the last takes it off.   *)
Relocked(t) ==
    /\ At(t, "relocked")
    /\ LET prev == node[t].prev  left == loc[t].left IN
        /\ mwaiters' = mwaiters + (IF ~ left /\ node[t].next = Nobody THEN 1 ELSE 0)
                                - (IF ~ left /\ prev = Nobody THEN 1 ELSE 0)
        /\ IF left \/ prev = Nobody
           THEN CallOn(t, "leave", Mutex, "done") /\ UNCHANGED word
           ELSE CallOn(t, "requeue", Barrier(prev), "waited") /\ Store(Barrier(prev), 0)
    /\ UNCHANGED <<asleep, fixed, listV, calls, due>>

(* unlock_requeue: a waiter of a private mutex is to sleep on the mutex.      *)
Requeue(t) ==
    /\ At(t, "requeue")
    /\ IF shared THEN FutexWake(loc[t].addr) ELSE FutexRequeue(loc[t].addr, Mutex)
    /\ Go(t, loc[t].ret)
    /\ UNCHANGED <<word, fixed, mwaiters, listV, loc, calls, due>>

(* The caller leaves the mutex.                                               *)
Waited(t) ==
    /\ At(t, "waited")
    /\ CallOn(t, "leave", Mutex, "done")
    /\ UNCHANGED <<word, asleep, fixed, mwaiters, listV, calls, due>>

-----------------------------------------------------------------------------
(* __private_cond_signal: pthread_cond_signal and pthread_cond_broadcast.     *)

InList == {w \in Waiters : node[w].state = "waiting"}

Signal(s) ==
    /\ s \in Signallers /\ At(s, "start") /\ calls < MaxCalls
    /\ calls' = calls + 1
    /\ \E op \in ops : Local(s, [NoLoc EXCEPT !.addr = Lock, !.ret = "first", !.n =
                                   IF op = "signal" THEN 1 ELSE Cardinality(Waiters) + 1])
    /\ Go(s, "lock")
    /\ due' = [due EXCEPT ![s] = {}]
    /\ UNCHANGED <<word, asleep, fixed, mwaiters, listV>>

First(s) ==
    /\ At(s, "first")
    /\ Local(s, [loc[s] EXCEPT !.p = ends.tail])
    /\ Go(s, "scan")
    /\ due' = [due EXCEPT ![s] = InList]
    /\ UNCHANGED <<word, asleep, fixed, mwaiters, listV, calls>>

(* Mutant: a waiter that leaves is passed over, and not waited for.           *)
ScanPasses(s) ==
    /\ At(s, "scan") /\ loc[s].n > 0 /\ loc[s].p # Nobody
    /\ LET p == loc[s].p IN
        IF node[p].state # "waiting"
        THEN loc' = [loc EXCEPT ![s].p = node[p].prev] /\ UNCHANGED <<node, word>>
        ELSE /\ node' = [node EXCEPT ![p].state = "signaled"]
             /\ loc' = [loc EXCEPT ![s].p = node[p].prev, ![s].n = @ - 1,
                                   ![s].first = IF @ = Nobody THEN p ELSE @]
             /\ UNCHANGED word
    /\ UNCHANGED <<asleep, fixed, mwaiters, ends, pc, calls, due>>

(* From the oldest on; a waiter that leaves is to notify.                     *)
Scan(s) ==
    /\ At(s, "scan") /\ loc[s].n > 0 /\ loc[s].p # Nobody
    /\ LET p == loc[s].p IN
        IF node[p].state # "waiting"
        THEN /\ Store(Ref(s), word[Ref(s)] + 1)
             /\ node' = [node EXCEPT ![p].notify = s]
             /\ loc' = [loc EXCEPT ![s].p = node[p].prev]
        ELSE /\ node' = [node EXCEPT ![p].state = "signaled"]
             /\ loc' = [loc EXCEPT ![s].p = node[p].prev, ![s].n = @ - 1,
                                   ![s].first = IF @ = Nobody THEN p ELSE @]
             /\ UNCHANGED word
    /\ UNCHANGED <<asleep, fixed, mwaiters, ends, pc, calls, due>>

(* Mutant: the last of the group still points to those who go on waiting.     *)
SplitHalf(s) ==
    /\ At(s, "scan") /\ (loc[s].n = 0 \/ loc[s].p = Nobody)
    /\ LET p == loc[s].p IN
        /\ node' = [w \in Waiters |->
               IF w = p THEN [node[w] EXCEPT !.next = Nobody] ELSE node[w]]
        /\ ends' = [head |-> IF p = Nobody THEN Nobody ELSE ends.head, tail |-> p]
    /\ Give(s, Lock, "await")
    /\ UNCHANGED <<asleep, fixed, mwaiters, calls, due>>

(* The list is cut; what is left stays.                                       *)
Split(s) ==
    /\ At(s, "scan") /\ (loc[s].n = 0 \/ loc[s].p = Nobody)
    /\ LET p == loc[s].p IN
        /\ node' = [w \in Waiters |->
               CASE w = p -> [node[w] EXCEPT !.next = Nobody]
                 [] p # Nobody /\ w = node[p].next -> [node[w] EXCEPT !.prev = Nobody]
                 [] OTHER -> node[w]]
        /\ ends' = [head |-> IF p = Nobody THEN Nobody ELSE ends.head, tail |-> p]
    /\ Give(s, Lock, "await")
    /\ UNCHANGED <<asleep, fixed, mwaiters, calls, due>>

(* Those who leave have left before the first goes on.                        *)
Await(s) ==
    /\ At(s, "await")
    /\ IF word[Ref(s)] # 0
       THEN /\ FutexWait(s, Ref(s), word[Ref(s)])
            /\ Local(s, [loc[s] EXCEPT !.val = word[Ref(s)]]) /\ UNCHANGED <<word, pc>>
       ELSE /\ UNCHANGED asleep
            /\ IF loc[s].first # Nobody THEN Give(s, Barrier(loc[s].first), "start")
               ELSE Go(s, "start") /\ UNCHANGED <<word, loc>>
    /\ UNCHANGED <<fixed, mwaiters, listV, calls, due>>

-----------------------------------------------------------------------------
(* A sleeper of a system that polls: all but a signaller wait for 2 to change.*)
Look(t) ==
    /\ Poll(t, IF pc[t] = "await" THEN loc[t].val ELSE 2)
    /\ UNCHANGED <<word, fixed, mwaiters, listV, pc, loc, calls, due>>

(* A sleep that ends for no reason: elsewhere the word is looked at again.    *)
Stray(t) ==
    /\ pc[t] = "uncount" /\ Stir(t)
    /\ UNCHANGED <<word, fixed, mwaiters, listV, pc, loc, calls, due>>

Step(t) ==
    \/ LockFree(t) \/ LockMark(t) \/ LockWait(t) \/ Wake(t)
    \/ MutexTry(t) \/ MutexCount(t) \/ MutexFlag(t) \/ MutexDoze(t) \/ MutexUncount(t)
    \/ MutexLeave(t) \/ MutexSwap(t)
    \/ Wait(t) \/ Enqueue(t) \/ Release(t) \/ Sleep(t) \/ Claim(t) \/ Unlink(t)
    \/ Notify(t) \/ Relock(t) \/ Relocked(t) \/ Requeue(t) \/ Waited(t)
    \/ First(t) \/ Scan(t) \/ Split(t) \/ Await(t) \/ Look(t)

Next == \E t \in Callers : Signal(t) \/ TimeOut(t) \/ Stray(t) \/ Step(t)

Spec == Init /\ [][Next]_vars

(* Threads that have begun go on; nobody has to call.                         *)
Fairness == \A t \in Callers : WF_vars(Step(t))
FairSpec == Spec /\ Fairness

-----------------------------------------------------------------------------
(* Properties.                                                                *)

Links == Waiters \cup {Nobody}
Words == {Mutex, Lock} \cup {Barrier(t) : t \in Waiters} \cup {Ref(t) : t \in Signallers}

TypeOK ==
    /\ word \in [Words -> 0 .. Cardinality(Waiters) + 2] /\ mwaiters \in 0 .. Cardinality(Callers)
    /\ asleep \in [Callers -> Words \cup {Awake}]
    /\ ends \in [head : Links, tail : Links]
    /\ node \in [Waiters -> [prev : Links, next : Links, notify : Signallers \cup {Nobody},
                             state : {"none", "waiting", "signaled", "leaving"}]]

(* One thread at a time is in the code that the mutex guards, the waiters     *)
(* that come back from a wait included, and one changes the list.             *)
HoldsMutex(t) ==
    \/ pc[t] \in {"wait", "enqueue", "release", "leave", "swap", "relocked", "requeue", "waited"}
    \/ loc[t].ret \in {"enqueue", "release"} /\ pc[t] \in {"lock", "lockMark", "lockWait", "wake"}
HoldsList(t) == pc[t] \in {"enqueue", "unlink", "first", "scan"}

OneAtATime ==
    /\ \A t, u \in Callers : HoldsMutex(t) /\ HoldsMutex(u) => t = u
    /\ \A t, u \in Callers : HoldsList(t) /\ HoldsList(u) => t = u

(* Whoever reads or writes the node of a waiter, which is on its stack, or    *)
(* the count of a signaller, does so before the owner has come back.          *)
Inside(t) ==
    node[t].state # "none" /\ pc[t] \notin {"waited", "done"} /\ loc[t].ret # "done"
NodesLive ==
    /\ \A s \in Signallers :
        /\ pc[s] = "scan" /\ loc[s].n > 0 /\ loc[s].p # Nobody => Inside(loc[s].p)
        /\ pc[s] = "await" /\ loc[s].first # Nobody => Inside(loc[s].first)
    /\ \A t \in Waiters :
        /\ pc[t] = "relocked" /\ ~ loc[t].left /\ node[t].prev # Nobody => Inside(node[t].prev)
        /\ pc[t] = "notify" /\ node[t].notify # Nobody =>
              pc[node[t].notify] = "await" \/ loc[node[t].notify].ret = "await"
        /\ pc[t] = "unlink" => \A w \in {node[t].prev, node[t].next} \ {Nobody} : Inside(w)

(* A signal reaches a waiter that was there when it was called, unless all of *)
(* them leave, and a broadcast reaches all that do not leave.                 *)
SignalsReach ==
    \A s \in Signallers : pc[s] = "start" =>
        \/ loc[s].n = 0
        \/ \A w \in due[s] : node[w].state # "waiting"

(* The waiters of one broadcast come back in the order in which they came.    *)
InOrder ==
    \A t \in Waiters : node[t].state = "signaled" /\ node[t].next # Nobody
                       /\ (loc[t].ret = "relocked" \/ pc[t] \in {"relock", "done"}) =>
        pc[node[t].next] \in {"requeue", "waited", "done"} \/ loc[node[t].next].ret = "done"

(* When nobody is inside a call, nothing is held and nobody is counted.       *)
Settled ==
    (\A t \in Callers : IF t \in Waiters THEN pc[t] = "done" ELSE pc[t] = "start") =>
        /\ mwaiters = 0 /\ ends = [head |-> Nobody, tail |-> Nobody]
        /\ word[Mutex] = 0 /\ word[Lock] = 0
        /\ \A s \in Signallers : word[Ref(s)] = 0

(* A waiter that has been signalled comes back.                               *)
SignalledReturn ==
    \A t \in Waiters : node[t].state = "signaled" ~> pc[t] = "done"
=============================================================================
