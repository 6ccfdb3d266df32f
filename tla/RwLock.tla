------------------------------- MODULE RwLock --------------------------------
(* pthread_rwlock_t of musl-nt64 (thread/pthread_rwlock_*.c) on the futex of  *)
(* psxscl: one word with the number of readers, or Full for a writer, and a   *)
(* flag that somebody may sleep.                                              *)
EXTENDS Futex, FiniteSets

CONSTANTS
    Full,           \* 0x7fffffff
    MaxLocks        \* bound: locks of each thread

RwLockAssumption == Full \in Nat /\ Full > 2 /\ MaxLocks \in Nat

VARIABLES
    waiters,        \* rw->_rw_waiters
    pc,             \* pc[t]: the next shared access of t
    mode,           \* mode[t]: "read" or "write", what t wants or has
    loc,            \* loc[t]: [val, busy], the locals of its call
    locks           \* locks[t]: calls t has made

vars == <<word, asleep, kernel, waiters, pc, mode, loc, locks>>

Lock == The("lock")
Value(n, f) == [cnt |-> n, flag |-> f]
Free == Value(0, FALSE)
NoLoc == [val |-> Free, busy |-> 0]

Init ==
    /\ word = [a \in {Lock} |-> Free]
    /\ asleep = [t \in Callers |-> Awake] /\ kernel = TRUE
    /\ waiters = 0
    /\ pc = [t \in Callers |-> "start"] /\ mode = [t \in Callers |-> "read"]
    /\ loc = [t \in Callers |-> NoLoc]
    /\ locks = [t \in Callers |-> 0]

At(t, l) == pc[t] = l /\ asleep[t] = Awake
Go(t, l) == pc' = [pc EXCEPT ![t] = l]
Saw(t, v) == loc' = [loc EXCEPT ![t] = [val |-> v, busy |-> 0]]
Forget(t) == loc' = [loc EXCEPT ![t] = NoLoc]
Store(v) == word' = [word EXCEPT ![Lock] = v]

(* A thread locks to read or to write, and later unlocks.                     *)
Call(t) ==
    /\ At(t, "start") /\ locks[t] < MaxLocks
    /\ locks' = [locks EXCEPT ![t] = @ + 1]
    /\ \E m \in {"read", "write"} : mode' = [mode EXCEPT ![t] = m] /\ Go(t, m)
    /\ UNCHANGED <<word, asleep, kernel, waiters, loc>>

-----------------------------------------------------------------------------
(* pthread_rwlock_tryrdlock; a reader waits only for a writer.                *)
Read(t) ==
    /\ At(t, "read")
    /\ LET v == word[Lock] IN
        CASE v.cnt = Full -> Go(t, "count") /\ Saw(t, v)
          [] v.cnt = Full - 1 -> Go(t, "start") /\ UNCHANGED loc        \* EAGAIN
          [] OTHER -> Go(t, "enter") /\ Saw(t, v)
    /\ UNCHANGED <<word, asleep, kernel, waiters, mode, locks>>

(* Mutant: the number is stored, changed or not.                              *)
EnterBlindly(t) ==
    /\ At(t, "enter")
    /\ Store(Value(loc[t].val.cnt + 1, loc[t].val.flag)) /\ Go(t, "holds")
    /\ Forget(t)
    /\ UNCHANGED <<asleep, kernel, waiters, mode, locks>>

Enter(t) ==
    /\ At(t, "enter")
    /\ IF word[Lock] = loc[t].val
       THEN Store(Value(loc[t].val.cnt + 1, loc[t].val.flag)) /\ Go(t, "holds")
       ELSE UNCHANGED word /\ Go(t, "read")
    /\ Forget(t)
    /\ UNCHANGED <<asleep, kernel, waiters, mode, locks>>

(* pthread_rwlock_trywrlock; a writer waits for anybody.                      *)
Write(t) ==
    /\ At(t, "write")
    /\ IF word[Lock] = Free
       THEN Store(Value(Full, FALSE)) /\ Go(t, "holds") /\ UNCHANGED loc
       ELSE Go(t, "count") /\ Saw(t, word[Lock]) /\ UNCHANGED word
    /\ UNCHANGED <<asleep, kernel, waiters, mode, locks>>

(* The loops of pthread_rwlock_timedrdlock and pthread_rwlock_timedwrlock.    *)
Count(t) ==
    /\ At(t, "count")
    /\ waiters' = waiters + 1
    /\ Go(t, "mark")
    /\ UNCHANGED <<word, asleep, kernel, mode, loc, locks>>

Marked(t) == Value(loc[t].val.cnt, TRUE)

Mark(t) ==
    /\ At(t, "mark")
    /\ IF word[Lock] = loc[t].val THEN Store(Marked(t)) ELSE UNCHANGED word
    /\ Go(t, "doze")
    /\ UNCHANGED <<asleep, kernel, waiters, mode, loc, locks>>

Doze(t) ==
    /\ At(t, "doze")
    /\ FutexWait(t, Lock, Marked(t))
    /\ Go(t, "uncount") /\ Forget(t)
    /\ UNCHANGED <<word, kernel, waiters, mode, locks>>

(* The time is up, or the sleep ends by itself.                               *)
TimeOut(t) ==
    /\ pc[t] = "uncount" /\ Stir(t)
    /\ Go(t, "giveUp")
    /\ UNCHANGED <<word, kernel, waiters, mode, loc, locks>>
Stray(t) == pc[t] = "uncount" /\ Stir(t)
            /\ UNCHANGED <<word, kernel, waiters, pc, mode, loc, locks>>

Uncount(t) ==
    /\ \E l \in {"uncount", "giveUp"} :
        At(t, l) /\ Go(t, IF l = "uncount" THEN mode[t] ELSE "start")
    /\ waiters' = waiters - 1
    /\ UNCHANGED <<word, asleep, kernel, mode, loc, locks>>

-----------------------------------------------------------------------------
(* pthread_rwlock_unlock.                                                     *)

Unlock(t) ==
    /\ At(t, "holds")
    /\ Go(t, "ask") /\ Saw(t, word[Lock])
    /\ UNCHANGED <<word, asleep, kernel, waiters, mode, locks>>

Ask(t) ==
    /\ At(t, "ask")
    /\ Go(t, "drop") /\ loc' = [loc EXCEPT ![t] = [val |-> @.val, busy |-> waiters]]
    /\ UNCHANGED <<word, asleep, kernel, waiters, mode, locks>>

(* Mutant: a reader that is not the last clears the flag.                     *)
DropFlag(t) ==
    /\ At(t, "drop")
    /\ LET v == loc[t].val IN
        IF word[Lock] # v THEN Go(t, "holds") /\ Forget(t) /\ UNCHANGED word
        ELSE IF v.cnt \in {1, Full}
        THEN /\ Store(Free) /\ UNCHANGED loc
             /\ Go(t, IF v.flag \/ loc[t].busy > 1 THEN "wake" ELSE "start")
        ELSE Store(Value(v.cnt - 1, FALSE)) /\ Go(t, "start") /\ Forget(t)
    /\ UNCHANGED <<asleep, kernel, waiters, mode, locks>>

(* The last to leave frees the lock and clears the flag.                      *)
Drop(t) ==
    /\ At(t, "drop")
    /\ LET v == loc[t].val IN
        IF word[Lock] # v THEN Go(t, "holds") /\ Forget(t) /\ UNCHANGED word
        ELSE IF v.cnt \notin {1, Full}
        THEN Store(Value(v.cnt - 1, v.flag)) /\ Go(t, "start") /\ Forget(t)
        ELSE /\ Store(Free)
             /\ IF v.flag \/ loc[t].busy > 0 THEN Go(t, "wake") /\ UNCHANGED loc
                ELSE Go(t, "start") /\ Forget(t)
    /\ UNCHANGED <<asleep, kernel, waiters, mode, locks>>

(* A writer wakes all, a reader one.                                          *)
Wake(t) ==
    /\ At(t, "wake")
    /\ IF loc[t].val.cnt = Full THEN FutexWakeAll(Lock) ELSE FutexWake(Lock)
    /\ Go(t, "start") /\ Forget(t)
    /\ UNCHANGED <<word, kernel, waiters, mode, locks>>

-----------------------------------------------------------------------------
Step(t) ==
    \/ Read(t) \/ Enter(t) \/ Write(t) \/ Count(t) \/ Mark(t) \/ Doze(t) \/ Uncount(t)
    \/ Unlock(t) \/ Ask(t) \/ Drop(t) \/ Wake(t)

Next == \E t \in Callers : Call(t) \/ TimeOut(t) \/ Stray(t) \/ Step(t)

Spec == Init /\ [][Next]_vars
Fairness == \A t \in Callers : WF_vars(Step(t))
FairSpec == Spec /\ Fairness

-----------------------------------------------------------------------------
(* Properties.                                                                *)

TypeOK ==
    /\ word[Lock].cnt \in 0 .. Full /\ word[Lock].flag \in BOOLEAN
    /\ waiters \in 0 .. Cardinality(Callers)
    /\ asleep \in [Callers -> {Lock, Awake}]

Holders(m) == {t \in Callers : pc[t] \in {"holds", "ask", "drop"} /\ mode[t] = m}

(* A writer is alone, and the word counts the readers.                        *)
Exclusive ==
    word[Lock].cnt = IF Holders("write") # {} THEN Full ELSE Cardinality(Holders("read"))
WritersAlone ==
    Holders("write") # {} => Cardinality(Holders("write") \cup Holders("read")) = 1

(* When every thread in a call sleeps, the lock is held.                      *)
NoneForgotten ==
    (\A t \in Callers : asleep[t] # Awake \/ pc[t] = "start") => Sleepers(Lock) = {}
=============================================================================
