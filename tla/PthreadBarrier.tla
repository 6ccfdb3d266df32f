--------------------------- MODULE PthreadBarrier ----------------------------
(* pthread_barrier_wait of musl-nt64 (thread/pthread_barrier_wait.c) for      *)
(* threads of one process.  The first thread of a round keeps the round's     *)
(* counters on its stack, and goes last.                                      *)
EXTENDS Futex, FiniteSetsExt

CONSTANTS
    Limits,         \* b->_b_limit that may be, one less than the threads of a round
    MaxRounds       \* bound: rounds

PthreadBarrierAssumption == Limits \subseteq Nat \ {0} /\ MaxRounds \in Nat

VARIABLES
    limit,          \* b->_b_limit
    waiters,        \* b->_b_waiters
    inst,           \* b->_b_inst: the owner of the instance, or Nobody
    round,          \* round[o]: [count, waiters], fields of the instance of o
    pc,             \* pc[t]: the next shared access of t
    of,             \* of[t]: the owner of the instance t is in
    calls,          \* history: calls that have begun
    passed,         \* history: calls that have returned
    serials         \* history: calls that returned PTHREAD_BARRIER_SERIAL_THREAD

vars == <<word, asleep, kernel, limit, waiters, inst, round, pc, of, calls, passed, serials>>
ghosts == <<calls, passed, serials>>

Lock == The("lock")
Last(o) == Of("last", o)
Finished(o) == Of("finished", o)
NoRound == [count |-> 0, waiters |-> 0]

Init ==
    /\ word = [a \in {Lock} \cup {Last(t) : t \in Callers} \cup {Finished(t) : t \in Callers} |-> 0]
    /\ asleep = [t \in Callers |-> Awake] /\ kernel = TRUE
    /\ limit \in Limits /\ waiters = 0 /\ inst = Nobody
    /\ round = [t \in Callers |-> NoRound]
    /\ pc = [t \in Callers |-> "start"] /\ of = [t \in Callers |-> Nobody]
    /\ calls = 0 /\ passed = 0 /\ serials = 0

At(t, l) == pc[t] = l /\ asleep[t] = Awake
Go(t, l) == pc' = [pc EXCEPT ![t] = l]
Store(a, v) == word' = [word EXCEPT ![a] = v]

-----------------------------------------------------------------------------
Call(t) ==
    /\ At(t, "start") /\ calls < MaxRounds * (limit + 1)
    /\ calls' = calls + 1
    /\ Go(t, "lock")
    /\ UNCHANGED <<word, asleep, kernel, limit, waiters, inst, round, of, passed, serials>>

(* The lock of the barrier, with a_swap and __wait.                           *)
Swap(t) ==
    /\ At(t, "lock")
    /\ Store(Lock, 1)
    /\ Go(t, IF word[Lock] = 0 THEN "enter" ELSE "count")
    /\ UNCHANGED <<asleep, kernel, limit, waiters, inst, round, of, ghosts>>

(* __wait looks a while before it counts itself.                              *)
Count(t) ==
    /\ At(t, "count")
    /\ \/ word[Lock] # 1 /\ Go(t, "lock") /\ UNCHANGED waiters
       \/ Go(t, "wait") /\ waiters' = waiters + 1
    /\ UNCHANGED <<word, asleep, kernel, limit, inst, round, of, ghosts>>

Wait(t) ==
    /\ At(t, "wait")
    /\ FutexWait(t, Lock, 1)
    /\ IF word[Lock] = 1 THEN UNCHANGED <<pc, waiters>>
       ELSE Go(t, "lock") /\ waiters' = waiters - 1
    /\ UNCHANGED <<word, kernel, limit, inst, round, of, ghosts>>

(* Mutant: it counts before it adds itself.                                   *)
CompletesLate == inst # Nobody /\ round[inst].count = limit

(* The last thread of a round, which counts itself.                           *)
Completes == inst # Nobody /\ round[inst].count + 1 = limit

(* With the lock: the first makes an instance, the last takes it off, and the *)
(* lock is released.                                                          *)
Enter(t) ==
    /\ At(t, "enter")
    /\ LET o == IF inst = Nobody THEN t ELSE inst IN
        /\ of' = [of EXCEPT ![t] = o]
        /\ round' = [round EXCEPT ![o].count = IF inst = Nobody THEN 0 ELSE @ + 1]
        /\ inst' = IF Completes THEN Nobody ELSE o
    /\ Store(Lock, 0)
    /\ Go(t, CASE inst = Nobody -> "askFirst" [] Completes -> "askLast" [] OTHER -> "askMiddle")
    /\ UNCHANGED <<asleep, kernel, limit, waiters, ghosts>>

After(l) == CASE l = "askFirst" -> "finish" [] l = "askLast" -> "open" [] OTHER -> "countIn"

(* If somebody waits for the lock, it is woken.                               *)
Ask(t) ==
    /\ \E l \in {"askFirst", "askMiddle", "askLast"} : At(t, l) /\ Go(t, After(l))
    /\ IF waiters > 0 THEN FutexWake(Lock) ELSE UNCHANGED asleep
    /\ UNCHANGED <<word, kernel, limit, waiters, inst, round, of, ghosts>>

-----------------------------------------------------------------------------
Return(t) ==
    /\ Go(t, "start") /\ of' = [of EXCEPT ![t] = Nobody]
    /\ passed' = passed + 1

(* The owner of the instance sleeps until the others are out of it.           *)
Finish(t) ==
    /\ At(t, "finish")
    /\ Store(Finished(t), word[Finished(t)] + 1)
    /\ Go(t, "finishing")
    /\ UNCHANGED <<asleep, kernel, limit, waiters, inst, round, of, ghosts>>

Finishing(t) ==
    /\ At(t, "finishing")
    /\ FutexWait(t, Finished(t), 1)
    /\ IF word[Finished(t)] = 1 THEN UNCHANGED <<pc, of, passed, serials, round, word>>
       ELSE /\ Return(t) /\ serials' = serials + 1
            /\ round' = [round EXCEPT ![t] = NoRound]
            /\ word' = [word EXCEPT ![Last(t)] = 0, ![Finished(t)] = 0]
    /\ UNCHANGED <<kernel, limit, waiters, inst, calls>>

(* The last lets the middle ones go.                                          *)
Open(t) ==
    /\ At(t, "open")
    /\ Store(Last(of[t]), 1)
    /\ Go(t, "opened")
    /\ UNCHANGED <<asleep, kernel, limit, waiters, inst, round, of, ghosts>>

Opened(t) ==
    /\ At(t, "opened")
    /\ IF round[of[t]].waiters > 0 THEN FutexWakeAll(Last(of[t])) ELSE UNCHANGED asleep
    /\ Go(t, "leave")
    /\ UNCHANGED <<word, kernel, limit, waiters, inst, round, of, ghosts>>

CountIn(t) ==
    /\ At(t, "countIn")
    /\ \/ word[Last(of[t])] # 0 /\ Go(t, "leave") /\ UNCHANGED round
       \/ Go(t, "sleep") /\ round' = [round EXCEPT ![of[t]].waiters = @ + 1]
    /\ UNCHANGED <<word, asleep, kernel, limit, waiters, inst, of, ghosts>>

Sleep(t) ==
    /\ At(t, "sleep")
    /\ FutexWait(t, Last(of[t]), 0)
    /\ IF word[Last(of[t])] = 0 THEN UNCHANGED <<pc, round>>
       ELSE Go(t, "leave") /\ round' = [round EXCEPT ![of[t]].waiters = @ - 1]
    /\ UNCHANGED <<word, kernel, limit, waiters, inst, of, ghosts>>

(* Mutant: each thread that leaves finishes the round.                        *)
LeaveEach(t) ==
    /\ At(t, "leave")
    /\ round' = [round EXCEPT ![of[t]].count = @ - 1]
    /\ Go(t, "end") /\ UNCHANGED <<of, passed>>
    /\ UNCHANGED <<word, asleep, kernel, limit, waiters, inst, calls, serials>>

(* The last of them to leave finishes the round.                              *)
Leave(t) ==
    /\ At(t, "leave")
    /\ round' = [round EXCEPT ![of[t]].count = @ - 1]
    /\ IF round[of[t]].count = 1 THEN Go(t, "end") /\ UNCHANGED <<of, passed>> ELSE Return(t)
    /\ UNCHANGED <<word, asleep, kernel, limit, waiters, inst, calls, serials>>

End(t) ==
    /\ At(t, "end")
    /\ Store(Finished(of[t]), word[Finished(of[t])] + 1)
    /\ IF word[Finished(of[t])] > 0 THEN Go(t, "wakeOwner") /\ UNCHANGED <<of, passed>>
       ELSE Return(t)
    /\ UNCHANGED <<asleep, kernel, limit, waiters, inst, round, calls, serials>>

(* The wake-up uses the address, and no longer what is there.                 *)
WakeOwner(t) ==
    /\ At(t, "wakeOwner")
    /\ FutexWake(Finished(of[t]))
    /\ Return(t)
    /\ UNCHANGED <<word, kernel, limit, waiters, inst, round, calls, serials>>

-----------------------------------------------------------------------------
Step(t) ==
    \/ Swap(t) \/ Count(t) \/ Wait(t) \/ Enter(t) \/ Ask(t) \/ Finish(t) \/ Finishing(t)
    \/ Open(t) \/ Opened(t) \/ CountIn(t) \/ Sleep(t) \/ Leave(t) \/ End(t) \/ WakeOwner(t)

Next == \E t \in Callers : Call(t) \/ Step(t)

Spec == Init /\ [][Next]_vars
Fairness == \A t \in Callers : WF_vars(Step(t))
FairSpec == Spec /\ Fairness

-----------------------------------------------------------------------------
(* Properties.                                                                *)

TypeOK ==
    /\ word \in [DOMAIN word -> 0 .. 2] /\ waiters \in 0 .. Cardinality(Callers)
    /\ inst \in Callers \cup {Nobody} /\ of \in [Callers -> Callers \cup {Nobody}]
    /\ round \in [Callers -> [count : 0 .. limit, waiters : 0 .. limit]]

(* No call returns before as many have begun as a round has, whatever the     *)
(* rounds before and after it do, and one call of a round is the serial one.  *)
PassTogether ==
    /\ passed <= (limit + 1) * (calls \div (limit + 1))
    /\ serials <= calls \div (limit + 1)
    /\ (\A t \in Callers : pc[t] = "start") => serials * (limit + 1) = passed

(* Whoever uses the counters of a round does so while their owner, on whose   *)
(* stack they are, is in the call.                                            *)
Uses == {"open", "opened", "countIn", "sleep", "leave", "end"}
InstanceLives ==
    \A t \in Callers : pc[t] \in Uses =>
        pc[of[t]] \in {"askFirst", "finish", "finishing"} /\ of[of[t]] = of[t]

(* When every thread in a call sleeps, a round is short of threads.           *)
NoneLeft ==
    (\A t \in Callers : asleep[t] # Awake \/ pc[t] = "start") => calls - passed <= limit
=============================================================================
