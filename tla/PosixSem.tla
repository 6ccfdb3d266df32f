------------------------------ MODULE PosixSem -------------------------------
(* sem_wait, sem_timedwait and sem_post of musl-nt64 (thread/sem_*.c) on the  *)
(* futex of psxscl.  The value is -1 instead of 0 while somebody may sleep.   *)
EXTENDS Futex, FiniteSets

CONSTANTS
    Takers,         \* threads that wait; the others post
    Timed,          \* those that wait with a time limit
    MaxWaits,       \* bound: calls of sem_wait and sem_timedwait
    MaxPosts,       \* bound: posts, but for those under way
    ValueMax,       \* SEM_VALUE_MAX
    Starts          \* values sem_init may be called with

PosixSemAssumption ==
    /\ Takers \subseteq Callers /\ Timed \subseteq Takers
    /\ MaxWaits \in Nat /\ MaxPosts \in Nat /\ ValueMax \in Nat \ {0}
    /\ Starts \subseteq 0 .. ValueMax

VARIABLES
    waiters,        \* sem->__val[1]
    pc,             \* pc[t]: the next shared access of t
    loc,            \* loc[t]: [val, new, busy], the locals of its call
    waits,          \* calls to wait that were made
    taken,          \* history: calls to wait that took a permit
    posted,         \* history: posts that succeeded
    missed,         \* history: a post counted nobody when it looked, and somebody slept
    given           \* history: the value at the start

ghosts == <<waits, taken, posted, missed, given>>
vars == <<word, asleep, kernel, waiters, pc, loc, ghosts>>

Val == The("value")
Posters == Callers \ Takers
Seen(val, new, busy) == [val |-> val, new |-> new, busy |-> busy]
NoLoc == Seen(0, 0, 0)

Init ==
    /\ given \in Starts
    /\ word = [a \in {Val} |-> given]
    /\ asleep = [t \in Callers |-> Awake] /\ kernel = TRUE
    /\ waiters = 0
    /\ pc = [t \in Callers |-> "start"]
    /\ loc = [t \in Callers |-> NoLoc]
    /\ waits = 0 /\ taken = 0 /\ posted = 0 /\ missed = FALSE

At(t, l) == pc[t] = l /\ asleep[t] = Awake
Go(t, l) == pc' = [pc EXCEPT ![t] = l]
Local(t, l) == loc' = [loc EXCEPT ![t] = l]
Store(v) == word' = [word EXCEPT ![Val] = v]

-----------------------------------------------------------------------------
(* sem_trywait, and the loop of sem_timedwait.                                *)

Await(t) ==
    /\ t \in Takers /\ At(t, "start") /\ waits < MaxWaits
    /\ waits' = waits + 1
    /\ Go(t, "try")
    /\ UNCHANGED <<word, asleep, kernel, waiters, loc, taken, posted, missed, given>>

Try(t) ==
    /\ At(t, "try")
    /\ LET v == word[Val] IN
        IF v <= 0 THEN Go(t, "count") /\ UNCHANGED loc
        ELSE /\ Go(t, IF v = 1 THEN "peek" ELSE "take")
             /\ Local(t, Seen(v, v - 1, 0))
    /\ UNCHANGED <<word, asleep, kernel, waiters, ghosts>>

(* The last permit leaves 0, or -1 if others wait.                            *)
Peek(t) ==
    /\ At(t, "peek")
    /\ Go(t, "take")
    /\ Local(t, Seen(loc[t].val, IF waiters > 0 THEN -1 ELSE 0, 0))
    /\ UNCHANGED <<word, asleep, kernel, waiters, ghosts>>

(* Mutant: the value is stored, changed or not.                               *)
TakeBlindly(t) ==
    /\ At(t, "take")
    /\ Store(loc[t].new) /\ Go(t, "start") /\ taken' = taken + 1
    /\ Local(t, NoLoc)
    /\ UNCHANGED <<asleep, kernel, waiters, waits, posted, missed, given>>

Take(t) ==
    /\ At(t, "take")
    /\ IF word[Val] = loc[t].val THEN Store(loc[t].new) /\ Go(t, "start") /\ taken' = taken + 1
       ELSE UNCHANGED <<word, taken>> /\ Go(t, "try")
    /\ Local(t, NoLoc)
    /\ UNCHANGED <<asleep, kernel, waiters, waits, posted, missed, given>>

Count(t) ==
    /\ At(t, "count")
    /\ waiters' = waiters + 1
    /\ Go(t, "mark")
    /\ UNCHANGED <<word, asleep, kernel, loc, ghosts>>

Mark(t) ==
    /\ At(t, "mark")
    /\ IF word[Val] = 0 THEN Store(-1) ELSE UNCHANGED word
    /\ Go(t, "doze")
    /\ UNCHANGED <<asleep, kernel, waiters, loc, ghosts>>

Doze(t) ==
    /\ At(t, "doze")
    /\ FutexWait(t, Val, -1)
    /\ Go(t, "uncount")
    /\ UNCHANGED <<word, kernel, waiters, loc, ghosts>>

(* The time is up, or the sleep ends by itself.                               *)
TimeOut(t) ==
    /\ t \in Timed /\ pc[t] = "uncount" /\ Stir(t)
    /\ Go(t, "giveUp")
    /\ UNCHANGED <<word, kernel, waiters, loc, ghosts>>
Stray(t) == pc[t] = "uncount" /\ Stir(t)
            /\ UNCHANGED <<word, kernel, waiters, pc, loc, ghosts>>

Uncount(t) ==
    /\ \E l \in {"uncount", "giveUp"} :
        At(t, l) /\ Go(t, IF l = "uncount" THEN "try" ELSE "start")
    /\ waiters' = waiters - 1
    /\ UNCHANGED <<word, asleep, kernel, loc, ghosts>>

-----------------------------------------------------------------------------
(* sem_post.                                                                  *)

Post(t) ==
    /\ t \in Posters /\ At(t, "start") /\ posted < MaxPosts
    /\ Go(t, "read")
    /\ UNCHANGED <<word, asleep, kernel, waiters, loc, ghosts>>

Read(t) ==
    /\ At(t, "read")
    /\ Local(t, Seen(word[Val], 0, 0))
    /\ Go(t, "ask")
    /\ UNCHANGED <<word, asleep, kernel, waiters, ghosts>>

(* A full semaphore: EOVERFLOW.                                               *)
Ask(t) ==
    /\ At(t, "ask")
    /\ IF loc[t].val = ValueMax THEN Go(t, "start") /\ Local(t, NoLoc)
       ELSE Go(t, "add") /\ Local(t, Seen(loc[t].val, 0, waiters))
    /\ UNCHANGED <<word, asleep, kernel, waiters, ghosts>>

(* It is about to wake nobody: those who sleep came after it had looked.      *)
Overlooks(t) == loc[t].val >= 0 /\ loc[t].busy = 0 /\ Sleepers(Val) # {}

(* Mutant: only the waiters that were counted are woken.                      *)
AddCounted(t) ==
    /\ At(t, "add")
    /\ LET v == loc[t].val IN
        IF word[Val] # v THEN Go(t, "read") /\ UNCHANGED <<word, posted, missed>>
        ELSE /\ Store(IF v < 0 THEN 1 ELSE v + 1)
             /\ posted' = posted + 1
             /\ missed' = (missed \/ Overlooks(t))
             /\ Go(t, IF loc[t].busy > 1 THEN "wake" ELSE "start")
    /\ Local(t, NoLoc)
    /\ UNCHANGED <<asleep, kernel, waiters, waits, taken, given>>

Add(t) ==
    /\ At(t, "add")
    /\ LET v == loc[t].val IN
        IF word[Val] # v THEN Go(t, "read") /\ UNCHANGED <<word, posted, missed>>
        ELSE /\ Store(IF v < 0 THEN 1 ELSE v + 1)
             /\ posted' = posted + 1
             /\ missed' = (missed \/ Overlooks(t))
             /\ Go(t, IF v < 0 \/ loc[t].busy > 0 THEN "wake" ELSE "start")
    /\ Local(t, NoLoc)
    /\ UNCHANGED <<asleep, kernel, waiters, waits, taken, given>>

Wake(t) ==
    /\ At(t, "wake")
    /\ FutexWake(Val)
    /\ Go(t, "start")
    /\ UNCHANGED <<word, kernel, waiters, loc, ghosts>>

-----------------------------------------------------------------------------
Step(t) ==
    \/ Try(t) \/ Peek(t) \/ Take(t) \/ Count(t) \/ Mark(t) \/ Doze(t) \/ Uncount(t)
    \/ Read(t) \/ Ask(t) \/ Add(t) \/ Wake(t)

Next == \E t \in Callers : Await(t) \/ Post(t) \/ TimeOut(t) \/ Stray(t) \/ Step(t)

Spec == Init /\ [][Next]_vars
Fairness == \A t \in Callers : WF_vars(Step(t))
FairSpec == Spec /\ Fairness

-----------------------------------------------------------------------------
(* Properties.                                                                *)

TypeOK ==
    /\ word[Val] \in -1 .. ValueMax /\ waiters \in 0 .. Cardinality(Takers)
    /\ asleep \in [Callers -> {Val, Awake}]
    /\ \A t \in Callers : loc[t].val \in -1 .. ValueMax /\ loc[t].new \in -1 .. ValueMax

(* A permit is given by a post and taken by one thread: none is lost or made, *)
(* however the calls meet, and whoever gives up takes none.                   *)
PermitsConserved ==
    (IF word[Val] > 0 THEN word[Val] ELSE 0) + taken = given + posted

(* When every thread in a call sleeps, there is no permit for a sleeper,      *)
(* unless a post overlooked those who went to sleep while it was under way.   *)
NoPermitForgotten ==
    (\A t \in Callers : asleep[t] # Awake \/ pc[t] = "start")
        => missed \/ Sleepers(Val) = {} \/ word[Val] < 0
=============================================================================
