------------------------------- MODULE MCSync -------------------------------
(* Threads and what they synchronise with, side by side: the life of threads  *)
(* (this module extends Threads), condition variables with mutexes,           *)
(* semaphores, read-write locks, barriers and pthread_once.  A behaviour is   *)
(* of one part, so that the states of the parts add up.                       *)
EXTENDS Threads

VARIABLES
    part,                                   \* the part that runs
    word, asleep, kernel, at, loc, waiters, calls,      \* of every lock
    shared, ops, ends, node, due,           \* condition variables
    waits, taken, posted, missed, given,    \* semaphores
    mode,                                   \* read-write locks
    limit, inst, round, of, passed, serials,            \* barriers
    cancels, runs                           \* pthread_once

futexV == <<word, asleep, kernel, at>>
condV == <<shared, ops, ends, node, due>>
semV == <<waits, taken, posted, missed, given>>
barrierV == <<limit, inst, round, of, passed, serials>>
onceV == <<cancels, runs>>
lockV == <<futexV, loc, waiters>>
syncV == <<lockV, calls, condV, semV, mode, barrierV, onceV>>

System(k, s, o) == [kernel |-> k, shared |-> s, ops |-> o]

(* Two waiters, one with a time limit.  Broadcasts are for mutexes that       *)
(* processes share, whose waiters are woken and not moved.                    *)
Cond == INSTANCE CondVar WITH
    Callers <- 1 .. 3, Nobody <- 0, Waiters <- {1, 2}, Timed <- {1}, Signallers <- {3},
    MaxCalls <- 1, pc <- at, mwaiters <- waiters,
    Systems <- {System(TRUE, FALSE, {"signal"}), System(TRUE, TRUE, {"broadcast"})}

(* Two that wait, three times in all, one with a limit; two that post.        *)
Sem == INSTANCE PosixSem WITH
    Callers <- 1 .. 4, Nobody <- 0, Takers <- {1, 2}, Timed <- {1}, MaxWaits <- 3, MaxPosts <- 2,
    ValueMax <- 2, Starts <- {0, 1}, pc <- at

(* Three threads, each of which reads or writes; two readers are too many.    *)
Rw == INSTANCE RwLock WITH
    Callers <- 1 .. 3, Nobody <- 0, Full <- 3, MaxLocks <- 1, pc <- at, locks <- calls

(* Rounds of two and of three for three threads, two rounds.                  *)
Rounds == INSTANCE PthreadBarrier WITH
    Callers <- 1 .. 3, Nobody <- 0, Limits <- {1, 2}, MaxRounds <- 2, pc <- at

(* Three calls, two of which may be cancelled in the routine.                 *)
Once == INSTANCE PthreadOnce WITH
    Callers <- 1 .. 3, Nobody <- 0, MaxCancels <- 2, pc <- at

ASSUME SyncAssumption ==
    /\ Cond!FutexAssumption /\ Cond!CondVarAssumption /\ Sem!FutexAssumption /\ Sem!PosixSemAssumption
    /\ Rw!FutexAssumption /\ Rw!RwLockAssumption
    /\ Rounds!FutexAssumption /\ Rounds!PthreadBarrierAssumption
    /\ Once!FutexAssumption /\ Once!PthreadOnceAssumption

NoCond == shared = 0 /\ ops = 0 /\ ends = 0 /\ node = 0 /\ due = 0
NoSem == waits = 0 /\ taken = 0 /\ posted = 0 /\ missed = FALSE /\ given = 0
NoBarrier == limit = 0 /\ inst = 0 /\ round = 0 /\ of = 0 /\ passed = 0 /\ serials = 0
NoOnce == cancels = 0 /\ runs = 0

SyncInit ==
    /\ Init
    /\ \/ /\ part = "threads" /\ word = 0 /\ asleep = 0 /\ kernel = TRUE /\ at = [t \in 1 .. 3 |-> "none"]
          /\ loc = 0 /\ waiters = 0 /\ calls = 0 /\ mode = 0
          /\ NoCond /\ NoSem /\ NoBarrier /\ NoOnce
       \/ /\ part = "cond" /\ Cond!Init /\ mode = 0 /\ NoSem /\ NoBarrier /\ NoOnce
       \/ /\ part = "sem" /\ Sem!Init /\ calls = 0 /\ mode = 0 /\ NoCond /\ NoBarrier /\ NoOnce
       \/ /\ part = "rwlock" /\ Rw!Init /\ NoCond /\ NoSem /\ NoBarrier /\ NoOnce
       \/ /\ part = "barrier" /\ Rounds!Init /\ loc = 0 /\ mode = 0 /\ NoCond /\ NoSem /\ NoOnce
       \/ /\ part = "once" /\ Once!Init /\ loc = 0 /\ waiters = 0 /\ calls = 0 /\ mode = 0
          /\ NoCond /\ NoSem /\ NoBarrier

SyncNext ==
    /\ UNCHANGED part
    /\ part # "threads" => UNCHANGED vars
    /\ \/ part = "threads" /\ Next /\ UNCHANGED syncV
       \/ part = "cond" /\ Cond!Next /\ UNCHANGED <<semV, mode, barrierV, onceV>>
       \/ part = "sem" /\ Sem!Next /\ UNCHANGED <<calls, condV, mode, barrierV, onceV>>
       \/ part = "rwlock" /\ Rw!Next /\ UNCHANGED <<condV, semV, barrierV, onceV>>
       \/ part = "barrier" /\ Rounds!Next /\ UNCHANGED <<loc, condV, semV, mode, onceV>>
       \/ part = "once" /\ Once!Next
          /\ UNCHANGED <<loc, waiters, calls, condV, semV, mode, barrierV>>

(* Fairness of the threads that are inside the library, and of the daemon.    *)
SyncSpec ==
    /\ SyncInit /\ [][SyncNext]_<<part, vars, syncV>>
    /\ \A t \in Thread :
        WF_vars(part = "threads" /\ (Clone(t) \/ Thunk(t) \/ PsxExit(t) \/ Joins(t)))
    /\ WF_vars(part = "threads" /\ Threadexit)
    /\ \A t \in 1 .. 4 : WF_lockV(
           \/ part = "cond" /\ t # 4 /\ Cond!Step(t)
           \/ part = "sem" /\ Sem!Step(t)
           \/ part = "rwlock" /\ t # 4 /\ Rw!Step(t)
           \/ part = "barrier" /\ t # 4 /\ Rounds!Step(t) /\ UNCHANGED loc
           \/ part = "once" /\ t # 4 /\ Once!Step(t) /\ UNCHANGED <<loc, waiters>>)

-----------------------------------------------------------------------------
(* What locks guard is used as they allow: one thread has the mutex and the   *)
(* list, permits are neither lost nor made, a writer is alone, a round passes *)
(* as one, and a routine runs once.                                           *)
SyncExact ==
    /\ part = "cond" => Cond!TypeOK /\ Cond!OneAtATime /\ Cond!Settled
    /\ part = "sem" => Sem!TypeOK /\ Sem!PermitsConserved
    /\ part = "rwlock" => Rw!TypeOK /\ Rw!Exclusive /\ Rw!WritersAlone
    /\ part = "barrier" => Rounds!TypeOK /\ Rounds!PassTogether
    /\ part = "once" => Once!TypeOK /\ Once!RunOnce

(* What a call keeps on its stack for others is not used after its return.    *)
StacksLive ==
    /\ part = "cond" => Cond!NodesLive
    /\ part = "barrier" => Rounds!InstanceLives

(* Nobody sleeps on what is free, and signals reach those they are for.       *)
WakesReach ==
    /\ part = "cond" => Cond!SignalsReach /\ Cond!InOrder
    /\ part = "sem" => Sem!NoPermitForgotten
    /\ part = "rwlock" => Rw!NoneForgotten
    /\ part = "barrier" => Rounds!NoneLeft

(* Once nobody is left to call, every call returns: also those of waiters     *)
(* that were signalled, and those that had to be let go by others.            *)
Asked ==
    CASE part = "cond" -> calls = 1
      [] part = "sem" -> posted + given >= 3
      [] part = "rwlock" -> \A t \in 1 .. 3 : calls[t] = 1
      [] part = "barrier" -> calls = 2 * (limit + 1)
      [] part = "once" -> TRUE
      [] OTHER -> FALSE
Served ==
    CASE part = "cond" ->
            at[3] = "start" /\ \A t \in {1, 2} : node[t].state = "signaled" => at[t] = "done"
      [] part = "sem" -> missed \/ \A t \in {1, 2} : at[t] = "start"
      [] part \in {"rwlock", "barrier"} -> \A t \in 1 .. 3 : at[t] = "start"
      [] part = "once" -> \A t \in 1 .. 3 : at[t] \in {"done", "cancelled"}
      [] OTHER -> FALSE
SyncReturns == Asked ~> Served
=============================================================================
