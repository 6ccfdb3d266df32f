----------------------------- MODULE PthreadOnce -----------------------------
(* pthread_once of musl-nt64 (thread/pthread_once.c): the control word is 0,  *)
(* 1 while a thread runs the routine, 3 if others wait for it, 2 at the end.  *)
(* A thread cancelled in the routine puts it back to 0.                       *)
EXTENDS Futex, FiniteSets

CONSTANT MaxCancels     \* bound: cancellations within the routine

PthreadOnceAssumption == MaxCancels \in Nat

VARIABLES
    pc,         \* pc[t]: the next shared access of t
    cancels,    \* threads cancelled within the routine
    runs        \* history: times the routine has been run to its end

vars == <<word, asleep, kernel, pc, cancels, runs>>

Control == The("control")

Init ==
    /\ word = [a \in {Control} |-> 0]
    /\ asleep = [t \in Callers |-> Awake] /\ kernel = TRUE
    /\ pc = [t \in Callers |-> "look"]
    /\ cancels = 0 /\ runs = 0

At(t, l) == pc[t] = l /\ asleep[t] = Awake
Go(t, l) == pc' = [pc EXCEPT ![t] = l]
Store(v) == word' = [word EXCEPT ![Control] = v]

Look(t) ==
    /\ At(t, "look")
    /\ Go(t, IF word[Control] = 2 THEN "done" ELSE "enter")
    /\ UNCHANGED <<word, asleep, kernel, cancels, runs>>

Enter(t) ==
    /\ At(t, "enter")
    /\ LET v == word[Control] IN
        /\ IF v = 0 THEN Store(1) ELSE UNCHANGED word
        /\ Go(t, CASE v = 0 -> "routine" [] v = 1 -> "mark" [] v = 2 -> "done" [] v = 3 -> "wait")
    /\ UNCHANGED <<asleep, kernel, cancels, runs>>

Mark(t) ==
    /\ At(t, "mark")
    /\ IF word[Control] = 1 THEN Store(3) ELSE UNCHANGED word
    /\ Go(t, "wait")
    /\ UNCHANGED <<asleep, kernel, cancels, runs>>

Wait(t) ==
    /\ At(t, "wait")
    /\ FutexWait(t, Control, 3)
    /\ IF word[Control] = 3 THEN UNCHANGED pc ELSE Go(t, "enter")
    /\ UNCHANGED <<word, kernel, cancels, runs>>

(* Mutant: a cancelled thread wakes one of those who wait.                    *)
WakeOne(t) ==
    /\ \E l \in {"wakeDone", "wakeUndone"} :
        At(t, l) /\ Go(t, IF l = "wakeDone" THEN "done" ELSE "cancelled")
    /\ FutexWake(Control)
    /\ UNCHANGED <<word, kernel, cancels, runs>>

(* The routine returns, or the thread is cancelled in it.                     *)
Finish(t) ==
    /\ At(t, "routine")
    /\ Store(2) /\ runs' = runs + 1
    /\ Go(t, IF word[Control] = 3 THEN "wakeDone" ELSE "done")
    /\ UNCHANGED <<asleep, kernel, cancels>>

Undo(t) ==
    /\ At(t, "routine") /\ cancels < MaxCancels
    /\ Store(0) /\ cancels' = cancels + 1
    /\ Go(t, IF word[Control] = 3 THEN "wakeUndone" ELSE "cancelled")
    /\ UNCHANGED <<asleep, kernel, runs>>

(* All are woken: who waits cannot be told from the word any more.            *)
Wake(t) ==
    /\ \E l \in {"wakeDone", "wakeUndone"} :
        At(t, l) /\ Go(t, IF l = "wakeDone" THEN "done" ELSE "cancelled")
    /\ FutexWakeAll(Control)
    /\ UNCHANGED <<word, kernel, cancels, runs>>

Step(t) == Look(t) \/ Enter(t) \/ Mark(t) \/ Wait(t) \/ Finish(t) \/ Wake(t)

Next == \E t \in Callers : Step(t) \/ Undo(t)

Spec == Init /\ [][Next]_vars
Fairness == \A t \in Callers : WF_vars(Step(t))
FairSpec == Spec /\ Fairness

-----------------------------------------------------------------------------
(* Properties.                                                                *)

TypeOK ==
    /\ word[Control] \in 0 .. 3 /\ runs \in Nat
    /\ asleep \in [Callers -> {Control, Awake}]

(* The routine is run once, by one thread at a time, and to its end before    *)
(* anybody returns, whoever is cancelled in it.                               *)
RunOnce ==
    /\ runs <= 1
    /\ Cardinality({t \in Callers : pc[t] = "routine"}) <= IF runs = 1 THEN 0 ELSE 1
    /\ \A t \in Callers : pc[t] \in {"done", "wakeDone"} => runs = 1
=============================================================================
