-------------------------------- MODULE Futex --------------------------------
(* The futex of psxscl (kernel/_futex.c), on which the synchronisation calls  *)
(* of musl rest.  A wait compares and falls asleep in one step of the kernel  *)
(* (RtlWaitOnAddress), or, on a system without it, looks at the word again    *)
(* and again.  Only FUTEX_WAIT and FUTEX_WAKE exist.                          *)
EXTENDS Integers

CONSTANTS
    Callers,    \* threads that synchronise
    Nobody      \* no thread

FutexAssumption == Nobody \notin Callers

VARIABLES
    word,       \* word[a]: the word at address a, a pair of a name and a thread
    asleep,     \* asleep[t]: the address t waits for, or Awake
    kernel      \* the kernel has RtlWaitOnAddress

Awake == <<"awake", Nobody>>
The(name) == <<name, Nobody>>           \* the one word of that name
Of(name, t) == <<name, t>>              \* the one that t owns

Sleepers(a) == {t \in Callers : asleep[t] = a}

(* FUTEX_WAIT, and __wait of musl, which waits again while the word is v.     *)
FutexWait(t, a, v) ==
    asleep' = IF word[a] = v THEN [asleep EXCEPT ![t] = a] ELSE asleep

Rouse(t) == asleep' = [asleep EXCEPT ![t] = Awake]

(* FUTEX_WAKE of one thread, and of two or more: of all.                      *)
FutexWake(a) ==
    IF kernel /\ Sleepers(a) # {} THEN \E t \in Sleepers(a) : Rouse(t) ELSE UNCHANGED asleep

FutexWakeAll(a) ==
    asleep' = [t \in Callers |-> IF kernel /\ asleep[t] = a THEN Awake ELSE asleep[t]]

(* FUTEX_REQUEUE: ENOSYS.                                                     *)
FutexRequeue(a, b) == UNCHANGED asleep

(* A sleep ends without a wake-up: of itself, or because it had a time limit. *)
Stir(t) == asleep[t] # Awake /\ Rouse(t)

(* Without RtlWaitOnAddress a wait looks whether the word is still v.         *)
Poll(t, v) == ~ kernel /\ asleep[t] # Awake /\ word[asleep[t]] # v /\ Rouse(t)
=============================================================================
