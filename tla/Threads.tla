------------------------------ MODULE Threads ------------------------------
(* Creation, exit and joining of threads: __sys_clone and its thunk           *)
(* (thread/_clone.c), __psx_exit (internal/psx_exit.c), the daemon's          *)
(* PSX_DAEMON_THREADEXIT (daemon/thread/psx_daemon_threadexit.c) and the part *)
(* of musl-nt64 that calls them (pthread_create, pthread_exit, pthread_join,  *)
(* pthread_detach).                                                           *)
(*                                                                            *)
(* A member of Thread is a descriptor (struct pthread) and the NT thread that *)
(* is made for it.  A thread learns who it is from the slot of __clone_ctxs   *)
(* that its creator filled, so the two may differ: self[t] is what it read.   *)
EXTENDS Naturals, Sequences, FiniteSets

CONSTANTS
  Thread,      \* descriptors, the initial thread's among them
  Main,        \* the initial thread
  NSlots,      \* entries of __clone_ctxs (64)
  Discipline,  \* what the program sees to, see below
  MayFail,     \* whether CreateThread may fail
  None, Spare  \* no descriptor; __unmapself_tid_slot, which nobody waits on

(* "serial": calls of pthread_create do not overlap.                          *)
(* "gate":   a thread does not exit before the call that made it returns.     *)
(* "meet":   a thread does not exit before those it made have been counted.   *)
ASSUME ThreadsAssumption ==
  /\ Main \in Thread /\ IsFiniteSet(Thread)
  /\ None \notin Thread /\ Spare \notin Thread /\ None # Spare
  /\ NSlots \in Nat \ {0}
  /\ Discipline \subseteq {"serial", "gate", "meet"}
  /\ MayFail \in BOOLEAN

Slot == 1..NSlots

VARIABLES
  pc,         \* where a thread is
  obj,        \* the descriptor a thread's call is about
  slot,       \* the slot a creator looks at, or a new thread reads
  busy, ctx,  \* __clone_ctx_busy, __clone_ctxs
  self, fn,   \* the descriptor and the function a thread took from its slot
  ctid,       \* tlca->pthread_clear_child_tid
  tid,        \* pthread->tid, None for 0
  mapped,     \* descriptors whose memory is mapped
  detached,   \* descriptors with pthread->detached
  maker,      \* who made a thread
  known,      \* descriptors handed out by pthread_create and not yet joined
  minus1,     \* libc.threads_minus_1
  pthreads,   \* the runtime's own count of threads
  tlca,       \* threads whose TLCA is allocated
  inbox,      \* PSX_DAEMON_THREADEXIT messages the daemon has not received
  process     \* "up", "exited" (exit_group), "terminated" (by the daemon)

callv == <<obj, slot>>
cloneV == <<busy, ctx>>
idV == <<self, fn, ctid>>
muslV == <<mapped, detached, maker, known, minus1>>
psxV == <<pthreads, tlca, inbox, process>>
vars == <<pc, callv, cloneV, idV, tid, muslV, psxV>>

Creating == {"scan", "mark", "entry", "tls", "spawn", "ptid"}
Starting == {"tlca", "count"}
Booting == Starting \cup {"tid", "take", "release"}
Joining == {"check", "wait", "sleep", "reap"}
Cleared == {"wake", "post", "epilog", "gone"}
Leaving == {"leave", "clear", "exit"} \cup Cleared
Pcs == {"none", "run"} \cup Creating \cup Booting \cup Joining \cup Leaving

Init ==
  /\ pc = [t \in Thread |-> IF t = Main THEN "run" ELSE "none"]
  /\ obj = [t \in Thread |-> None]
  /\ slot = [t \in Thread |-> 1]
  /\ busy = [s \in Slot |-> FALSE]
  /\ ctx = [s \in Slot |-> [entry |-> None, tls |-> None]]
  /\ self = [t \in Thread |-> IF t = Main THEN Main ELSE None]
  /\ fn = self
  /\ ctid = self
  /\ tid = self
  /\ mapped = {Main} /\ detached = {} /\ known = {}
  /\ maker = [t \in Thread |-> None]
  /\ minus1 = 0
  /\ pthreads = 1 /\ tlca = {Main} /\ inbox = <<>>
  /\ process = "up"

Goto(t, l) == pc' = [pc EXCEPT ![t] = l]
At(t, l) == process = "up" /\ pc[t] = l

-----------------------------------------------------------------------------
(* pthread_create, and __sys_clone below it.                                  *)

(* A descriptor is mapped, libc counts the thread, and clone is called.       *)
Create(t, p, d) ==
  /\ At(t, "run")
  /\ pc[p] = "none" /\ p \notin mapped
  /\ "serial" \in Discipline => \A u \in Thread : pc[u] \notin Creating
  /\ Goto(t, "scan")
  /\ obj' = [obj EXCEPT ![t] = p]
  /\ slot' = [slot EXCEPT ![t] = 1]
  /\ tid' = [tid EXCEPT ![p] = None]
  /\ mapped' = mapped \cup {p}
  /\ detached' = IF d THEN detached \cup {p} ELSE detached
  /\ maker' = [maker EXCEPT ![p] = t]
  /\ minus1' = minus1 + 1
  /\ UNCHANGED <<cloneV, idV, known, psxV>>

(* __sys_clone fails: pthread_create takes back what it did.                  *)
GiveUp(t) ==
  /\ Goto(t, "run")
  /\ minus1' = minus1 - 1
  /\ mapped' = mapped \ {obj[t]}
  /\ detached' = detached \ {obj[t]}
  /\ maker' = [maker EXCEPT ![obj[t]] = None]
  /\ obj' = [obj EXCEPT ![t] = None]
  /\ UNCHANGED <<slot, idV, tid, known, psxV>>

(* One turn of the search for an idle slot; the slot is marked later.         *)
Scan(t) ==
  /\ At(t, "scan")
  /\ IF slot[t] \notin Slot
     THEN GiveUp(t) /\ UNCHANGED cloneV
     ELSE /\ IF busy[slot[t]]
             THEN /\ slot' = [slot EXCEPT ![t] = @ + 1]
                  /\ UNCHANGED pc
             ELSE Goto(t, "mark") /\ UNCHANGED slot
          /\ UNCHANGED <<obj, cloneV, idV, tid, muslV, psxV>>

Mark(t) ==
  /\ At(t, "mark")
  /\ busy' = [busy EXCEPT ![slot[t]] = TRUE]
  /\ Goto(t, "entry")
  /\ UNCHANGED <<callv, ctx, idV, tid, muslV, psxV>>

FillEntry(t) ==
  /\ At(t, "entry")
  /\ ctx' = [ctx EXCEPT ![slot[t]].entry = obj[t]]
  /\ Goto(t, "tls")
  /\ UNCHANGED <<callv, busy, idV, tid, muslV, psxV>>

(* tls and ctid both name the descriptor.                                     *)
FillTls(t) ==
  /\ At(t, "tls")
  /\ ctx' = [ctx EXCEPT ![slot[t]].tls = obj[t]]
  /\ Goto(t, "spawn")
  /\ UNCHANGED <<callv, busy, idV, tid, muslV, psxV>>

Spawn(t) ==
  /\ At(t, "spawn")
  /\ pc' = [pc EXCEPT ![t] = "ptid", ![obj[t]] = "tlca"]
  /\ slot' = [slot EXCEPT ![obj[t]] = slot[t]]
  /\ UNCHANGED <<obj, cloneV, idV, tid, muslV, psxV>>

(* Mutant: the slot of a thread that could not be made stays busy.            *)
SpawnFailsKeepsSlot(t) ==
  /\ At(t, "spawn") /\ MayFail
  /\ GiveUp(t)
  /\ UNCHANGED cloneV

SpawnFails(t) ==
  /\ At(t, "spawn") /\ MayFail
  /\ busy' = [busy EXCEPT ![slot[t]] = FALSE]
  /\ GiveUp(t)
  /\ UNCHANGED ctx

(* Mutant: the creator does not store the thread's number.                    *)
PtidUnset(t) ==
  /\ At(t, "ptid")
  /\ Goto(t, "run")
  /\ known' = (known \cup {obj[t]}) \ detached
  /\ obj' = [obj EXCEPT ![t] = None]
  /\ UNCHANGED <<slot, cloneV, idV, tid, mapped, detached, maker, minus1, psxV>>

(* The creator stores the thread's number, and pthread_create returns.        *)
Ptid(t) ==
  /\ At(t, "ptid")
  /\ tid' = [tid EXCEPT ![obj[t]] = obj[t]]
  /\ Goto(t, "run")
  /\ known' = (known \cup {obj[t]}) \ detached
  /\ obj' = [obj EXCEPT ![t] = None]
  /\ UNCHANGED <<slot, cloneV, idV, mapped, detached, maker, minus1, psxV>>

-----------------------------------------------------------------------------
(* __clone_thunk, in the new thread.                                          *)

TlcaInit(t) ==
  /\ At(t, "tlca")
  /\ tlca' = tlca \cup {t}
  /\ self' = [self EXCEPT ![t] = ctx[slot[t]].tls]
  /\ Goto(t, "count")
  /\ UNCHANGED <<callv, cloneV, fn, ctid, tid, muslV, pthreads, inbox, process>>

(* Mutant: the new thread is not counted.                                     *)
CountNothing(t) ==
  /\ At(t, "count")
  /\ Goto(t, "tid")
  /\ UNCHANGED <<callv, cloneV, idV, tid, muslV, psxV>>

Count(t) ==
  /\ At(t, "count")
  /\ pthreads' = pthreads + 1
  /\ Goto(t, "tid")
  /\ UNCHANGED <<callv, cloneV, idV, tid, muslV, tlca, inbox, process>>

(* Mutant: the slot is released before the thread has read all of it.         *)
SetTidReleases(t) ==
  /\ At(t, "tid")
  /\ ctid' = [ctid EXCEPT ![t] = ctx[slot[t]].tls]
  /\ busy' = [busy EXCEPT ![slot[t]] = FALSE]
  /\ Goto(t, "take")
  /\ UNCHANGED <<callv, ctx, self, fn, tid, muslV, psxV>>

(* Mutant: the thread does not register the word that its exit clears.        *)
SetTidNot(t) ==
  /\ At(t, "tid")
  /\ Goto(t, "take")
  /\ UNCHANGED <<callv, cloneV, idV, tid, muslV, psxV>>

SetTid(t) ==
  /\ At(t, "tid")
  /\ ctid' = [ctid EXCEPT ![t] = ctx[slot[t]].tls]
  /\ Goto(t, "take")
  /\ UNCHANGED <<callv, cloneV, self, fn, tid, muslV, psxV>>

(* The function is copied out before the slot is released.                    *)
Take(t) ==
  /\ At(t, "take")
  /\ fn' = [fn EXCEPT ![t] = ctx[slot[t]].entry]
  /\ Goto(t, "release")
  /\ UNCHANGED <<callv, cloneV, self, ctid, tid, muslV, psxV>>

Release(t) ==
  /\ At(t, "release")
  /\ busy' = [busy EXCEPT ![slot[t]] = FALSE]
  /\ Goto(t, "run")
  /\ UNCHANGED <<callv, ctx, idV, tid, muslV, psxV>>

-----------------------------------------------------------------------------
(* pthread_exit and __psx_exit.                                               *)

MayExit(t) ==
  /\ "gate" \in Discipline =>
       \A u \in Thread : obj[u] = t => pc[u] \notin Creating
  /\ "meet" \in Discipline =>
       \A p \in Thread : maker[p] = t => pc[p] \notin Starting

(* pthread_exit takes exitlock: pthread_detach no longer succeeds.            *)
Exit(t) ==
  /\ At(t, "run") /\ MayExit(t)
  /\ Goto(t, "leave")
  /\ UNCHANGED <<callv, cloneV, idV, tid, muslV, psxV>>

(* Mutant: the exit word of every thread is moved, detached or not.           *)
LeaveMovesWord(t) ==
  /\ At(t, "leave")
  /\ IF minus1 = 0
     THEN Goto(t, "exit") /\ UNCHANGED <<minus1, ctid>>
     ELSE /\ minus1' = minus1 - 1
          /\ ctid' = [ctid EXCEPT ![t] = Spare]
          /\ Goto(t, "clear")
  /\ UNCHANGED <<callv, cloneV, self, fn, tid, mapped, detached, maker, known, psxV>>

(* The last thread of libc calls exit; a detached one has its exit word moved *)
(* to __unmapself_tid_slot, and all others go to SYS_exit as they are.        *)
Leave(t) ==
  /\ At(t, "leave")
  /\ IF minus1 = 0
     THEN Goto(t, "exit") /\ UNCHANGED <<minus1, ctid>>
     ELSE /\ minus1' = minus1 - 1
          /\ ctid' = IF self[t] \in detached THEN [ctid EXCEPT ![t] = Spare] ELSE ctid
          /\ Goto(t, "clear")
  /\ UNCHANGED <<callv, cloneV, self, fn, tid, mapped, detached, maker, known, psxV>>

(* A thread returns from main or calls exit.                                  *)
CallExit(t) ==
  /\ At(t, "run")
  /\ Goto(t, "exit")
  /\ UNCHANGED <<callv, cloneV, idV, tid, muslV, psxV>>

ExitGroup(t) ==
  /\ At(t, "exit")
  /\ process' = "exited"
  /\ UNCHANGED <<pc, callv, cloneV, idV, tid, muslV, pthreads, tlca, inbox>>

(* Mutant: the daemon is told before the thread is done with its TLCA.        *)
ClearPosts(t) ==
  /\ At(t, "clear")
  /\ tid' = IF ctid[t] \in Thread THEN [tid EXCEPT ![ctid[t]] = None] ELSE tid
  /\ inbox' = Append(inbox, t)
  /\ Goto(t, "wake")
  /\ UNCHANGED <<callv, cloneV, idV, muslV, pthreads, tlca, process>>

Clear(t) ==
  /\ At(t, "clear")
  /\ tid' = IF ctid[t] \in Thread THEN [tid EXCEPT ![ctid[t]] = None] ELSE tid
  /\ Goto(t, "wake")
  /\ UNCHANGED <<callv, cloneV, idV, muslV, psxV>>

(* FUTEX_WAKE of one thread: at most one sleeps, for a thread is joined once. *)
Sleepers(w) == {u \in Thread : pc[u] = "sleep" /\ obj[u] = w}
Woken(pcs, w) ==
  IF Sleepers(w) = {} THEN pcs
  ELSE [pcs EXCEPT ![CHOOSE u \in Sleepers(w) : TRUE] = "check"]

Wake(t) ==
  /\ At(t, "wake")
  /\ pc' = Woken([pc EXCEPT ![t] = "post"], ctid[t])
  /\ UNCHANGED <<callv, cloneV, idV, tid, muslV, psxV>>

Post(t) ==
  /\ At(t, "post")
  /\ inbox' = Append(inbox, t)
  /\ Goto(t, "epilog")
  /\ UNCHANGED <<callv, cloneV, idV, tid, muslV, pthreads, tlca, process>>

Epilog(t) ==
  /\ At(t, "epilog")
  /\ Goto(t, "gone")
  /\ UNCHANGED <<callv, cloneV, idV, tid, muslV, psxV>>

(* Mutant: the daemon looks at the count after the decrement, off by one.     *)
ThreadexitOffByOne ==
  /\ process = "up" /\ inbox # <<>>
  /\ inbox' = Tail(inbox)
  /\ pc' = Woken(pc, ctid[Head(inbox)])
  /\ pthreads' = pthreads - 1
  /\ IF pthreads' = 1
     THEN process' = "terminated" /\ UNCHANGED tlca
     ELSE tlca' = tlca \ {Head(inbox)} /\ UNCHANGED process
  /\ UNCHANGED <<callv, cloneV, idV, tid, muslV>>

(* __psx_daemon_threadexit: wake, count down, and end the process or free the *)
(* TLCA.                                                                      *)
Threadexit ==
  /\ process = "up" /\ inbox # <<>>
  /\ inbox' = Tail(inbox)
  /\ pc' = Woken(pc, ctid[Head(inbox)])
  /\ pthreads' = pthreads - 1
  /\ IF pthreads = 1
     THEN process' = "terminated" /\ UNCHANGED tlca
     ELSE tlca' = tlca \ {Head(inbox)} /\ UNCHANGED process
  /\ UNCHANGED <<callv, cloneV, idV, tid, muslV>>

-----------------------------------------------------------------------------
(* pthread_join and pthread_detach.                                           *)

Join(t, p) ==
  /\ At(t, "run") /\ p \in known \ {t}
  /\ known' = known \ {p}
  /\ obj' = [obj EXCEPT ![t] = p]
  /\ Goto(t, "check")
  /\ UNCHANGED <<slot, cloneV, idV, tid, mapped, detached, maker, minus1, psxV>>

(* while ((tmp = t->tid)) __timedwait_cp(&t->tid, tmp, ...)                   *)
Check(t) ==
  /\ At(t, "check")
  /\ Goto(t, IF tid[obj[t]] = None THEN "reap" ELSE "wait")
  /\ UNCHANGED <<callv, cloneV, idV, tid, muslV, psxV>>

(* FUTEX_WAIT compares the word again and sleeps, as one step.                *)
Wait(t) ==
  /\ At(t, "wait")
  /\ Goto(t, IF tid[obj[t]] = None THEN "check" ELSE "sleep")
  /\ UNCHANGED <<callv, cloneV, idV, tid, muslV, psxV>>

Reap(t) ==
  /\ At(t, "reap")
  /\ mapped' = mapped \ {obj[t]}
  /\ obj' = [obj EXCEPT ![t] = None]
  /\ Goto(t, "run")
  /\ UNCHANGED <<slot, cloneV, idV, tid, detached, maker, known, minus1, psxV>>

(* A thread that holds its exitlock is joined instead.                        *)
Detach(t, p) ==
  /\ At(t, "run") /\ p \in known \ {t}
  /\ known' = known \ {p}
  /\ IF \E u \in Thread : self[u] = p /\ pc[u] \in Leaving
     THEN /\ obj' = [obj EXCEPT ![t] = p]
          /\ Goto(t, "check")
          /\ UNCHANGED detached
     ELSE detached' = detached \cup {p} /\ UNCHANGED <<pc, obj>>
  /\ UNCHANGED <<slot, cloneV, idV, tid, mapped, maker, minus1, psxV>>

-----------------------------------------------------------------------------
Clone(t) ==
  \/ Scan(t) \/ Mark(t) \/ FillEntry(t) \/ FillTls(t) \/ Spawn(t) \/ Ptid(t)
Thunk(t) == TlcaInit(t) \/ Count(t) \/ SetTid(t) \/ Take(t) \/ Release(t)
PsxExit(t) == Leave(t) \/ ExitGroup(t) \/ Clear(t) \/ Wake(t) \/ Post(t) \/ Epilog(t)
Joins(t) == Check(t) \/ Wait(t) \/ Reap(t)

Next ==
  \/ \E t \in Thread : Clone(t) \/ SpawnFails(t) \/ Thunk(t)
                       \/ PsxExit(t) \/ Joins(t) \/ Exit(t) \/ CallExit(t)
  \/ \E t, p \in Thread, d \in BOOLEAN : Create(t, p, d)
  \/ \E t, p \in Thread : Join(t, p) \/ Detach(t, p)
  \/ Threadexit

Spec == Init /\ [][Next]_vars

(* A thread that is inside the library runs on; the daemon receives its mail. *)
FairSpec ==
  /\ Spec
  /\ \A t \in Thread : WF_vars(Clone(t) \/ Thunk(t) \/ PsxExit(t) \/ Joins(t))
  /\ WF_vars(Threadexit)

-----------------------------------------------------------------------------
TypeOK ==
  /\ pc \in [Thread -> Pcs]
  /\ obj \in [Thread -> Thread \cup {None}]
  /\ slot \in [Thread -> 1..NSlots + 1]
  /\ busy \in [Slot -> BOOLEAN]
  /\ ctx \in [Slot -> [entry : Thread \cup {None}, tls : Thread \cup {None}]]
  /\ self \in [Thread -> Thread \cup {None}]
  /\ fn \in [Thread -> Thread \cup {None}]
  /\ ctid \in [Thread -> Thread \cup {None, Spare}]
  /\ tid \in [Thread -> Thread \cup {None}]
  /\ maker \in [Thread -> Thread \cup {None}]
  /\ mapped \subseteq Thread /\ detached \subseteq Thread
  /\ known \subseteq Thread /\ tlca \subseteq Thread
  /\ minus1 \in Nat /\ pthreads \in Nat
  /\ inbox \in Seq(Thread)
  /\ process \in {"up", "exited", "terminated"}

(* Every thread runs the function it was made for, as the descriptor it was   *)
(* made with, and its exit clears the word its joiner watches (_clone.c:95-   *)
(* 124 read what _clone.c:169-173 wrote, through a slot that is used again).  *)
StartsAsCreated ==
  \A t \in Thread : pc[t] \notin {"none", "gone"} \cup Booting =>
    self[t] = t /\ fn[t] = t /\ ctid[t] \in {t, Spare}

(* A slot is busy exactly while one creator fills it or the thread that reads *)
(* it has not let it go: none is lost when a call fails, none has two users.  *)
Holders(s) ==
  {u \in Thread : pc[u] \in {"entry", "tls", "spawn"} \cup Booting /\ slot[u] = s}
SlotsBalance ==
  \A s \in Slot : Cardinality(Holders(s)) = IF busy[s] THEN 1 ELSE 0

(* pthreads counts the threads that have started and whose exit the daemon    *)
(* has not handled (_clone.c:104-107, psx_daemon_threadexit.c:36).            *)
CountBalance ==
  process # "terminated" =>
    pthreads = Cardinality({t \in tlca : pc[t] # "count"})

(* While libc has threads left the process ends through exit, and not because *)
(* the daemon takes an exiting thread for the last one (_clone.c:104-106).    *)
DaemonSparesTheProcess == process # "terminated"

(* Once pthread_create has returned, a thread that has cleared its number     *)
(* keeps it cleared, so that a joiner sees it (_clone.c:112, psx_exit.c:30).  *)
NumberStaysCleared ==
  \A t \in Thread : t \in known /\ pc[t] \in Cleared => tid[t] = None

(* What the creation of threads takes is what runs: slots, the count the      *)
(* daemon decides by, and the numbers joiners look at, with creations that    *)
(* fail and exits that overtake them (_clone.c:104-203).                      *)
CreationExact == TypeOK /\ SlotsBalance /\ CountBalance /\ NumberStaysCleared

(* A joiner unmaps a descriptor only when its thread has cleared its number,  *)
(* and no thread that still runs user code or its own exit loses its memory.  *)
ReapsOnlyTheDead ==
  \A t \in Thread : pc[t] \notin Cleared \cup {"none"} => t \in mapped

(* The daemon frees the TLCA of a thread only after the thread's last use.    *)
TlcaOutlivesThread ==
  \A t \in Thread : pc[t] \notin {"none", "tlca", "epilog", "gone"} => t \in tlca

(* The memory of a thread, its descriptor and its TLCA, outlives its last     *)
(* use by the thread, whoever frees it (pthread_join.c:15, psx_exit.c:26-69). *)
MemoryOutlivesThread == ReapsOnlyTheDead /\ TlcaOutlivesThread

(* A join of a thread that exits returns, unless the process ends.            *)
JoinReturns ==
  \A t \in Thread :
    (pc[t] \in Joining /\ pc[obj[t]] \in Leaving)
      ~> (pc[t] \notin Joining \/ process # "up")
=============================================================================
