------------------------------ MODULE SysvSem ------------------------------
(* System V semaphores of psxscl: a static table of sets, semop as a loop of  *)
(* checks followed by a loop of updates, and polling when an operation cannot *)
(* be done yet.  Nothing is locked: the checks and the updates of semop are   *)
(* steps of their own.  semget and semctl are one step each.                  *)
EXTENDS Integers, Sequences, FiniteSets, FiniteSetsExt, IpcTable

CONSTANTS
    Threads,        \* threads of the process
    Keys,           \* keys of semget
    Nsems,          \* PSX_SEM_NSEMS: the most semaphores of a set
    SemWord,        \* 2^16: semval is an unsigned short
    Batches,        \* the operations of a semop: sequences of [num, op]
    Values,         \* values of SETVAL
    MaxSeq,         \* bound on the sets made
    MaxTime,        \* bound of the clock
    Ops,            \* calls the threads make
    Serialised      \* semops do not overlap, as "atomic" assumes

ASSUME SemAssumption ==
    /\ Nsems \in Nat \ {0} /\ SemWord \in Nat \ {0}
    /\ MaxSeq \in Nat /\ MaxTime \in Nat
    /\ Values \subseteq Int
    /\ Batches \subseteq Seq([num : Nat, op : Int])
    /\ Serialised \in BOOLEAN

Nums == 0 .. (Nsems - 1)
NoDeadline == -1
Zeros == [n \in Nums |-> 0]

VARIABLES
    sets,       \* __psx_sems: used, seq, key, nsems, val; life: which set (history)
    ipcSeq,     \* __psx_ipc_seq
    now,        \* CLOCK_REALTIME
    pc, loc,    \* the next step and the locals of each thread's semop
    ids,        \* identifiers that semget has returned: [id, life]
    net         \* net[s][n]: units put in less units taken (history variable)

vars == <<sets, ipcSeq, now, pc, loc, ids, net>>

Idle == [set |-> 0, life |-> 0, batch |-> <<>>, i |-> 0, nowait |-> FALSE,
         at |-> NoDeadline, read |-> 0]

Init ==
    /\ sets = [s \in Entries |-> [used |-> FALSE, seq |-> 0, key |-> 0, nsems |-> 0,
                                  val |-> Zeros, life |-> 0]]
    /\ ipcSeq = 0 /\ now = 0
    /\ pc = [t \in Threads |-> "idle"]
    /\ loc = [t \in Threads |-> Idle]
    /\ ids = {}
    /\ net = [s \in Entries |-> Zeros]

Go(t, step, l) ==
    /\ pc' = [pc EXCEPT ![t] = step]
    /\ loc' = [loc EXCEPT ![t] = IF step = "idle" THEN Idle ELSE l]

MayEnter(t) ==
    Serialised => \A s \in Threads \ {t} : pc[s] \in {"idle", "try", "blocked", "delay"}

Val(t, n) == sets[loc[t].set].val[n]
Op(t) == loc[t].batch[loc[t].i]
Finished(t) == loc[t].i > Len(loc[t].batch)

-----------------------------------------------------------------------------
(* Mutant: the sequence number is not stored in the new entry.                *)
SemgetForgetsSeq(t, key, nsems) ==
    /\ "semget" \in Ops /\ pc[t] = "idle" /\ MayEnter(t)
    /\ Known(sets, key) = {} /\ Free(sets) # {} /\ ipcSeq < MaxSeq
    /\ LET s == First(Free(sets)) IN
       /\ sets' = [sets EXCEPT ![s] = [used |-> TRUE, seq |-> 0, key |-> key, nsems |-> nsems,
                                       val |-> Zeros, life |-> ipcSeq + 1]]
       /\ ids' = ids \cup {[id |-> IpcId(s, 0), life |-> ipcSeq + 1]}
       /\ net' = [net EXCEPT ![s] = Zeros]
    /\ ipcSeq' = ipcSeq + 1
    /\ UNCHANGED <<now, pc, loc>>

(* semget: the set of the key if it has semaphores enough, or a new one in the*)
(* first free entry; IPC_PRIVATE always makes a new one.                      *)
CallSemget(t, key, nsems) ==
    /\ "semget" \in Ops /\ pc[t] = "idle" /\ MayEnter(t)
    /\ \/ /\ Known(sets, key) # {}
          /\ LET s == First(Known(sets, key)) IN
             /\ nsems <= sets[s].nsems
             /\ ids' = ids \cup {[id |-> IpcId(s, sets[s].seq), life |-> sets[s].life]}
          /\ UNCHANGED <<sets, ipcSeq, net>>
       \/ /\ Known(sets, key) = {} /\ Free(sets) # {} /\ ipcSeq < MaxSeq
          /\ LET s == First(Free(sets)) IN
             /\ sets' = [sets EXCEPT ![s] = [used |-> TRUE, seq |-> ipcSeq + 1, key |-> key,
                                             nsems |-> nsems, val |-> Zeros,
                                             life |-> ipcSeq + 1]]
             /\ ids' = ids \cup {[id |-> IpcId(s, ipcSeq + 1), life |-> ipcSeq + 1]}
             /\ net' = [net EXCEPT ![s] = Zeros]
          /\ ipcSeq' = ipcSeq + 1
    /\ UNCHANGED <<now, pc, loc>>

(* semctl with IPC_RMID, and with SETVAL.                                     *)
CallRmid(t, h) ==
    /\ "rmid" \in Ops /\ pc[t] = "idle" /\ MayEnter(t)
    /\ \E s \in FromId(sets, h.id) : sets' = [sets EXCEPT ![s].used = FALSE]
    /\ UNCHANGED <<ipcSeq, now, pc, loc, ids, net>>

(* Mutant: the value is stored without its conversion to unsigned short.      *)
SetvalUnconverted(t, h, n, v) ==
    /\ "setval" \in Ops /\ pc[t] = "idle" /\ MayEnter(t)
    /\ \E s \in FromId(sets, h.id) :
         /\ n < sets[s].nsems
         /\ sets' = [sets EXCEPT ![s].val[n] = v]
         /\ net' = [net EXCEPT ![s][n] = v % SemWord]
    /\ UNCHANGED <<ipcSeq, now, pc, loc, ids>>

CallSetval(t, h, n, v) ==
    /\ "setval" \in Ops /\ pc[t] = "idle" /\ MayEnter(t)
    /\ \E s \in FromId(sets, h.id) :
         /\ n < sets[s].nsems
         /\ sets' = [sets EXCEPT ![s].val[n] = v % SemWord]
         /\ net' = [net EXCEPT ![s][n] = v % SemWord]
    /\ UNCHANGED <<ipcSeq, now, pc, loc, ids>>

-----------------------------------------------------------------------------
(* semop and semtimedop: the set is looked up once, then tried again and      *)
(* again through the pointer.                                                 *)
CallSemop(t, h, batch, nowait, at) ==
    /\ "semop" \in Ops /\ pc[t] = "idle"
    /\ \E s \in FromId(sets, h.id) :
         Go(t, "try", [Idle EXCEPT !.set = s, !.life = h.life, !.batch = batch,
                                   !.nowait = nowait, !.at = at])
    /\ UNCHANGED <<sets, ipcSeq, now, ids, net>>

Try(t) ==
    /\ pc[t] = "try" /\ MayEnter(t)
    /\ Go(t, "check", [loc[t] EXCEPT !.i = 1])
    /\ UNCHANGED <<sets, ipcSeq, now, ids, net>>

(* Mutant: a take blocks only on zero.                                        *)
BlocksOnZeroOnly(t) == Op(t).op = 0 /\ Val(t, Op(t).num) # 0

(* Mutant: an operation that waits for zero never blocks.                     *)
NeverWaitsForZero(t) == Op(t).op < 0 /\ Val(t, Op(t).num) < - Op(t).op

Blocks(t) ==
    \/ Op(t).op < 0 /\ Val(t, Op(t).num) < - Op(t).op
    \/ Op(t).op = 0 /\ Val(t, Op(t).num) # 0

(* __psx_sem_try, first loop: each operation against the stored value; -EFBIG *)
(* ends the call.                                                             *)
Check(t) ==
    /\ pc[t] = "check"
    /\ IF Finished(t) THEN Go(t, "applyRead", [loc[t] EXCEPT !.i = 1])
       ELSE IF Op(t).num >= sets[loc[t].set].nsems THEN Go(t, "idle", Idle)
       ELSE IF Blocks(t) THEN Go(t, "blocked", loc[t])
       ELSE Go(t, "check", [loc[t] EXCEPT !.i = @ + 1])
    /\ UNCHANGED <<sets, ipcSeq, now, ids, net>>

(* Second loop: val[num] + op is a read and a write of the unsigned short.    *)
ApplyRead(t) ==
    /\ pc[t] = "applyRead"
    /\ IF Finished(t)
       THEN Go(t, "idle", Idle)
       ELSE Go(t, "applyWrite", [loc[t] EXCEPT !.read = Val(t, Op(t).num)])
    /\ UNCHANGED <<sets, ipcSeq, now, ids, net>>

(* Mutant: the update is written without the value that was read.             *)
ApplyWriteBlind(t) ==
    /\ pc[t] = "applyWrite"
    /\ LET s == loc[t].set
           n == Op(t).num IN
       /\ sets' = [sets EXCEPT ![s].val[n] = Op(t).op % SemWord]
       /\ net' = [net EXCEPT ![s][n] = @ + Op(t).op]
    /\ Go(t, "applyRead", [loc[t] EXCEPT !.i = @ + 1])
    /\ UNCHANGED <<ipcSeq, now, ids>>

ApplyWrite(t) ==
    /\ pc[t] = "applyWrite"
    /\ LET s == loc[t].set
           n == Op(t).num IN
       /\ sets' = [sets EXCEPT ![s].val[n] = (loc[t].read + Op(t).op) % SemWord]
       /\ net' = [net EXCEPT ![s][n] = @ + Op(t).op]
    /\ Go(t, "applyRead", [loc[t] EXCEPT !.i = @ + 1])
    /\ UNCHANGED <<ipcSeq, now, ids>>

Blocked(t) ==
    /\ pc[t] = "blocked"
    /\ Go(t, IF loc[t].nowait \/ (loc[t].at # NoDeadline /\ now >= loc[t].at)
             THEN "idle" ELSE "delay", loc[t])
    /\ UNCHANGED <<sets, ipcSeq, now, ids, net>>

Delay(t) ==
    /\ pc[t] = "delay"
    /\ Go(t, "try", loc[t])
    /\ UNCHANGED <<sets, ipcSeq, now, ids, net>>

Tick ==
    /\ now < MaxTime
    /\ now' = now + 1
    /\ UNCHANGED <<sets, ipcSeq, pc, loc, ids, net>>

-----------------------------------------------------------------------------
Call(t) ==
    \/ \E key \in Keys, nsems \in 1 .. Nsems : CallSemget(t, key, nsems)
    \/ \E h \in ids :
         \/ CallRmid(t, h)
         \/ \E n \in Nums, v \in Values : CallSetval(t, h, n, v)
         \/ \E batch \in Batches, nowait \in BOOLEAN, at \in {NoDeadline, MaxTime} :
              CallSemop(t, h, batch, nowait, at)

Work(t) ==
    \/ Try(t) \/ Check(t) \/ ApplyRead(t) \/ ApplyWrite(t) \/ Blocked(t) \/ Delay(t)

Next == Tick \/ \E t \in Threads : Call(t) \/ Work(t)

Spec == Init /\ [][Next]_vars

-----------------------------------------------------------------------------
(* Properties.                                                                *)

TypeOK ==
    /\ \A s \in Entries : sets[s].val \in [Nums -> 0 .. (SemWord - 1)]
    /\ ipcSeq \in 0 .. MaxSeq /\ now \in 0 .. MaxTime
    /\ pc \in [Threads -> {"idle", "try", "check", "applyRead", "applyWrite", "blocked",
                           "delay"}]
    /\ \A t \in Threads : loc[t].set \in Entries /\ loc[t].life \in 0 .. MaxSeq

(* Nobody takes a unit that is not there: with one unit, at most one thread   *)
(* is past its semop(-1).                                                     *)
NeverNegative == \A s \in Entries, n \in Nums : net[s][n] >= 0

(* No update is lost.                                                         *)
ValuesExact ==
    \A s \in Entries, n \in Nums : sets[s].val[n] = net[s][n] % SemWord

(* An identifier that semget has returned denotes the set it was returned for *)
(* or none, however often the entry is used again.                            *)
IdsNameOneSet ==
    \A h \in ids : \A s \in FromId(sets, h.id) : sets[s].life = h.life

(* The values of the set in entry 0 with what is left of the batches that are *)
(* being applied to it.                                                       *)
Committed ==
    [n \in Nums |->
        LET Rest(t) == IF pc[t] \in {"applyRead", "applyWrite"}
                       THEN {i \in loc[t].i .. Len(loc[t].batch) : loc[t].batch[i].num = n}
                       ELSE {} IN
        (sets[0].val[n]
         + MapThenSumSet(LAMBDA t : MapThenSumSet(LAMBDA i : loc[t].batch[i].op, Rest(t)),
                         Threads)) % SemWord]

(* When the bodies of semops do not overlap, a batch is done as one: each of  *)
(* its operations is possible in the values it starts from, and the values it *)
(* ends with are those and all it gives and takes, whatever the order of the  *)
(* operations.  In this the code differs from semop(2), which does them one   *)
(* after the other (l.601-617).                                               *)
Abstract ==
    INSTANCE SemaphoreSet WITH val <- Committed, Values <- {v % SemWord : v \in Values}

ImplementsSemaphores == Abstract!SemSpec
=============================================================================
