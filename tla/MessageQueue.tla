---------------------------- MODULE MessageQueue ----------------------------
(* POSIX message queues of psxscl: a static table of queues, each with a few  *)
(* message slots.  Nothing is locked: each shared access of a call is a step. *)
(* A call that finds the queue full or empty polls with a delay.              *)
(* Descriptor numbers and descriptions, the references that the calls take to *)
(* them and mq_close are those of FdTable ("mqopen", "use", "close"); here a  *)
(* description is the queue that its pointer names, and stays usable, as the  *)
(* pointer does.                                                              *)
EXTENDS Integers, FiniteSets, Sequences, SequencesExt

None == "none"

CONSTANTS
    Threads,        \* threads of the process
    Names,          \* queue names
    Cap,            \* PSX_MQ_CAP: queues of the table
    Slots,          \* PSX_MQ_SLOTS: message slots of a queue
    Limits,         \* values of mq_maxmsg that clients ask for
    Msgs, Prio,     \* messages and their priorities, from 0
    Word,           \* 2^32: next_seq and curmsgs are uint32_t
    MaxTime,        \* bound of the clock
    MaxLives,       \* bound on the queues made in one entry of the table
    Ops,            \* calls the threads make
    Serialised      \* bodies of calls do not overlap, as "_locked" assumes

ASSUME SizeAssumption ==
    /\ Cap \in Nat \ {0} /\ Slots \in Nat \ {0} /\ Word \in Nat \ {0}
    /\ MaxTime \in Nat /\ MaxLives \in Nat
    /\ Limits \subseteq Nat \ {0}
ASSUME FinitenessAssumption == IsFiniteSet(Threads)
ASSUME DataAssumption == Prio \in [Msgs -> Nat] /\ Serialised \in BOOLEAN

EqualPriorities == [m \in Msgs |-> 0]     \* a value for Prio

Queues == 1 .. Cap
Places == 1 .. Slots
LastSeq == Word - 1
NoDeadline == -1

VARIABLES
    table,      \* __psx_mqs: used, name, maxmsg, curmsgs, nextSeq, nonblock, slots
    bound,      \* queues that a description points to, or has pointed to
    now,        \* CLOCK_REALTIME
    pc, loc,    \* the next step and the locals of each thread's call
    history,    \* the messages sent, in order (history variable)
    lives,      \* lives[q]: queues made so far in entry q (history variable)
    raced       \* queues on which two calls have collided (history variable)

vars == <<table, bound, now, pc, loc, history, lives, raced>>
ghosts == <<history, lives, raced>>

NoSlot == [used |-> FALSE, seq |-> 0, msg |-> None]
Unused == [used |-> FALSE, name |-> None, maxmsg |-> 0, curmsgs |-> 0, nextSeq |-> 0,
           nonblock |-> FALSE, slots |-> [i \in Places |-> NoSlot]]

Idle == [op |-> "none", queue |-> 0, name |-> None, fresh |-> FALSE, maxmsg |-> 0,
         nonblock |-> FALSE, at |-> NoDeadline, msg |-> None, fits |-> TRUE,
         slot |-> 0, read |-> 0]

Init ==
    /\ table = [q \in Queues |-> Unused]
    /\ bound = {} /\ now = 0
    /\ pc = [t \in Threads |-> "idle"]
    /\ loc = [t \in Threads |-> Idle]
    /\ history = <<>>
    /\ lives = [q \in Queues |-> 0]
    /\ raced = {}

-----------------------------------------------------------------------------
Go(t, step, l) ==
    /\ pc' = [pc EXCEPT ![t] = step]
    /\ loc' = [loc EXCEPT ![t] = IF step = "idle" THEN Idle ELSE l]

(* The steps at which a thread is not inside the body of a call.              *)
Outside == {"idle", "try", "again", "delay"}

MayEnter(t) == Serialised => \A s \in Threads \ {t} : pc[s] \in Outside

Mq(t) == table[loc[t].queue]

Filled(q) == {i \in Places : table[q].slots[i].used}

(* The sends that have marked a slot of q and not counted it yet, and the     *)
(* receives that have cleared one and not counted it yet.                     *)
Arriving(q) ==
    {t \in Threads : /\ loc[t].queue = q
                     /\ pc[t] \in {"sendSeqRead", "sendSeq", "sendBody", "sendCountRead",
                                   "sendCount"}}
Leaving(q) ==
    {t \in Threads : loc[t].queue = q /\ pc[t] \in {"receiveCountRead", "receiveCount"}}

(* Two calls collide on t's queue when t's step finds what another has made   *)
(* of it since t looked.                                                      *)
Collision(t, stale) ==
    raced' = IF stale THEN raced \cup {loc[t].queue} ELSE raced

-----------------------------------------------------------------------------
(* mq_open.                                                                   *)

Named(name) == {q \in Queues : table[q].used /\ table[q].name = name}
Lowest(S) == CHOOSE q \in S : \A r \in S : q <= r

(* O_EXCL on a queue that exists and a missing O_CREAT end the call here.     *)
CallOpen(t, name, limit, nonblock) ==
    /\ "open" \in Ops /\ pc[t] = "idle" /\ MayEnter(t)
    /\ LET l == [Idle EXCEPT !.op = "open", !.name = name, !.maxmsg = limit,
                             !.nonblock = nonblock] IN
       IF Named(name) # {}
       THEN Go(t, "openFlags", [l EXCEPT !.queue = Lowest(Named(name))])
       ELSE Go(t, "createScan", [l EXCEPT !.fresh = TRUE])
    /\ UNCHANGED <<table, bound, now, ghosts>>

CreateScan(t) ==
    /\ pc[t] = "createScan"
    /\ LET free == {q \in Queues : ~ table[q].used} IN
       IF free = {}
       THEN Go(t, "idle", Idle)
       ELSE /\ lives[Lowest(free)] < MaxLives
            /\ Go(t, "createMark", [loc[t] EXCEPT !.queue = Lowest(free)])
    /\ UNCHANGED <<table, bound, now, ghosts>>

CreateMark(t) ==
    /\ pc[t] = "createMark"
    /\ table' = [table EXCEPT ![loc[t].queue].used = TRUE]
    /\ Go(t, "createFill", loc[t])
    /\ UNCHANGED <<bound, now, ghosts>>

Capped(limit) == IF limit < Slots THEN limit ELSE Slots

CreateFill(t) ==
    /\ pc[t] = "createFill"
    /\ table' = [table EXCEPT ![loc[t].queue] =
                   [Unused EXCEPT !.used = Mq(t).used, !.name = loc[t].name,
                                  !.maxmsg = Capped(loc[t].maxmsg)]]
    /\ lives' = [lives EXCEPT ![loc[t].queue] = @ + 1]
    /\ raced' = IF Arriving(loc[t].queue) \cup Leaving(loc[t].queue) = {}
                THEN raced \ {loc[t].queue} ELSE raced \cup {loc[t].queue}
    /\ Go(t, "openFlags", loc[t])
    /\ UNCHANGED <<bound, now, history>>

OpenFlags(t) ==
    /\ pc[t] = "openFlags"
    /\ table' = [table EXCEPT ![loc[t].queue].nonblock = @ \/ loc[t].nonblock]
    /\ Go(t, "openDesc", loc[t])
    /\ UNCHANGED <<bound, now, ghosts>>

(* An error path of mq_open: an empty blocking queue is taken back, whoever   *)
(* made it.                                                                   *)
Reclaimed(q) ==
    IF table[q].curmsgs = 0 /\ ~ table[q].nonblock
    THEN [table EXCEPT ![q].used = FALSE]
    ELSE table

(* The number and the description (FdTable): either may be refused.           *)
OpenDesc(t) ==
    /\ pc[t] = "openDesc"
    /\ \/ Go(t, "idle", Idle) /\ table' = Reclaimed(loc[t].queue)
       \/ Go(t, "openBind", loc[t]) /\ UNCHANGED table
    /\ UNCHANGED <<bound, now, ghosts>>

OpenBind(t) ==
    /\ pc[t] = "openBind"
    /\ bound' = bound \cup {loc[t].queue}
    /\ Go(t, "idle", Idle)
    /\ UNCHANGED <<table, now, ghosts>>

CallUnlink(t, name) ==
    /\ "unlink" \in Ops /\ pc[t] = "idle" /\ MayEnter(t)
    /\ Named(name) # {}
    /\ table' = [table EXCEPT ![Lowest(Named(name))].used = FALSE]
    /\ UNCHANGED <<bound, now, pc, loc, ghosts>>

(* mq_getsetattr: the flags belong to the queue, not to the descriptor.       *)
CallSetattr(t, q, nonblock) ==
    /\ "setattr" \in Ops /\ pc[t] = "idle" /\ MayEnter(t)
    /\ q \in bound
    /\ table' = [table EXCEPT ![q].nonblock = nonblock]
    /\ UNCHANGED <<bound, now, pc, loc, ghosts>>

-----------------------------------------------------------------------------
(* mq_timedsend and mq_timedreceive: try, and on EAGAIN give up or wait.  The *)
(* description is looked up before, and its reference dropped again (the call *)
(* "use" of FdTable): only the queue is kept.                                 *)

Unsent == Msgs \ (ToSet(history) \cup {loc[t].msg : t \in Threads})

CallSend(t, q, m, at, fits) ==
    /\ "send" \in Ops /\ pc[t] = "idle" /\ q \in bound /\ m \in Unsent
    /\ Go(t, "try", [Idle EXCEPT !.op = "send", !.queue = q, !.msg = m,
                                 !.at = at, !.fits = fits])
    /\ UNCHANGED <<table, bound, now, ghosts>>

CallReceive(t, q, at, fits) ==
    /\ "receive" \in Ops /\ pc[t] = "idle" /\ q \in bound
    /\ Go(t, "try", [Idle EXCEPT !.op = "receive", !.queue = q, !.at = at, !.fits = fits])
    /\ UNCHANGED <<table, bound, now, ghosts>>

(* Mutant: the deadline is not looked at.                                     *)
AgainForever(t) ==
    /\ pc[t] = "again"
    /\ Go(t, IF Mq(t).nonblock THEN "idle" ELSE "delay", loc[t])
    /\ UNCHANGED <<table, bound, now, ghosts>>

(* The poll loop after EAGAIN.                                                *)
Again(t) ==
    /\ pc[t] = "again"
    /\ Go(t, IF Mq(t).nonblock \/ (loc[t].at # NoDeadline /\ now >= loc[t].at)
             THEN "idle" ELSE "delay", loc[t])
    /\ UNCHANGED <<table, bound, now, ghosts>>

Delay(t) ==
    /\ pc[t] = "delay"
    /\ Go(t, "try", loc[t])
    /\ UNCHANGED <<table, bound, now, ghosts>>

Tick ==
    /\ now < MaxTime
    /\ now' = now + 1
    /\ UNCHANGED <<table, bound, pc, loc, ghosts>>

-----------------------------------------------------------------------------
(* __psx_mq_send_locked.                                                      *)

(* Mutant: one message too many.                                              *)
SendTryOffByOne(t) ==
    /\ pc[t] = "try" /\ loc[t].op = "send" /\ MayEnter(t)
    /\ Go(t, IF ~ loc[t].fits THEN "idle"
             ELSE IF Mq(t).curmsgs > Mq(t).maxmsg THEN "again" ELSE "sendScan", loc[t])
    /\ UNCHANGED <<table, bound, now, ghosts>>

SendTry(t) ==
    /\ pc[t] = "try" /\ loc[t].op = "send" /\ MayEnter(t)
    /\ Go(t, IF ~ loc[t].fits THEN "idle"
             ELSE IF Mq(t).curmsgs >= Mq(t).maxmsg THEN "again" ELSE "sendScan", loc[t])
    /\ UNCHANGED <<table, bound, now, ghosts>>

SendScan(t) ==
    /\ pc[t] = "sendScan"
    /\ LET free == {i \in Places : ~ Mq(t).slots[i].used} IN
       IF free = {}
       THEN Go(t, "again", loc[t])
       ELSE Go(t, "sendMark", [loc[t] EXCEPT !.slot = Lowest(free)])
    /\ UNCHANGED <<table, bound, now, ghosts>>

SendMark(t) ==
    /\ pc[t] = "sendMark"
    /\ table' = [table EXCEPT ![loc[t].queue].slots[loc[t].slot].used = TRUE]
    /\ Collision(t, Mq(t).slots[loc[t].slot].used)
    /\ Go(t, "sendSeqRead", loc[t])
    /\ UNCHANGED <<bound, now, history, lives>>

(* slot->seq = mq->next_seq++ is a read and two writes.                       *)
SendSeqRead(t) ==
    /\ pc[t] = "sendSeqRead"
    /\ Go(t, "sendSeq", [loc[t] EXCEPT !.read = Mq(t).nextSeq])
    /\ UNCHANGED <<table, bound, now, ghosts>>

SendSeq(t) ==
    /\ pc[t] = "sendSeq"
    /\ table' = [table EXCEPT ![loc[t].queue].nextSeq = (loc[t].read + 1) % Word,
                              ![loc[t].queue].slots[loc[t].slot].seq = loc[t].read]
    /\ Go(t, "sendBody", loc[t])
    /\ UNCHANGED <<bound, now, ghosts>>

SendBody(t) ==
    /\ pc[t] = "sendBody"
    /\ table' = [table EXCEPT ![loc[t].queue].slots[loc[t].slot].msg = loc[t].msg]
    /\ history' = Append(history, loc[t].msg)
    /\ Go(t, "sendCountRead", loc[t])
    /\ UNCHANGED <<bound, now, lives, raced>>

(* mq->curmsgs++ and mq->curmsgs-- are a read and a write.                    *)
SendCountRead(t) ==
    /\ pc[t] = "sendCountRead"
    /\ Go(t, "sendCount", [loc[t] EXCEPT !.read = Mq(t).curmsgs])
    /\ UNCHANGED <<table, bound, now, ghosts>>

SendCount(t) ==
    /\ pc[t] = "sendCount"
    /\ table' = [table EXCEPT ![loc[t].queue].curmsgs = (loc[t].read + 1) % Word]
    /\ Collision(t, Mq(t).curmsgs # loc[t].read)
    /\ Go(t, "idle", Idle)
    /\ UNCHANGED <<bound, now, history, lives>>

-----------------------------------------------------------------------------
(* __psx_mq_recv_locked.                                                      *)

ReceiveTry(t) ==
    /\ pc[t] = "try" /\ loc[t].op = "receive" /\ MayEnter(t)
    /\ Go(t, IF Mq(t).curmsgs = 0 THEN "again" ELSE "receiveScan", loc[t])
    /\ UNCHANGED <<table, bound, now, ghosts>>

(* The scan starts from priority 0 and the highest sequence number, so that a *)
(* message of exactly these is never better than none.                        *)
PrioOf(s) == IF s.msg = None THEN 0 ELSE Prio[s.msg]

(* Mutant: the newest of the messages of one priority wins.                   *)
BetterNewest(s, prio, seq) ==
    PrioOf(s) > prio \/ (PrioOf(s) = prio /\ (s.seq > seq \/ seq = LastSeq))

Better(s, prio, seq) ==
    PrioOf(s) > prio \/ (PrioOf(s) = prio /\ s.seq < seq)

Best(q) ==
    LET slots == table[q].slots
        candidates == {i \in Places : slots[i].used /\ Better(slots[i], 0, LastSeq)} IN
    {i \in candidates :
        \A j \in candidates : ~ Better(slots[j], PrioOf(slots[i]), slots[i].seq)}

ReceiveScan(t) ==
    /\ pc[t] = "receiveScan"
    /\ IF Best(loc[t].queue) = {}
       THEN Go(t, "again", loc[t])
       ELSE Go(t, IF loc[t].fits THEN "receiveCopy" ELSE "idle",
               [loc[t] EXCEPT !.slot = Lowest(Best(loc[t].queue))])
    /\ UNCHANGED <<table, bound, now, ghosts>>

ReceiveCopy(t) ==
    /\ pc[t] = "receiveCopy"
    /\ Go(t, "receiveClear", [loc[t] EXCEPT !.msg = Mq(t).slots[loc[t].slot].msg])
    /\ UNCHANGED <<table, bound, now, ghosts>>

(* Mutant: the slot stays filled after its message is copied out.             *)
ReceiveKeeps(t) ==
    /\ pc[t] = "receiveClear"
    /\ Go(t, "receiveCountRead", loc[t])
    /\ UNCHANGED <<table, bound, now, ghosts>>

(* Mutant: a receive that finds a message does not count it out.              *)
ReceiveCountForgotten(t) ==
    /\ pc[t] = "receiveCount"
    /\ Go(t, "idle", Idle)
    /\ UNCHANGED <<table, bound, now, ghosts>>

ReceiveClear(t) ==
    /\ pc[t] = "receiveClear"
    /\ table' = [table EXCEPT ![loc[t].queue].slots[loc[t].slot].used = FALSE]
    /\ Collision(t, ~ Mq(t).slots[loc[t].slot].used)
    /\ Go(t, "receiveCountRead", loc[t])
    /\ UNCHANGED <<bound, now, history, lives>>

ReceiveCountRead(t) ==
    /\ pc[t] = "receiveCountRead"
    /\ Go(t, "receiveCount", [loc[t] EXCEPT !.read = Mq(t).curmsgs])
    /\ UNCHANGED <<table, bound, now, ghosts>>

ReceiveCount(t) ==
    /\ pc[t] = "receiveCount"
    /\ table' = [table EXCEPT ![loc[t].queue].curmsgs = (loc[t].read - 1) % Word]
    /\ Collision(t, Mq(t).curmsgs # loc[t].read)
    /\ Go(t, "idle", Idle)
    /\ UNCHANGED <<bound, now, history, lives>>

-----------------------------------------------------------------------------
Call(t) ==
    \/ \E name \in Names, limit \in Limits, nonblock \in BOOLEAN :
          CallOpen(t, name, limit, nonblock)
    \/ \E name \in Names : CallUnlink(t, name)
    \/ \E q \in Queues :
          \/ \E nonblock \in BOOLEAN : CallSetattr(t, q, nonblock)
          \/ \E at \in {NoDeadline, MaxTime}, fits \in BOOLEAN :
                \/ CallReceive(t, q, at, fits)
                \/ \E m \in Msgs : CallSend(t, q, m, at, fits)

Work(t) ==
    \/ CreateScan(t) \/ CreateMark(t) \/ CreateFill(t)
    \/ OpenFlags(t) \/ OpenDesc(t) \/ OpenBind(t)
    \/ Again(t) \/ Delay(t)
    \/ SendTry(t) \/ SendScan(t) \/ SendMark(t) \/ SendSeqRead(t) \/ SendSeq(t)
    \/ SendBody(t) \/ SendCountRead(t) \/ SendCount(t)
    \/ ReceiveTry(t) \/ ReceiveScan(t) \/ ReceiveCopy(t) \/ ReceiveClear(t)
    \/ ReceiveCountRead(t) \/ ReceiveCount(t)

Next == Tick \/ \E t \in Threads : Call(t) \/ Work(t)

Spec == Init /\ [][Next]_vars

(* Threads inside a call are scheduled, and the clock goes on.                *)
FairSpec ==
    /\ Spec /\ WF_vars(Tick)
    /\ \A t \in Threads : WF_vars(Work(t))

-----------------------------------------------------------------------------
(* Properties.                                                                *)

Steps == Outside \cup {"createScan", "createMark", "createFill", "openFlags", "openDesc",
    "openBind", "sendScan", "sendMark", "sendSeqRead", "sendSeq", "sendBody",
    "sendCountRead", "sendCount", "receiveScan", "receiveCopy", "receiveClear",
    "receiveCountRead", "receiveCount"}

(* No counter leaves its range: a queue never holds more messages than its    *)
(* limit, and the count never falls below zero.                               *)
TypeOK ==
    /\ \A q \in Queues :
         /\ table[q].maxmsg \in 0 .. Slots
         /\ table[q].curmsgs \in 0 .. table[q].maxmsg
         /\ table[q].nextSeq \in 0 .. LastSeq
         /\ table[q].slots \in [Places -> [used : BOOLEAN, seq : 0 .. LastSeq,
                                          msg : Msgs \cup {None}]]
    /\ bound \subseteq Queues /\ raced \subseteq Queues
    /\ pc \in [Threads -> Steps]

(* The slots that a send has marked and not filled yet.                       *)
Marked(q, i) ==
    \E t \in Threads : /\ pc[t] \in {"sendSeqRead", "sendSeq", "sendBody"}
                       /\ loc[t].queue = q /\ loc[t].slot = i

(* The messages of queue q in the order in which they were sent.              *)
Pending(q) ==
    SelectSeq(history, LAMBDA m :
        \E i \in Filled(q) : table[q].slots[i].msg = m /\ ~ Marked(q, i))

(* curmsgs is the number of filled slots whenever no call is at work on the   *)
(* queue: no message is lost under the counter, and none is counted twice.    *)
CountExact ==
    \A q \in Queues :
        (\A t \in Threads : loc[t].queue = q => pc[t] \in Outside)
            => table[q].curmsgs = Cardinality(Filled(q))

(* What the slots of a queue and the calls between say the count should be.   *)
Due(q) == Cardinality(Filled(q)) + Cardinality(Leaving(q)) - Cardinality(Arriving(q))

(* Until two calls have collided on a queue, curmsgs is its filled slots, but *)
(* for the calls between their slot and their count, however the bodies of    *)
(* calls overlap: nothing else can make the counter drift.  A collision is a  *)
(* slot that two have picked, a count that was stale when it was written      *)
(* (_mq.c:203-216, 248-267), or a queue made anew (l.132) between slot and    *)
(* count of a call that works on the entry.                                   *)
CountBalanced == \A q \in Queues \ raced : (Due(q) - table[q].curmsgs) % Word = 0

(* A table of one queue is a bounded priority queue: the steps of the calls   *)
(* amount to its operations, at the fill and the release of a slot.           *)
LargestRoom ==
    CHOOSE n \in 1 .. Slots : /\ \E k \in Limits : n = Capped(k)
                              /\ \A k \in Limits : Capped(k) <= n

Abstract == INSTANCE PriorityQueue WITH queue <- Pending(1), Room <- LargestRoom

ImplementsQueue == Abstract!QueueSpec

(* A call that has a deadline returns, whatever the other threads do.         *)
TimedCallsReturn ==
    \A t \in Threads : loc[t].at # NoDeadline ~> pc[t] = "idle"
=============================================================================
