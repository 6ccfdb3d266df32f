------------------------------ MODULE SysvMsg ------------------------------
(* System V message queues of psxscl: a static table of queues of slots.      *)
(* msgsnd marks a slot, fills it and counts it; msgrcv picks a slot, clears   *)
(* and uncounts it; both poll when they cannot go on.  Nothing is locked: each*)
(* access is a step.  msgget and msgctl are one step each.                    *)
EXTENDS Integers, FiniteSets, IpcTable

CONSTANTS
    Threads,        \* threads of the process
    Keys,           \* keys of msgget
    Slots,          \* PSX_MSG_SLOTS
    Msgs, Type,     \* messages, Type[m] > 0
    Sels,           \* selections of msgrcv: [kind, type]
    MaxSeq,         \* bound on the objects made
    Serialised      \* the bodies of sends and receives do not overlap

Places == 1 .. Slots
Nothing == 0

VARIABLES
    queues,     \* __psx_msqs: used, seq, key, qnum, slot; life: which queue (history)
    ipcSeq,     \* __psx_ipc_seq
    pc, loc,    \* the next step and the locals of each thread's call
    ids,        \* identifiers that msgget has returned: [id, life]
    got         \* history: the last receive, its selection and its message

vars == <<queues, ipcSeq, pc, loc, ids, got>>

(* What memset leaves in a slot.                                              *)
NoMsg == 0
Empty == [used |-> FALSE, msg |-> NoMsg]
Idle == [q |-> 0, msg |-> NoMsg, sel |-> [kind |-> "any", type |-> 0], nowait |-> FALSE,
         s |-> Nothing]

Init ==
    /\ queues = [e \in Entries |-> [used |-> FALSE, seq |-> 0, key |-> 0, qnum |-> 0,
                                    slot |-> [s \in Places |-> Empty], life |-> 0]]
    /\ ipcSeq = 0 /\ ids = {} /\ got = <<>>
    /\ pc = [t \in Threads |-> "idle"] /\ loc = [t \in Threads |-> Idle]

Go(t, step, l) ==
    /\ pc' = [pc EXCEPT ![t] = step]
    /\ loc' = [loc EXCEPT ![t] = IF step = "idle" THEN Idle ELSE l]

MayEnter(t) == Serialised => \A r \in Threads \ {t} : pc[r] \in {"idle", "send", "receive"}

Slot(t) == queues[loc[t].q].slot
UsedSlots(t) == {s \in Places : Slot(t)[s].used}

-----------------------------------------------------------------------------
(* Mutant: the entry is made without a memset.                                *)
CallMsggetDirty(t, key) ==
    /\ pc[t] = "idle" /\ MayEnter(t)
    /\ Known(queues, key) = {} /\ Free(queues) # {} /\ ipcSeq < MaxSeq
    /\ LET e == First(Free(queues)) IN
       /\ queues' = [queues EXCEPT ![e].used = TRUE, ![e].seq = ipcSeq + 1, ![e].key = key,
                                   ![e].qnum = 0, ![e].life = ipcSeq + 1]
       /\ ids' = ids \cup {[id |-> IpcId(e, ipcSeq + 1), life |-> ipcSeq + 1]}
    /\ ipcSeq' = ipcSeq + 1
    /\ UNCHANGED <<pc, loc, got>>

(* msgget: the queue of the key, or a new one in the first free entry.        *)
CallMsgget(t, key) ==
    /\ pc[t] = "idle" /\ MayEnter(t)
    /\ \/ /\ Known(queues, key) # {}
          /\ LET e == First(Known(queues, key)) IN
             ids' = ids \cup {[id |-> IpcId(e, queues[e].seq), life |-> queues[e].life]}
          /\ UNCHANGED <<queues, ipcSeq>>
       \/ /\ Known(queues, key) = {} /\ Free(queues) # {} /\ ipcSeq < MaxSeq
          /\ LET e == First(Free(queues)) IN
             /\ queues' = [queues EXCEPT ![e] =
                    [used |-> TRUE, seq |-> ipcSeq + 1, key |-> key, qnum |-> 0,
                     slot |-> [s \in Places |-> Empty], life |-> ipcSeq + 1]]
             /\ ids' = ids \cup {[id |-> IpcId(e, ipcSeq + 1), life |-> ipcSeq + 1]}
          /\ ipcSeq' = ipcSeq + 1
    /\ UNCHANGED <<pc, loc, got>>

(* The sequence number is shared with the other two tables.                   *)
OtherObject ==
    /\ ipcSeq < MaxSeq
    /\ ipcSeq' = ipcSeq + 1
    /\ UNCHANGED <<queues, pc, loc, ids, got>>

(* msgctl with IPC_RMID: the messages stay in the entry, and so do the calls  *)
(* that wait in it.                                                           *)
CallRmid(t, h) ==
    /\ pc[t] = "idle" /\ MayEnter(t)
    /\ \E e \in FromId(queues, h.id) : queues' = [queues EXCEPT ![e].used = FALSE]
    /\ UNCHANGED <<ipcSeq, pc, loc, ids, got>>

-----------------------------------------------------------------------------
CallSend(t, h, m, nowait) ==
    /\ pc[t] = "idle"
    /\ \E e \in FromId(queues, h.id) :
           Go(t, "send", [Idle EXCEPT !.q = e, !.msg = m, !.nowait = nowait])
    /\ UNCHANGED <<queues, ipcSeq, ids, got>>

(* The first slot that is not used; without one the call polls or gives up.   *)
SendTry(t) ==
    /\ pc[t] = "send" /\ MayEnter(t)
    /\ LET free == Places \ UsedSlots(t) IN
       IF free # {} THEN Go(t, "mark", [loc[t] EXCEPT !.s = First(free)])
                    ELSE loc[t].nowait /\ Go(t, "idle", Idle)
    /\ UNCHANGED <<queues, ipcSeq, ids, got>>

SendMark(t) ==
    /\ pc[t] = "mark"
    /\ queues' = [queues EXCEPT ![loc[t].q].slot[loc[t].s].used = TRUE]
    /\ Go(t, "fill", loc[t])
    /\ UNCHANGED <<ipcSeq, ids, got>>

SendFill(t) ==
    /\ pc[t] = "fill"
    /\ queues' = [queues EXCEPT ![loc[t].q].slot[loc[t].s].msg = loc[t].msg]
    /\ Go(t, "count", loc[t])
    /\ UNCHANGED <<ipcSeq, ids, got>>

SendCount(t) ==
    /\ pc[t] = "count"
    /\ queues' = [queues EXCEPT ![loc[t].q].qnum = @ + 1]
    /\ Go(t, "idle", Idle)
    /\ UNCHANGED <<ipcSeq, ids, got>>

-----------------------------------------------------------------------------
CallReceive(t, h, sel, nowait) ==
    /\ pc[t] = "idle"
    /\ \E e \in FromId(queues, h.id) :
           Go(t, "receive", [Idle EXCEPT !.q = e, !.sel = sel, !.nowait = nowait])
    /\ UNCHANGED <<queues, ipcSeq, ids, got>>

TypeAt(t, s) == Type[Slot(t)[s].msg]

(* Mutant: a negative type takes the first message up to it.                  *)
MatchingFirstLow(t) ==
    LET sel == loc[t].sel
        used == UsedSlots(t)
    IN
    CASE sel.kind = "any" -> used
      [] sel.kind = "of" -> {s \in used : TypeAt(t, s) = sel.type}
      [] sel.kind = "except" -> {s \in used : TypeAt(t, s) # sel.type}
      [] sel.kind = "upto" -> {s \in used : TypeAt(t, s) <= sel.type}

(* __psx_msq_pick: the slots it may return the first of.                      *)
Matching(t) ==
    LET sel == loc[t].sel
        used == UsedSlots(t)
        low == {s \in used : TypeAt(t, s) <= sel.type}
    IN
    CASE sel.kind = "any" -> used
      [] sel.kind = "of" -> {s \in used : TypeAt(t, s) = sel.type}
      [] sel.kind = "except" -> {s \in used : TypeAt(t, s) # sel.type}
      [] sel.kind = "upto" -> {s \in low : \A r \in low : TypeAt(t, s) <= TypeAt(t, r)}

(* The message may be too long for the buffer: without MSG_NOERROR the call   *)
(* then fails, and the message stays.                                         *)
ReceiveTry(t) ==
    /\ pc[t] = "receive" /\ MayEnter(t)
    /\ IF Matching(t) # {}
       THEN \/ Go(t, "clear", [loc[t] EXCEPT !.s = First(Matching(t)),
                                             !.msg = Slot(t)[First(Matching(t))].msg])
            \/ Go(t, "idle", Idle)
       ELSE loc[t].nowait /\ Go(t, "idle", Idle)
    /\ UNCHANGED <<queues, ipcSeq, ids, got>>

ReceiveClear(t) ==
    /\ pc[t] = "clear"
    /\ queues' = [queues EXCEPT ![loc[t].q].slot[loc[t].s].used = FALSE]
    /\ got' = <<loc[t].sel, loc[t].msg>>
    /\ Go(t, "uncount", loc[t])
    /\ UNCHANGED <<ipcSeq, ids>>

ReceiveUncount(t) ==
    /\ pc[t] = "uncount"
    /\ queues' = [queues EXCEPT ![loc[t].q].qnum = @ - 1]
    /\ Go(t, "idle", Idle)
    /\ UNCHANGED <<ipcSeq, ids, got>>

-----------------------------------------------------------------------------
Call(t) ==
    \/ \E key \in Keys : CallMsgget(t, key)
    \/ \E h \in ids :
         \/ CallRmid(t, h)
         \/ \E nowait \in BOOLEAN :
              \/ \E m \in Msgs : CallSend(t, h, m, nowait)
              \/ \E sel \in Sels : CallReceive(t, h, sel, nowait)

Work(t) ==
    \/ SendTry(t) \/ SendMark(t) \/ SendFill(t) \/ SendCount(t)
    \/ ReceiveTry(t) \/ ReceiveClear(t) \/ ReceiveUncount(t)

Next == OtherObject \/ \E t \in Threads : Call(t) \/ Work(t)

Spec == Init /\ [][Next]_vars

-----------------------------------------------------------------------------
(* An identifier that msgget has returned denotes the queue it was returned   *)
(* for or none, however often the entry is used again (l.14-15).              *)
IdsNameOneQueue ==
    \A h \in ids : \A e \in FromId(queues, h.id) : queues[e].life = h.life

(* The slots that hold a message: marked, and filled.                         *)
Full(e) ==
    {s \in Places : /\ queues[e].slot[s].used
                    /\ \A t \in Threads : ~ (/\ pc[t] = "fill"
                                             /\ loc[t].q = e /\ loc[t].s = s)}

(* msg_qnum, which IPC_STAT reports, is the number of messages, but for the   *)
(* calls that are changing it.                                                *)
QnumExact ==
    \A e \in Entries :
        queues[e].qnum = Cardinality(Full(e))
                         - Cardinality({t \in Threads : pc[t] = "count" /\ loc[t].q = e})
                         + Cardinality({t \in Threads : pc[t] = "uncount" /\ loc[t].q = e})

(* Sends and receives whose bodies do not overlap, polling for each other and *)
(* on while the queue is removed and its entry used again, are those of a     *)
(* bounded box that gives each message once, to a receive that selects it.    *)
Box == INSTANCE MessageBox WITH
    Room <- Slots,
    held <- [m \in Msgs |-> Cardinality({s \in Full(0) : queues[0].slot[s].msg = m})]

ImplementsBox == Box!BoxSpec
=============================================================================
