------------------------------ MODULE SysvShm ------------------------------
(* System V shared memory of psxscl: a static table of segments, each with    *)
(* its buffer, so that an attachment is the address of the entry.  shmat and  *)
(* shmdt count attachments with a read and a write; shmget and shmctl are one *)
(* step each.                                                                 *)
EXTENDS Integers, FiniteSets, IpcTable

CONSTANTS
    Threads,        \* threads of the process
    Keys, Sizes,    \* keys and sizes of shmget
    MaxSeq,         \* bound on the objects made
    MaxAttached,    \* bound on the attachments of a thread
    Serialised,     \* shmat and shmdt do not overlap
    Settled         \* a segment is removed only when nobody is attached to it

VARIABLES
    segs,       \* __psx_shms: used, seq, key, size, nattch; life: which one (history)
    ipcSeq,     \* __psx_ipc_seq
    pc, loc,    \* the next step and the locals of each thread's call
    ids,        \* identifiers that shmget has returned: [id, life]
    attached    \* history: attached[t][e]: attachments of t to entry e it can detach

vars == <<segs, ipcSeq, pc, loc, ids, attached>>

Idle == [e |-> 0, read |-> 0]

Init ==
    /\ segs = [e \in Entries |-> [used |-> FALSE, seq |-> 0, key |-> 0, size |-> 0,
                                  nattch |-> 0, life |-> 0]]
    /\ ipcSeq = 0 /\ ids = {}
    /\ pc = [t \in Threads |-> "idle"] /\ loc = [t \in Threads |-> Idle]
    /\ attached = [t \in Threads |-> [e \in Entries |-> 0]]

Go(t, step, l) ==
    /\ pc' = [pc EXCEPT ![t] = step]
    /\ loc' = [loc EXCEPT ![t] = IF step = "idle" THEN Idle ELSE l]

MayEnter(t) == Serialised => \A r \in Threads \ {t} : pc[r] = "idle"
Attachments(e) ==
    Cardinality({p \in Threads \X (1 .. MaxAttached) : p[2] <= attached[p[1]][e]})

-----------------------------------------------------------------------------
(* Mutant: the counter of the entry's last segment is kept.                   *)
CallShmgetDirty(t, key, size) ==
    /\ pc[t] = "idle" /\ MayEnter(t)
    /\ Known(segs, key) = {} /\ Free(segs) # {} /\ ipcSeq < MaxSeq
    /\ LET e == First(Free(segs)) IN
       /\ segs' = [segs EXCEPT ![e] = [used |-> TRUE, seq |-> 0, key |-> key,
                      size |-> size, nattch |-> @.nattch, life |-> ipcSeq + 1]]
       /\ ids' = ids \cup {[id |-> IpcId(e, 0), life |-> ipcSeq + 1]}
    /\ ipcSeq' = ipcSeq + 1
    /\ UNCHANGED <<pc, loc, attached>>

(* A segment of the key that is large enough, or a new one.                   *)
CallShmget(t, key, size) ==
    /\ pc[t] = "idle" /\ MayEnter(t)
    /\ \/ /\ Known(segs, key) # {}
          /\ LET e == First(Known(segs, key)) IN
             /\ size <= segs[e].size
             /\ ids' = ids \cup {[id |-> IpcId(e, segs[e].seq), life |-> segs[e].life]}
          /\ UNCHANGED <<segs, ipcSeq>>
       \/ /\ Known(segs, key) = {} /\ Free(segs) # {} /\ ipcSeq < MaxSeq
          /\ LET e == First(Free(segs)) IN
             /\ segs' = [segs EXCEPT ![e] = [used |-> TRUE, seq |-> ipcSeq + 1, key |-> key,
                            size |-> size, nattch |-> 0, life |-> ipcSeq + 1]]
             /\ ids' = ids \cup {[id |-> IpcId(e, ipcSeq + 1), life |-> ipcSeq + 1]}
          /\ ipcSeq' = ipcSeq + 1
    /\ UNCHANGED <<pc, loc, attached>>

(* The entry is free at once, also under attachments.                         *)
CallRmid(t, h) ==
    /\ pc[t] = "idle" /\ MayEnter(t)
    /\ \E e \in FromId(segs, h.id) :
         /\ Settled => Attachments(e) = 0
         /\ segs' = [segs EXCEPT ![e].used = FALSE]
    /\ UNCHANGED <<ipcSeq, pc, loc, ids, attached>>

-----------------------------------------------------------------------------
CallAttach(t, h) ==
    /\ pc[t] = "idle" /\ MayEnter(t)
    /\ \E e \in FromId(segs, h.id) :
         /\ attached[t][e] < MaxAttached
         /\ Go(t, "attach", [e |-> e, read |-> segs[e].nattch])
    /\ UNCHANGED <<segs, ipcSeq, ids, attached>>

Attach(t) ==
    /\ pc[t] = "attach"
    /\ segs' = [segs EXCEPT ![loc[t].e].nattch = loc[t].read + 1]
    /\ attached' = [attached EXCEPT ![t][loc[t].e] = @ + 1]
    /\ Go(t, "idle", Idle)
    /\ UNCHANGED <<ipcSeq, ids>>

(* shmdt looks for the used segment the address lies in; none of size 0 has   *)
(* one, so that its attachments stay.                                         *)
CallDetach(t, e) ==
    /\ pc[t] = "idle" /\ MayEnter(t) /\ attached[t][e] > 0
    /\ segs[e].used /\ segs[e].size > 0
    /\ Go(t, "detach", [e |-> e, read |-> segs[e].nattch])
    /\ UNCHANGED <<segs, ipcSeq, ids, attached>>

Detach(t) ==
    /\ pc[t] = "detach"
    /\ segs' = [segs EXCEPT ![loc[t].e].nattch = IF loc[t].read > 0 THEN loc[t].read - 1 ELSE @]
    /\ attached' = [attached EXCEPT ![t][loc[t].e] = @ - 1]
    /\ Go(t, "idle", Idle)
    /\ UNCHANGED <<ipcSeq, ids>>

-----------------------------------------------------------------------------
Next ==
    \E t \in Threads :
        \/ \E key \in Keys, size \in Sizes : CallShmget(t, key, size)
        \/ \E h \in ids : CallRmid(t, h) \/ CallAttach(t, h)
        \/ \E e \in Entries : CallDetach(t, e)
        \/ Attach(t) \/ Detach(t)

Spec == Init /\ [][Next]_vars

-----------------------------------------------------------------------------
(* An identifier that shmget has returned denotes the segment it was returned *)
(* for or none, however often the entry is used again (l.14-15).              *)
IdsNameOneSegment ==
    \A h \in ids : \A e \in FromId(segs, h.id) : segs[e].life = h.life

(* shm_nattch is the number of attachments that a shmdt can give up, through  *)
(* the removal of segments and the reuse of their entries.                    *)
NattchExact == \A e \in Entries : segs[e].used => segs[e].nattch = Attachments(e)
=============================================================================
