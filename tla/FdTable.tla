------------------------------ MODULE FdTable ------------------------------
(* The descriptor table of psxscl: fd slots that name open file descriptions  *)
(* (ofds), both handed out by block allocators and kept alive by counters.    *)
(* Every shared access is a step, so that calls of several threads interleave *)
(* as they do in the code.  The allocators are the abstract pool of BlockPool *)
(* (see Blitter): a free block is taken or given back in one step, and a      *)
(* caller may be refused at any time.  The bitmaps are longer than the        *)
(* tables: a number or a description behind the end of its table is memory    *)
(* outside, and a call that touches it ends the process ("outside").          *)
EXTENDS Integers, FiniteSets

CONSTANTS
    Threads,        \* threads of the process
    FdCap,          \* ctx->fd_cap
    OfdCap,         \* ctx->ofd_cap
    StdFds,         \* descriptors open at start, fd i on ofd i
    Ops,            \* Ops[t]: the system calls that thread t makes
    Disciplined,    \* no thread closes a descriptor that another one uses
    MaxLost         \* bound: references to one description that nobody drops

ASSUME CapsAssumption ==
    /\ FdCap \in Nat \ {0} /\ OfdCap \in Nat \ {0}
    /\ OfdCap <= FdCap
    /\ StdFds \subseteq 0 .. (OfdCap - 1)
ASSUME ThreadsAssumption == IsFiniteSet(Threads)
ASSUME DisciplineAssumption == Disciplined \in BOOLEAN
ASSUME LostAssumption == MaxLost \in Nat

AllOps == {"open", "use", "close", "fcntl", "dup", "dup3", "dup3same", "pipe", "mqopen"}
ASSUME OpsAssumption == Ops \in [Threads -> SUBSET AllOps]

Fds == 0 .. (FdCap - 1)
Ofds == 0 .. (OfdCap - 1)
None == -2

(* What callers pass: -1 stands for all that __psx_fd_ref_inc refuses; FdCap, *)
(* the first number that is not in the table, is not refused.                 *)
Args == -1 .. FdCap

VARIABLES
    fdFree,     \* fd bitmap
    ofdFree,    \* ofd bitmap
    slot,       \* fd_slots: ofdidx, refcnt, invalid
    oref,       \* ofd_slots[o].info.refcnt
    pc,         \* pc[t]: the next shared access of thread t
    loc,        \* loc[t]: the locals of t's call
    lost        \* history: the numbers, and for each description the
                \* references, that calls have left behind

vars == <<fdFree, ofdFree, slot, oref, pc, loc, lost>>
tables == <<fdFree, ofdFree, slot, oref, lost>>

(* op: the system call; fd, dst: the descriptors it reads and makes; arg: the *)
(* argument of the reference routine; ofd: the description it holds; new: the *)
(* description to store; ok, no, after: where the routines return to.         *)
Idle == [op |-> "none", fd |-> None, dst |-> None, arg |-> None, ofd |-> None,
         new |-> None, ok |-> "idle", no |-> "idle", after |-> "idle"]

-----------------------------------------------------------------------------
(* psx_init_ofd: the standard streams are open, every other slot is invalid.  *)
Init ==
    /\ fdFree = Fds \ StdFds
    /\ ofdFree = Ofds \ StdFds
    /\ slot = [f \in Fds |-> [ofd |-> IF f \in StdFds THEN f ELSE 0,
                              ref |-> 0, invalid |-> f \notin StdFds]]
    /\ oref = [o \in Ofds |-> IF o \in StdFds THEN 1 ELSE 0]
    /\ pc = [t \in Threads |-> "idle"]
    /\ loc = [t \in Threads |-> Idle]
    /\ lost = [fds |-> {}, refs |-> [o \in Ofds |-> 0]]

Go(t, step, l) ==
    /\ pc' = [pc EXCEPT ![t] = step]
    /\ loc' = [loc EXCEPT ![t] = IF step = "idle" THEN Idle ELSE l]

LoseFds(fs) == lost' = [lost EXCEPT !.fds = @ \cup fs]
LoseRef(o) == lost' = [lost EXCEPT !.refs[o] = @ + 1]

(* A thread that touched memory outside, or read through a null description,  *)
(* has ended the process: nothing in psxscl handles the exception.            *)
Overrun == \E t \in Threads : pc[t] = "outside"
Ended == \E t \in Threads : pc[t] \in {"outside", "fault"}

(* The clients' contract: no descriptor is closed while another thread's call *)
(* works on it.  A call on f starts while no other thread closes f, and a     *)
(* close of f while no call of another thread is on it.                       *)
Users == {"use", "fcntl", "dup", "dup3", "mqopen"}

Quiet(t, f, ops) ==
    Disciplined => \A s \in Threads \ {t} :
        loc[s].op \in ops => f \notin {loc[s].fd, loc[s].dst}

-----------------------------------------------------------------------------
(* __psx_fd_ref_inc: continues at loc.ok with a reference, at loc.no without. *)
(* The range test lets FdCap through: the word behind the table is read, and  *)
(* either refuses the caller or sends it outside (see LeaveTables).           *)
RefCheck(t) ==
    /\ pc[t] = "refCheck"
    /\ LET f == loc[t].arg IN
       Go(t, IF f \in Fds /\ ~ slot[f].invalid THEN "refInc" ELSE loc[t].no, loc[t])
    /\ UNCHANGED tables

RefInc(t) ==
    /\ pc[t] = "refInc"
    /\ slot' = [slot EXCEPT ![loc[t].arg].ref = @ + 1]
    /\ Go(t, "refRecheck", loc[t])
    /\ UNCHANGED <<fdFree, ofdFree, oref, lost>>

RefRecheck(t) ==
    /\ pc[t] = "refRecheck"
    /\ Go(t, IF slot[loc[t].arg].invalid THEN "refUndo" ELSE loc[t].ok, loc[t])
    /\ UNCHANGED tables

RefUndo(t) ==
    /\ pc[t] = "refUndo"
    /\ slot' = [slot EXCEPT ![loc[t].arg].ref = @ - 1]
    /\ Go(t, loc[t].no, loc[t])
    /\ UNCHANGED <<fdFree, ofdFree, oref, lost>>

(* __psx_ofd_ref_inc: continues at loc.after, holding loc.ofd or NULL.        *)
EnterOfdRef(t, f, l) ==
    Go(t, "refCheck", [l EXCEPT !.arg = f, !.ok = "ofdRead", !.no = l.after])

OfdRead(t) ==
    /\ pc[t] = "ofdRead"
    /\ Go(t, "ofdInc", [loc[t] EXCEPT !.ofd = slot[loc[t].arg].ofd])
    /\ UNCHANGED tables

OfdInc(t) ==
    /\ pc[t] = "ofdInc"
    /\ oref' = [oref EXCEPT ![loc[t].ofd] = @ + 1]
    /\ Go(t, "ofdRefDone", loc[t])
    /\ UNCHANGED <<fdFree, ofdFree, slot, lost>>

(* Mutant: the transient reference to the descriptor is never dropped.        *)
OfdRefKept(t) ==
    /\ pc[t] = "ofdRefDone"
    /\ Go(t, loc[t].after, loc[t])
    /\ UNCHANGED tables

OfdRefDone(t) ==
    /\ pc[t] = "ofdRefDone"
    /\ slot' = [slot EXCEPT ![loc[t].arg].ref = @ - 1]
    /\ Go(t, loc[t].after, loc[t])
    /\ UNCHANGED <<fdFree, ofdFree, oref, lost>>

(* Mutant: the description is freed when one reference is left.               *)
OfdDecOffByOne(t) ==
    /\ pc[t] = "ofdDec"
    /\ LET o == loc[t].ofd IN
       IF o = None
       THEN Go(t, "fault", loc[t]) /\ UNCHANGED oref
       ELSE /\ oref' = [oref EXCEPT ![o] = @ - 1]
            /\ Go(t, IF oref[o] <= 2 THEN "ofdClear" ELSE loc[t].after, loc[t])
    /\ UNCHANGED <<fdFree, ofdFree, slot, lost>>

(* __psx_ofd_ref_dec and __psx_ofd_free; a null description faults.           *)
OfdDec(t) ==
    /\ pc[t] = "ofdDec"
    /\ LET o == loc[t].ofd IN
       IF o = None
       THEN Go(t, "fault", loc[t]) /\ UNCHANGED oref
       ELSE /\ oref' = [oref EXCEPT ![o] = @ - 1]
            /\ Go(t, IF oref[o] = 1 THEN "ofdClear" ELSE loc[t].after, loc[t])
    /\ UNCHANGED <<fdFree, ofdFree, slot, lost>>

OfdClear(t) ==
    /\ pc[t] = "ofdClear"
    /\ oref' = [oref EXCEPT ![loc[t].ofd] = 0]
    /\ Go(t, "ofdRelease", loc[t])
    /\ UNCHANGED <<fdFree, ofdFree, slot, lost>>

OfdRelease(t) ==
    /\ pc[t] = "ofdRelease"
    /\ ofdFree' = ofdFree \cup {loc[t].ofd}
    /\ Go(t, loc[t].after, loc[t])
    /\ UNCHANGED <<fdFree, slot, oref, lost>>

-----------------------------------------------------------------------------
(* A system call on an open description: read, write, fstat, the calls on a   *)
(* message queue and the others take the description, use it and drop it.     *)

CallUse(t, f) ==
    /\ "use" \in Ops[t] /\ pc[t] = "idle"
    /\ Quiet(t, f, {"close", "dup3"})
    /\ EnterOfdRef(t, f, [Idle EXCEPT !.op = "use", !.fd = f, !.after = "using"])
    /\ UNCHANGED tables

(* A read or write whose prolog cannot make its event returns at once, and    *)
(* the reference is never dropped.                                            *)
Using(t) ==
    /\ pc[t] = "using"
    /\ LET o == loc[t].ofd IN
       \/ o = None /\ Go(t, "idle", Idle) /\ UNCHANGED lost
       \/ o # None /\ Go(t, "ofdDec", [loc[t] EXCEPT !.after = "idle"]) /\ UNCHANGED lost
       \/ /\ o # None /\ lost.refs[o] < MaxLost
          /\ LoseRef(o) /\ Go(t, "idle", Idle)
    /\ UNCHANGED <<fdFree, ofdFree, slot, oref>>

(* Mutant: close goes on when the descriptor is not open.                     *)
CallCloseAlways(t, f) ==
    /\ f \in Fds /\ "close" \in Ops[t] /\ pc[t] = "idle"
    /\ Quiet(t, f, Users)
    /\ slot' = [slot EXCEPT ![f].invalid = TRUE]
    /\ Go(t, "closeRead", [Idle EXCEPT !.op = "close", !.fd = f])
    /\ UNCHANGED <<fdFree, ofdFree, oref, lost>>

(* __sys_close and __psx_fd_free: the description is dropped first, then the  *)
(* references of other threads are waited for, then the number is released.   *)
(* A number outside the table is refused, or ends the process (CallOutside).  *)
CallClose(t, f) ==
    /\ "close" \in Ops[t] /\ pc[t] = "idle"
    /\ Quiet(t, f, Users)
    /\ IF f \notin Fds \/ slot[f].invalid
       THEN UNCHANGED <<slot, pc, loc>>
       ELSE /\ slot' = [slot EXCEPT ![f].invalid = TRUE]
            /\ Go(t, "closeRead", [Idle EXCEPT !.op = "close", !.fd = f])
    /\ UNCHANGED <<fdFree, ofdFree, oref, lost>>

CloseRead(t) ==
    /\ pc[t] = "closeRead"
    /\ Go(t, "ofdDec", [loc[t] EXCEPT !.ofd = slot[loc[t].fd].ofd,
                                      !.after = "closeSpin"])
    /\ UNCHANGED tables

CloseSpin(t) ==
    /\ pc[t] = "closeSpin"
    /\ Go(t, IF slot[loc[t].fd].ref = 0 THEN "closeRelease" ELSE "closeSpin", loc[t])
    /\ UNCHANGED tables

CloseRelease(t) ==
    /\ pc[t] = "closeRelease"
    /\ fdFree' = fdFree \cup {loc[t].fd}
    /\ Go(t, "idle", Idle)
    /\ UNCHANGED <<ofdFree, slot, oref, lost>>

-----------------------------------------------------------------------------
(* Storing a new descriptor: ofdidx, refcnt and invalid, one after the other. *)

StoreOfd(t) ==
    /\ pc[t] = "storeOfd"
    /\ slot' = [slot EXCEPT ![loc[t].dst].ofd = loc[t].new]
    /\ Go(t, "storeRef", loc[t])
    /\ UNCHANGED <<fdFree, ofdFree, oref, lost>>

(* What each call does between the store of refcnt and that of invalid.       *)
StoreRef(t) ==
    /\ pc[t] = "storeRef"
    /\ slot' = [slot EXCEPT ![loc[t].dst].ref = 0]
    /\ \/ loc[t].op \in {"open", "pipe", "mqopen"} /\ Go(t, "storeValid", loc[t])
       \/ loc[t].op = "dup3" /\ Go(t, "refDrop", loc[t])
       \/ /\ loc[t].op = "dup"     \* the ofd index is taken for an fd index
          /\ EnterOfdRef(t, slot[loc[t].dst].ofd,
                         [loc[t] EXCEPT !.after = "storeValid"])
    /\ UNCHANGED <<fdFree, ofdFree, oref, lost>>

StoreValid(t) ==
    /\ pc[t] = "storeValid"
    /\ slot' = [slot EXCEPT ![loc[t].dst].invalid = FALSE]
    /\ \/ loc[t].op \in {"open", "dup3"} /\ Go(t, "idle", Idle)
       \/ loc[t].op = "mqopen" /\ Go(t, "mqBind", loc[t])
       \/ loc[t].op = "dup" /\ Go(t, "refDrop", loc[t])
       \/ /\ loc[t].op = "pipe"    \* the other end, then return
          /\ Go(t, IF loc[t].fd = None THEN "idle" ELSE "storeOfd",
                [loc[t] EXCEPT !.dst = loc[t].fd, !.new = loc[t].ofd,
                               !.fd = None, !.ofd = None])
    /\ UNCHANGED <<fdFree, ofdFree, oref, lost>>

(* __psx_fd_ref_dec on the source descriptor; dup3 then validates its target. *)
RefDrop(t) ==
    /\ pc[t] = "refDrop"
    /\ slot' = [slot EXCEPT ![loc[t].fd].ref = @ - 1]
    /\ Go(t, IF loc[t].op = "dup3" THEN "storeValid" ELSE "idle", loc[t])
    /\ UNCHANGED <<fdFree, ofdFree, oref, lost>>

-----------------------------------------------------------------------------
(* __openat: the description, then the number, then the slot.                 *)

CallOpen(t) ==
    /\ "open" \in Ops[t] /\ pc[t] = "idle"
    /\ \E o \in ofdFree :
        /\ ofdFree' = ofdFree \ {o}
        /\ Go(t, "openRef", [Idle EXCEPT !.op = "open", !.ofd = o, !.new = o])
    /\ UNCHANGED <<fdFree, slot, oref, lost>>

(* The rest of __psx_ofd_alloc: the event of a new description may fail, and  *)
(* the description is freed again.  mq_open then gives its number to          *)
(* __psx_fd_free, which refuses a slot that is not valid yet.                 *)
OpenRef(t) ==
    /\ pc[t] = "openRef"
    /\ oref' = [oref EXCEPT ![loc[t].ofd] = 1]
    /\ \/ /\ Go(t, IF loc[t].op = "open" THEN "openFd" ELSE "storeOfd", loc[t])
          /\ UNCHANGED lost
       \/ /\ LoseFds({loc[t].dst} \ {None})
          /\ Go(t, "ofdClear", [loc[t] EXCEPT !.dst = None])
    /\ UNCHANGED <<fdFree, ofdFree, slot>>

(* Without a number __open_cancel frees the description.                      *)
OpenFd(t) ==
    /\ pc[t] = "openFd"
    /\ \/ Go(t, "ofdClear", loc[t]) /\ UNCHANGED fdFree
       \/ \E f \in fdFree :
             /\ fdFree' = fdFree \ {f}
             /\ Go(t, "openTruncate", [loc[t] EXCEPT !.dst = f])
    /\ UNCHANGED <<ofdFree, slot, oref, lost>>

(* Mutant: a failed O_TRUNC forgets the number it has taken.                  *)
TruncateKeepsNumber(t) ==
    /\ pc[t] = "openTruncate"
    /\ \/ Go(t, "storeOfd", loc[t])
       \/ Go(t, "ofdClear", [loc[t] EXCEPT !.dst = None])
    /\ UNCHANGED tables

(* O_TRUNC may fail; __open_cancel then gives up the number as well.          *)
OpenTruncate(t) ==
    /\ pc[t] = "openTruncate"
    /\ \/ Go(t, "storeOfd", loc[t]) /\ UNCHANGED fdFree
       \/ /\ fdFree' = fdFree \cup {loc[t].dst}
          /\ Go(t, "ofdClear", [loc[t] EXCEPT !.dst = None])
    /\ UNCHANGED <<ofdFree, slot, oref, lost>>

-----------------------------------------------------------------------------
(* __sys_pipe: both descriptions, the pipe, both numbers, then both slots.    *)
(* new, dst are the read end, ofd, fd the write end.                          *)

CallPipe(t) ==
    /\ "pipe" \in Ops[t] /\ pc[t] = "idle"
    /\ \E o \in ofdFree :
        /\ ofdFree' = ofdFree \ {o}
        /\ Go(t, "pipeRef", [Idle EXCEPT !.op = "pipe", !.new = o, !.arg = o])
    /\ UNCHANGED <<fdFree, slot, oref, lost>>

(* As OpenRef; the first description is forgotten when the second one fails.  *)
PipeRef(t) ==
    /\ pc[t] = "pipeRef"
    /\ oref' = [oref EXCEPT ![loc[t].arg] = 1]
    /\ LET l == loc[t] IN
       \/ /\ Go(t, IF l.ofd = None THEN "pipeOfd" ELSE "pipeCreate", l)
          /\ UNCHANGED lost
       \/ /\ Go(t, "ofdClear", [l EXCEPT !.ofd = l.arg, !.new = None, !.arg = None,
                                          !.after = "idle"])
          /\ IF l.ofd = None THEN UNCHANGED lost ELSE LoseRef(l.new)
    /\ UNCHANGED <<fdFree, ofdFree, slot>>

(* Without a second description the first one is forgotten.                   *)
PipeOfd(t) ==
    /\ pc[t] = "pipeOfd"
    /\ \/ LoseRef(loc[t].new) /\ Go(t, "idle", Idle) /\ UNCHANGED ofdFree
       \/ \E o \in ofdFree :
             /\ ofdFree' = ofdFree \ {o}
             /\ Go(t, "pipeRef", [loc[t] EXCEPT !.ofd = o, !.arg = o])
             /\ UNCHANGED lost
    /\ UNCHANGED <<fdFree, slot, oref>>

(* ipc_create_pipe may fail.                                                  *)
PipeCreate(t) ==
    /\ pc[t] = "pipeCreate"
    /\ \/ Go(t, "pipeFd", loc[t])
       \/ Go(t, "pipeCancel", loc[t])
    /\ UNCHANGED tables

(* Without the second number, __psx_fd_free refuses the first one: its slot   *)
(* is invalid until the stores (nobody else may have published it).           *)
PipeFd(t) ==
    /\ pc[t] = "pipeFd"
    /\ \/ /\ LoseFds({loc[t].dst} \ {None})
          /\ Go(t, "pipeCancel", [loc[t] EXCEPT !.dst = None])
          /\ UNCHANGED fdFree
       \/ \E f \in fdFree :
             /\ fdFree' = fdFree \ {f}
             /\ IF loc[t].dst = None
                THEN Go(t, "pipeFd", [loc[t] EXCEPT !.dst = f])
                ELSE Go(t, "storeOfd", [loc[t] EXCEPT !.fd = f])
             /\ UNCHANGED lost
    /\ UNCHANGED <<ofdFree, slot, oref>>

(* __pipe_cancel frees the read end, then comes back for the write end.       *)
PipeCancel(t) ==
    /\ pc[t] = "pipeCancel"
    /\ LET l == loc[t] IN
       IF l.arg # None
       THEN Go(t, "ofdClear", [l EXCEPT !.ofd = l.new, !.new = l.ofd, !.arg = None,
                                        !.after = "pipeCancel"])
       ELSE Go(t, "ofdClear", [l EXCEPT !.ofd = l.new, !.new = None, !.after = "idle"])
    /\ UNCHANGED tables

-----------------------------------------------------------------------------
(* __sys_mq_open: the number, then the description (OpenRef), the slot, and   *)
(* after it is published the queue that the description stands for.           *)

CallMqOpen(t) ==
    /\ "mqopen" \in Ops[t] /\ pc[t] = "idle"
    /\ \E f \in fdFree :
        /\ fdFree' = fdFree \ {f}
        /\ Go(t, "mqOfd", [Idle EXCEPT !.op = "mqopen", !.dst = f])
    /\ UNCHANGED <<ofdFree, slot, oref, lost>>

(* Mutant: the number goes back although its slot was never valid.            *)
MqOfdGivesBack(t) ==
    /\ pc[t] = "mqOfd"
    /\ \/ LoseFds({loc[t].dst}) /\ fdFree' = fdFree \cup {loc[t].dst}
          /\ Go(t, "idle", Idle) /\ UNCHANGED ofdFree
       \/ \E o \in ofdFree :
             /\ ofdFree' = ofdFree \ {o}
             /\ Go(t, "openRef", [loc[t] EXCEPT !.ofd = o, !.new = o])
             /\ UNCHANGED <<fdFree, lost>>
    /\ UNCHANGED <<slot, oref>>

(* Without a description __psx_fd_free refuses the number, as in PipeFd.      *)
MqOfd(t) ==
    /\ pc[t] = "mqOfd"
    /\ \/ LoseFds({loc[t].dst}) /\ Go(t, "idle", Idle) /\ UNCHANGED ofdFree
       \/ \E o \in ofdFree :
             /\ ofdFree' = ofdFree \ {o}
             /\ Go(t, "openRef", [loc[t] EXCEPT !.ofd = o, !.new = o])
             /\ UNCHANGED lost
    /\ UNCHANGED <<fdFree, slot, oref>>

MqBind(t) ==
    /\ pc[t] = "mqBind"
    /\ Go(t, "idle", Idle)
    /\ UNCHANGED tables

-----------------------------------------------------------------------------
(* __sys_fcntl with F_DUPFD: holds the descriptor and its description.        *)

(* Mutant: a bad descriptor is not refused.                                   *)
FcntlTakesAll(t, f) ==
    /\ "fcntl" \in Ops[t] /\ pc[t] = "idle"
    /\ Quiet(t, f, {"close", "dup3"})
    /\ Go(t, "refCheck", [Idle EXCEPT !.op = "fcntl", !.fd = f, !.arg = f,
                                      !.ok = "fcntlHeld", !.no = "fcntlHeld"])
    /\ UNCHANGED tables

CallFcntl(t, f) ==
    /\ "fcntl" \in Ops[t] /\ pc[t] = "idle"
    /\ Quiet(t, f, {"close", "dup3"})
    /\ Go(t, "refCheck", [Idle EXCEPT !.op = "fcntl", !.fd = f, !.arg = f,
                                      !.ok = "fcntlHeld"])
    /\ UNCHANGED tables

FcntlHeld(t) ==
    /\ pc[t] = "fcntlHeld"
    /\ EnterOfdRef(t, loc[t].fd, [loc[t] EXCEPT !.after = "obtain"])
    /\ UNCHANGED tables

(* __psx_fd_obtain: the index it makes of the number it has taken lies a page *)
(* before the table (psx_ofd.c:113), so the number has no slot and stays      *)
(* taken.                                                                     *)
Obtain(t) ==
    /\ pc[t] = "obtain"
    /\ \/ /\ Go(t, "ofdDec", [loc[t] EXCEPT !.after = "refDrop"])
          /\ UNCHANGED <<fdFree, lost>>
       \/ \E f \in fdFree :
             /\ fdFree' = fdFree \ {f} /\ LoseFds({f})
             /\ Go(t, "dupInc", loc[t])
    /\ UNCHANGED <<ofdFree, slot, oref>>

(* Mutant: the copy is counted, and its reference is dropped with the call's. *)
DupIncForgotten(t) ==
    /\ pc[t] = "dupInc"
    /\ LET o == loc[t].ofd IN
       IF o = None
       THEN Go(t, "fault", loc[t]) /\ UNCHANGED lost
       ELSE /\ lost.refs[o] < MaxLost /\ LoseRef(o)
            /\ Go(t, "ofdDec", [loc[t] EXCEPT !.after = "refDrop"])
    /\ UNCHANGED <<fdFree, ofdFree, slot, oref>>

(* __fcntl_dupfd stores the slot of the copy in that place, where it may hit  *)
(* nobody (or see LeaveTables), and counts the copy all the same.             *)
DupInc(t) ==
    /\ pc[t] = "dupInc"
    /\ LET o == loc[t].ofd IN
       IF o = None
       THEN Go(t, "fault", loc[t]) /\ UNCHANGED <<oref, lost>>
       ELSE /\ lost.refs[o] < MaxLost /\ LoseRef(o)
            /\ oref' = [oref EXCEPT ![o] = @ + 1]
            /\ Go(t, "ofdDec", [loc[t] EXCEPT !.after = "refDrop"])
    /\ UNCHANGED <<fdFree, ofdFree, slot>>

-----------------------------------------------------------------------------
(* __sys_dup.                                                                 *)

CallDup(t, f) ==
    /\ "dup" \in Ops[t] /\ pc[t] = "idle"
    /\ Quiet(t, f, {"close", "dup3"})
    /\ Go(t, "refCheck", [Idle EXCEPT !.op = "dup", !.fd = f, !.arg = f,
                                      !.ok = "dupAlloc"])
    /\ UNCHANGED tables

DupAlloc(t) ==
    /\ pc[t] = "dupAlloc"
    /\ \/ Go(t, "refDrop", loc[t]) /\ UNCHANGED fdFree
       \/ \E f \in fdFree :
             /\ fdFree' = fdFree \ {f}
             /\ Go(t, "storeOfd", [loc[t] EXCEPT !.dst = f,
                                                 !.new = slot[loc[t].fd].ofd])
    /\ UNCHANGED <<ofdFree, slot, oref, lost>>

(* __dup3: a target that is open is reused, one that is not is possessed,     *)
(* whoever is about to open it.  On one descriptor twice it returns at once   *)
(* and keeps its reference: "dup3same" lets the clients do that.              *)
CallDup3(t, f, g) ==
    /\ "dup3" \in Ops[t] /\ pc[t] = "idle"
    /\ f # g \/ "dup3same" \in Ops[t]
    /\ Quiet(t, f, {"close", "dup3"}) /\ Quiet(t, g, Users)
    /\ Go(t, "refCheck", [Idle EXCEPT !.op = "dup3", !.fd = f, !.dst = g,
                                      !.arg = f, !.ok = "dup3Target"])
    /\ UNCHANGED tables

Dup3Target(t) ==
    /\ pc[t] = "dup3Target"
    /\ IF loc[t].fd = loc[t].dst
       THEN Go(t, "idle", Idle)
       ELSE Go(t, "refCheck", [loc[t] EXCEPT !.arg = loc[t].dst, !.ok = "reuseRead",
                                             !.no = "possess"])
    /\ UNCHANGED tables

Possess(t) ==
    /\ pc[t] = "possess" /\ loc[t].dst \in Fds
    /\ fdFree' = fdFree \ {loc[t].dst}
    /\ lost' = [lost EXCEPT !.fds = @ \ {loc[t].dst}]
    /\ Go(t, "storeOfd", [loc[t] EXCEPT !.new = slot[loc[t].fd].ofd])
    /\ UNCHANGED <<ofdFree, slot, oref>>

ReuseRead(t) ==
    /\ pc[t] = "reuseRead"
    /\ Go(t, "reuseInc", [loc[t] EXCEPT !.new = slot[loc[t].fd].ofd,
                                        !.ofd = slot[loc[t].dst].ofd])
    /\ UNCHANGED tables

ReuseInc(t) ==
    /\ pc[t] = "reuseInc"
    /\ oref' = [oref EXCEPT ![loc[t].new] = @ + 1]
    /\ Go(t, "reuseStore", loc[t])
    /\ UNCHANGED <<fdFree, ofdFree, slot, lost>>

ReuseStore(t) ==
    /\ pc[t] = "reuseStore"
    /\ slot' = [slot EXCEPT ![loc[t].dst].ofd = loc[t].new]
    /\ Go(t, "reuseDrop", loc[t])
    /\ UNCHANGED <<fdFree, ofdFree, oref, lost>>

ReuseDrop(t) ==
    /\ pc[t] = "reuseDrop"
    /\ slot' = [slot EXCEPT ![loc[t].dst].ref = @ - 1]
    /\ Go(t, "ofdDec", [loc[t] EXCEPT !.after = "refDrop"])
    /\ UNCHANGED <<fdFree, ofdFree, oref, lost>>

-----------------------------------------------------------------------------
(* Memory outside the tables.                                                 *)

(* close takes every number up to FdCap, negative ones too; the allocator of  *)
(* descriptions or numbers that a call begins with may hand out a block that  *)
(* lies behind the table.                                                     *)
CallOutside(t) ==
    /\ pc[t] = "idle" /\ Ops[t] \cap {"close", "open", "pipe", "mqopen"} # {}
    /\ Go(t, "outside", Idle)
    /\ UNCHANGED tables

(* The allocators later in a call, the number that the lookup lets through,   *)
(* the slot of F_DUPFD, and a dup3 onto a number that is in no table.         *)
LeaveTables(t) ==
    /\ \/ pc[t] \in {"openFd", "pipeOfd", "pipeFd", "dupAlloc", "mqOfd", "dupInc"}
       \/ pc[t] = "obtain"
       \/ pc[t] = "refCheck" /\ loc[t].arg = FdCap
       \/ pc[t] = "possess" /\ loc[t].dst \notin Fds
    /\ Go(t, "outside", Idle)
    /\ UNCHANGED tables

-----------------------------------------------------------------------------
Call(t) ==
    \/ CallOpen(t) \/ CallPipe(t) \/ CallMqOpen(t) \/ CallOutside(t)
    \/ \E f \in Args : CallUse(t, f) \/ CallClose(t, f) \/ CallFcntl(t, f) \/ CallDup(t, f)
    \/ \E f, g \in Args : CallDup3(t, f, g)

Work(t) ==
    \/ RefCheck(t) \/ RefInc(t) \/ RefRecheck(t) \/ RefUndo(t)
    \/ OfdRead(t) \/ OfdInc(t) \/ OfdRefDone(t)
    \/ OfdDec(t) \/ OfdClear(t) \/ OfdRelease(t) \/ Using(t)
    \/ CloseRead(t) \/ CloseSpin(t) \/ CloseRelease(t)
    \/ StoreOfd(t) \/ StoreRef(t) \/ StoreValid(t) \/ RefDrop(t)
    \/ OpenRef(t) \/ OpenFd(t) \/ OpenTruncate(t) \/ MqOfd(t) \/ MqBind(t)
    \/ PipeRef(t) \/ PipeOfd(t) \/ PipeCreate(t) \/ PipeFd(t) \/ PipeCancel(t)
    \/ FcntlHeld(t) \/ Obtain(t) \/ DupInc(t) \/ DupAlloc(t)
    \/ Dup3Target(t) \/ Possess(t)
    \/ ReuseRead(t) \/ ReuseInc(t) \/ ReuseStore(t) \/ ReuseDrop(t)
    \/ LeaveTables(t)

(* A process that has ended stays so.                                         *)
Gone == Ended /\ UNCHANGED vars

Next == Gone \/ (~ Ended /\ \E t \in Threads : Call(t) \/ Work(t))

Spec == Init /\ [][Next]_vars

(* A thread that is inside a call is scheduled; the spin of close waits for   *)
(* other threads only.                                                        *)
FairSpec == Spec /\ \A t \in Threads : WF_vars(~ Ended /\ Work(t))

-----------------------------------------------------------------------------
(* Properties.                                                                *)

Steps == {"idle", "fault", "outside", "refCheck", "refInc", "refRecheck", "refUndo", "ofdRead",
    "ofdInc", "ofdRefDone", "ofdDec", "ofdClear", "ofdRelease", "using", "closeRead",
    "closeSpin", "closeRelease", "storeOfd", "storeRef", "storeValid", "refDrop",
    "openRef", "openFd", "openTruncate", "mqOfd", "mqBind", "pipeRef", "pipeOfd", "pipeCreate",
    "pipeFd", "pipeCancel", "fcntlHeld", "obtain", "dupInc", "dupAlloc",
    "dup3Target", "possess", "reuseRead", "reuseInc", "reuseStore", "reuseDrop"}

(* Each thread holds a descriptor twice at most.                              *)
RefBound == 2 * Cardinality(Threads)

TypeOK ==
    /\ fdFree \in SUBSET Fds
    /\ ofdFree \in SUBSET Ofds
    /\ slot \in [Fds -> [ofd : Ofds, ref : 0 .. RefBound, invalid : BOOLEAN]]
    /\ oref \in [Ofds -> Nat]
    /\ lost \in [fds : SUBSET Fds, refs : [Ofds -> Nat]]
    /\ pc \in [Threads -> Steps]
    /\ \A t \in Threads : /\ loc[t].fd \in Args \cup {None}
                           /\ loc[t].dst \in Args \cup {None}
                           /\ loc[t].ofd \in Ofds \cup {None}

(* The numbers a call has taken and not stored yet, or cleared and not given  *)
(* back yet.                                                                  *)
Owns(t, f) ==
    \/ /\ loc[t].op \in {"open", "mqopen", "dup"} /\ loc[t].dst = f /\ slot[f].invalid
       /\ pc[t] \notin {"ofdClear", "ofdRelease", "refDrop", "mqBind"}
    \/ loc[t].op = "close" /\ loc[t].fd = f
    \/ loc[t].op = "pipe" /\ f \in {loc[t].fd, loc[t].dst} /\ slot[f].invalid
    \/ /\ loc[t].op = "dup3" /\ loc[t].dst = f /\ loc[t].no = "possess"
       /\ pc[t] \in {"storeOfd", "storeRef", "refDrop", "storeValid"}

(* Until memory outside the tables is touched, every descriptor number is     *)
(* free, or open, or belongs to the one call that opens or closes it, or was  *)
(* lost: by a pipe that got no second number, an mq_open that got no          *)
(* description, or F_DUPFD.  __psx_fd_alloc never hands out a number in use,  *)
(* and no other call loses one.                                               *)
FdBookkeeping ==
    Overrun \/ \A f \in Fds :
        LET owners == {t \in Threads : Owns(t, f)} IN
        /\ f \in fdFree \cup lost.fds => slot[f].invalid /\ owners = {}
        /\ f \notin fdFree \cup lost.fds /\ slot[f].invalid => Cardinality(owners) = 1
        /\ f \notin fdFree \cap lost.fds
        /\ ~ slot[f].invalid => owners \subseteq {t \in Threads : loc[t].op = "dup3"}

(* What counts for description o: the descriptors that name it, the calls     *)
(* that will drop a reference to it, and those that will store one.           *)
Naming(o) == {f \in Fds : ~ slot[f].invalid /\ slot[f].ofd = o}

Counted(t, o) == pc[t] = "pipeRef" => loc[t].arg # o

Dropping(o) ==
    {t \in Threads :
        \/ /\ loc[t].ofd = o
           /\ \/ /\ loc[t].op \in {"open", "mqopen"}
                 /\ pc[t] \notin {"openRef", "ofdRelease", "mqOfd", "mqBind"}
              \/ loc[t].op = "use" /\ pc[t] \in {"ofdRefDone", "using", "ofdDec"}
              \/ loc[t].op = "close" /\ pc[t] = "ofdDec"
              \/ loc[t].op = "fcntl" /\ pc[t] \in {"ofdRefDone", "obtain", "dupInc", "ofdDec"}
              \/ /\ loc[t].op = "pipe" /\ Counted(t, o) /\ pc[t] # "ofdRelease"
                 /\ pc[t] = "pipeCancel" => loc[t].arg # None
        \/ loc[t].op = "close" /\ pc[t] = "closeRead" /\ slot[loc[t].fd].ofd = o}

Storing(o) ==
    {t \in Threads : loc[t].op = "pipe" /\ loc[t].new = o /\ Counted(t, o)}

(* The calls that make description o, or give it back.                        *)
Making(t, o) ==
    \/ pc[t] \in {"openRef", "ofdClear", "ofdRelease"} /\ loc[t].ofd = o
    \/ pc[t] = "pipeRef" /\ loc[t].arg = o

(* The counter of a description is exactly the descriptors that name it, the  *)
(* calls that hold it and the references left behind, at every step of every  *)
(* interleaving; one that nobody counts is free, or is being taken or given   *)
(* back by one call.                                                          *)
RefCountsExact ==
    \A o \in Ofds :
        /\ oref[o] = Cardinality(Naming(o)) + Cardinality(Dropping(o))
                     + Cardinality(Storing(o)) + lost.refs[o]
        /\ oref[o] = 0 => (o \in ofdFree) # (\E t \in Threads : Making(t, o))

(* No description is recycled while a descriptor names it or a call uses it,  *)
(* an mq_open that binds it to its queue included.                            *)
NoUseAfterFree ==
    /\ \A f \in Fds : ~ slot[f].invalid => slot[f].ofd \notin ofdFree
    /\ \A t \in Threads : pc[t] \in {"using", "ofdDec", "mqBind"} /\ loc[t].ofd # None
            => loc[t].ofd \notin ofdFree

(* A description is given back to the allocator by one thread, and only once. *)
FreedOnce ==
    \A t \in Threads : pc[t] \in {"ofdClear", "ofdRelease"} =>
        /\ loc[t].ofd \notin ofdFree
        /\ \A s \in Threads \ {t} :
              pc[s] \in {"ofdClear", "ofdRelease"} => loc[s].ofd # loc[t].ofd

(* No call works on the null description of a descriptor closed under it.     *)
NoFault == \A t \in Threads : pc[t] # "fault"

(* Between calls no descriptor is left with a reference: the close that comes *)
(* later has nobody to wait for.                                              *)
SlotRefsSettle ==
    (\A t \in Threads : pc[t] = "idle") => \A f \in Fds : slot[f].ref = 0

(* Until memory outside the tables is touched, numbers, descriptions and both *)
(* counters agree with what the callers hold and what calls have left behind, *)
(* after any sequence of calls that get, copy and give up descriptors, the    *)
(* calls that fail half-way included (psx_ofd.c:74-264, _pipe.c:32-73,        *)
(* _mq.c:307-328).                                                            *)
TablesExact ==
    \/ Overrun
    \/ TypeOK /\ FdBookkeeping /\ RefCountsExact /\ FreedOnce /\ SlotRefsSettle

(* Until then no call works on a description that is not there: one that was  *)
(* recycled under it, or none at all (fcntl's second lookup, _fcntl.c:90).    *)
DescriptionsLive == Overrun \/ (NoUseAfterFree /\ NoFault)

(* The spin of close on the references to its descriptor ends, whatever the   *)
(* others do to the descriptor, unless the process ends or a reference that   *)
(* was reset under its holder makes the counter negative (psx_ofd.c:150).     *)
ClosesReturn ==
    \A t \in Threads, f \in Fds :
        (pc[t] = "closeSpin" /\ loc[t].fd = f)
            ~> (pc[t] = "idle" \/ slot[f].ref < 0 \/ Ended)
=============================================================================
