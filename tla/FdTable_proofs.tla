---------------------------- MODULE FdTable_proofs ----------------------------
(* Descriptor numbers are handed out once, whatever the threads do to each    *)
(* other's descriptors, for any number of threads and any tables.             *)
EXTENDS FdTable, TLAPS, FiniteSetTheorems

(* The calls that pick their number themselves; dup3 is told one.             *)
PicksNumbers == \A t \in Threads : Ops[t] \cap {"dup3", "dup3same"} = {}

-----------------------------------------------------------------------------
(* Where a call is, and what it has in its locals there.                      *)

RefSteps == {"refCheck", "refInc", "refRecheck", "refUndo"}
ReadSteps == {"ofdRead", "ofdInc", "ofdRefDone"}
FreeSteps == {"ofdClear", "ofdRelease"}
DropSteps == {"ofdDec"} \cup FreeSteps
StoreSteps == {"storeOfd", "storeRef", "storeValid"}

FdOrNone == Fds \cup {None}
ArgOrNone == Args \cup {None}
OfdOrNone == Ofds \cup {None}

LocSet == [op : AllOps \cup {"none"}, fd : ArgOrNone, dst : FdOrNone, arg : ArgOrNone,
           ofd : OfdOrNone, new : OfdOrNone, ok : Steps, no : Steps, after : Steps]

(* l goes through the routine that takes a reference to descriptor f.         *)
Asks(l, f, ok, no) == l.arg = f /\ l.ok = ok /\ l.no = no

OpenFlow(p, l) ==
  /\ p \in {"openRef", "openFd", "openTruncate"} \cup StoreSteps \cup FreeSteps
  /\ l.ofd \in Ofds /\ l.new = l.ofd /\ l.fd = None /\ l.after = "idle"
  /\ l.dst \in Fds <=> p \in {"openTruncate"} \cup StoreSteps

MqFlow(p, l) ==
  /\ p \in {"mqOfd", "openRef", "mqBind"} \cup StoreSteps \cup FreeSteps
  /\ l.fd = None /\ l.after = "idle"
  /\ p = "mqOfd" => l.ofd = None
  /\ p # "mqOfd" => l.ofd \in Ofds /\ l.new = l.ofd
  /\ IF p \in FreeSteps THEN l.dst = None ELSE l.dst \in Fds

(* Until the lookup has let it through, a number is whatever the caller gave. *)
UseFlow(p, l) ==
  /\ p \in {"using"} \cup RefSteps \cup ReadSteps \cup DropSteps
  /\ l.fd \in Args /\ l.dst = None
  /\ p \notin {"refCheck", "using"} \cup DropSteps => l.fd \in Fds
  /\ p \in RefSteps => Asks(l, l.fd, "ofdRead", "using") /\ l.after = "using"
  /\ p \in ReadSteps => l.arg = l.fd /\ l.ok = "ofdRead" /\ l.after = "using"
  /\ p \in {"ofdInc", "ofdRefDone"} \cup DropSteps => l.ofd \in Ofds
  /\ p \in DropSteps => l.after = "idle"

CloseFlow(p, l) ==
  /\ p \in {"closeRead", "closeSpin", "closeRelease"} \cup DropSteps
  /\ l.fd \in Fds /\ l.dst = None
  /\ p \in DropSteps => l.ofd \in Ofds /\ l.after = "closeSpin"

FcntlFlow(p, l) ==
  /\ p \in {"fcntlHeld", "obtain", "dupInc", "refDrop", "fault"}
           \cup RefSteps \cup ReadSteps \cup DropSteps
  /\ l.fd \in Args /\ l.dst = None
  /\ l.fd \in Fds \/ (p = "refCheck" /\ l.ok = "fcntlHeld")
  /\ p \in RefSteps => \/ Asks(l, l.fd, "fcntlHeld", "idle")
                       \/ Asks(l, l.fd, "ofdRead", "obtain") /\ l.after = "obtain"
  /\ p \in ReadSteps => l.arg = l.fd /\ l.ok = "ofdRead" /\ l.after = "obtain"
  /\ p \in {"ofdInc", "ofdRefDone"} \cup FreeSteps => l.ofd \in Ofds
  /\ p \in DropSteps => l.after = "refDrop"

DupFlow(p, l) ==
  /\ p \in {"dupAlloc", "refDrop"} \cup RefSteps \cup ReadSteps \cup StoreSteps
  /\ l.fd \in Args
  /\ l.fd \in Fds \/ (p = "refCheck" /\ l.ok = "dupAlloc")
  /\ p \in RefSteps => \/ Asks(l, l.fd, "dupAlloc", "idle") /\ l.dst = None
                       \/ /\ l.arg \in Fds /\ l.ok = "ofdRead" /\ l.no = "storeValid"
                          /\ l.after = "storeValid" /\ l.dst \in Fds
  /\ p \in ReadSteps => l.arg \in Fds /\ l.after = "storeValid"
  /\ p \in {"ofdInc", "ofdRefDone"} => l.ofd \in Ofds
  /\ p = "dupAlloc" => l.dst = None
  /\ p \in ReadSteps \cup StoreSteps => l.dst \in Fds
  /\ p \in {"storeOfd", "storeRef"} => l.new \in Ofds

PipeFlow(p, l) ==
  /\ p \in {"pipeRef", "pipeOfd", "pipeCreate", "pipeFd", "pipeCancel"}
           \cup StoreSteps \cup FreeSteps
  /\ p \in {"pipeRef", "pipeOfd", "pipeCreate", "pipeFd"} => l.new \in Ofds /\ l.fd = None
  /\ p = "pipeRef" => l.arg = IF l.ofd = None THEN l.new ELSE l.ofd
  /\ p = "pipeOfd" => l.ofd = None
  /\ p \in {"pipeRef", "pipeOfd", "pipeCreate", "pipeCancel"} \cup FreeSteps
       => l.fd = None /\ l.dst = None
  /\ p \in {"pipeCreate", "pipeFd"} => l.ofd \in Ofds /\ l.arg = l.ofd
  /\ p = "pipeCancel" => l.new \in Ofds /\ (l.arg = None \/ l.ofd \in Ofds)
  /\ p \in FreeSteps => /\ l.ofd \in Ofds /\ l.arg = None
                        /\ \/ l.after = "pipeCancel" /\ l.new \in Ofds
                           \/ l.after = "idle" /\ l.new = None
  /\ p \in StoreSteps => /\ l.dst \in Fds /\ l.new \in Ofds /\ l.fd \in FdOrNone
                         /\ l.fd = None <=> l.ofd = None
                         /\ l.fd # l.dst

Flow(p, l) ==
  /\ p = "idle" <=> l.op = "none"
  /\ p = "idle" => l = Idle
  /\ l.op = "open" => OpenFlow(p, l)
  /\ l.op = "mqopen" => MqFlow(p, l)
  /\ l.op = "use" => UseFlow(p, l)
  /\ l.op = "close" => CloseFlow(p, l)
  /\ l.op = "fcntl" => FcntlFlow(p, l)
  /\ l.op = "dup" => DupFlow(p, l)
  /\ l.op = "pipe" => PipeFlow(p, l)
  /\ l.op \notin {"dup3", "dup3same"}

Calls ==
  /\ pc \in [Threads -> Steps]
  /\ loc \in [Threads -> LocSet]
  /\ \A t \in Threads : Flow(pc[t], loc[t])

SlotSet == [ofd : Ofds, ref : Int, invalid : BOOLEAN]

Shape ==
  /\ fdFree \in SUBSET Fds
  /\ ofdFree \in SUBSET Ofds
  /\ slot \in [Fds -> SlotSet]
  /\ oref \in [Ofds -> Int]
  /\ lost \in [fds : SUBSET Fds, refs : [Ofds -> Nat]]

-----------------------------------------------------------------------------
(* Numbers.                                                                   *)

(* The call that is at p with l has number f for itself.                      *)
Has(p, l, f) ==
  \/ l.op = "open" /\ l.dst = f
  \/ l.op = "mqopen" /\ l.dst = f /\ p # "mqBind"
  \/ l.op = "dup" /\ l.dst = f /\ p # "refDrop"
  \/ l.op = "close" /\ l.fd = f
  \/ l.op = "pipe" /\ f \in {l.fd, l.dst}

(* A number is free, lost, open, or had by one call.                          *)
Numbers ==
  /\ fdFree \cap lost.fds = {}
  /\ \A f \in fdFree \cup lost.fds : slot[f].invalid
  /\ \A t \in Threads, f \in Fds :
       Has(pc[t], loc[t], f) => slot[f].invalid /\ f \notin fdFree \cup lost.fds
  /\ \A s, t \in Threads, f \in Fds :
       Has(pc[s], loc[s], f) /\ Has(pc[t], loc[t], f) => s = t
  /\ \A f \in Fds :
       slot[f].invalid /\ f \notin fdFree \cup lost.fds
         => \E t \in Threads : Has(pc[t], loc[t], f)

NInv == Shape /\ Calls /\ Numbers

USE DEF RefSteps, ReadSteps, FreeSteps, DropSteps, StoreSteps, FdOrNone, ArgOrNone, OfdOrNone, LocSet,
        AllOps, Asks

LEMMA Limits ==
  /\ FdCap \in Nat \ {0} /\ OfdCap \in Nat \ {0}
  /\ Ofds \subseteq Fds /\ Fds \subseteq Nat /\ None \notin Fds /\ None \notin Ofds
  /\ Fds \subseteq Args /\ None \notin Args
BY CapsAssumption DEF Fds, Ofds, None, Args

LEMMA IdleFlow == Idle \in LocSet /\ Flow("idle", Idle)
BY DEF Idle, Steps, Flow

(* A step moves one call, to where its locals are in order.                   *)
LEMMA GoKeepsCalls ==
  ASSUME Calls, NEW t \in Threads, NEW p \in Steps, NEW l, Go(t, p, l),
         p # "idle" => l \in LocSet /\ Flow(p, l)
  PROVE  Calls'
<1> DEFINE m == IF p = "idle" THEN Idle ELSE l
<1>1. m \in LocSet /\ Flow(p, m) BY IdleFlow
<1>2. pc' = [pc EXCEPT ![t] = p] /\ loc' = [loc EXCEPT ![t] = m] BY DEF Go
<1> HIDE DEF m
<1> QED BY <1>1, <1>2 DEF Calls

(* What a step of t to p with locals m does to the numbers of the others.     *)
Moved(t, p, l) == IF p = "idle" THEN Idle ELSE l

LEMMA GoMoves ==
  ASSUME Calls, NEW t \in Threads, NEW p \in Steps, NEW l, Go(t, p, l)
  PROVE  /\ pc'[t] = p /\ loc'[t] = Moved(t, p, l)
         /\ \A s \in Threads \ {t} : pc'[s] = pc[s] /\ loc'[s] = loc[s]
BY DEF Go, Calls, Moved

SameSlots == \A f \in Fds : slot'[f].invalid <=> slot[f].invalid

(* A step of t that moves no number.                                          *)
LEMMA MovesNone ==
  ASSUME NInv, NEW t \in Threads, NEW p \in Steps, NEW l, Go(t, p, l), Shape',
         p # "idle" => l \in LocSet /\ Flow(p, l),
         \A f \in Fds : Has(p, Moved(t, p, l), f) <=> Has(pc[t], loc[t], f),
         fdFree' = fdFree, lost'.fds = lost.fds, SameSlots
  PROVE  NInv'
<1>1. Calls' BY GoKeepsCalls DEF NInv
<1>2. \A s \in Threads, f \in Fds : Has(pc'[s], loc'[s], f) <=> Has(pc[s], loc[s], f)
  BY GoMoves DEF NInv
<1>3. fdFree \subseteq Fds /\ lost.fds \subseteq Fds BY DEF NInv, Shape
<1> QED BY <1>1, <1>2, <1>3 DEF NInv, Numbers, SameSlots

(* A step of t that takes the free number g.                                  *)
LEMMA TakesOne ==
  ASSUME NInv, NEW t \in Threads, NEW p \in Steps, NEW l, Go(t, p, l), Shape',
         l \in LocSet /\ Flow(p, l), NEW g \in fdFree,
         \A f \in Fds : Has(p, Moved(t, p, l), f) <=> Has(pc[t], loc[t], f) \/ f = g,
         fdFree' = fdFree \ {g}, lost'.fds = lost.fds, SameSlots
  PROVE  NInv'
<1>1. Calls' BY GoKeepsCalls DEF NInv
<1>2. \A s \in Threads, f \in Fds :
         Has(pc'[s], loc'[s], f) <=> Has(pc[s], loc[s], f) \/ (s = t /\ f = g)
  BY GoMoves DEF NInv
<1>3. fdFree \subseteq Fds /\ lost.fds \subseteq Fds BY DEF NInv, Shape
<1> QED BY <1>1, <1>2, <1>3 DEF NInv, Numbers, SameSlots

(* A step of t that gives its number g back.                                  *)
LEMMA GivesOne ==
  ASSUME NInv, NEW t \in Threads, NEW p \in Steps, NEW l, Go(t, p, l), Shape',
         p # "idle" => l \in LocSet /\ Flow(p, l), NEW g \in Fds, Has(pc[t], loc[t], g),
         \A f \in Fds : Has(p, Moved(t, p, l), f) <=> Has(pc[t], loc[t], f) /\ f # g,
         fdFree' = fdFree \cup {g}, lost'.fds = lost.fds, SameSlots
  PROVE  NInv'
<1>1. Calls' BY GoKeepsCalls DEF NInv
<1>2. \A s \in Threads, f \in Fds :
         Has(pc'[s], loc'[s], f) <=> Has(pc[s], loc[s], f) /\ ~ (s = t /\ f = g)
  BY GoMoves DEF NInv
<1>3. fdFree \subseteq Fds /\ lost.fds \subseteq Fds BY DEF NInv, Shape
<1> QED BY <1>1, <1>2, <1>3 DEF NInv, Numbers, SameSlots

(* A step of t that takes the free number g, and loses it.                    *)
LEMMA LosesFree ==
  ASSUME NInv, NEW t \in Threads, NEW p \in Steps, NEW l, Go(t, p, l), Shape',
         l \in LocSet /\ Flow(p, l), NEW g \in fdFree,
         \A f \in Fds : Has(p, Moved(t, p, l), f) <=> Has(pc[t], loc[t], f),
         fdFree' = fdFree \ {g}, lost'.fds = lost.fds \cup {g}, SameSlots
  PROVE  NInv'
<1>1. Calls' BY GoKeepsCalls DEF NInv
<1>2. \A s \in Threads, f \in Fds : Has(pc'[s], loc'[s], f) <=> Has(pc[s], loc[s], f)
  BY GoMoves DEF NInv
<1>3. fdFree \subseteq Fds /\ lost.fds \subseteq Fds BY DEF NInv, Shape
<1> QED BY <1>1, <1>2, <1>3 DEF NInv, Numbers, SameSlots

(* A step of t after which nobody has its numbers any more.                   *)
LEMMA LosesAll ==
  ASSUME NInv, NEW t \in Threads, NEW p \in Steps, NEW l, Go(t, p, l), Shape',
         p # "idle" => l \in LocSet /\ Flow(p, l),
         \A f \in Fds : ~ Has(p, Moved(t, p, l), f),
         lost'.fds = lost.fds \cup {f \in Fds : Has(pc[t], loc[t], f)},
         fdFree' = fdFree, SameSlots
  PROVE  NInv'
<1>1. Calls' BY GoKeepsCalls DEF NInv
<1>2. \A s \in Threads, f \in Fds :
         Has(pc'[s], loc'[s], f) <=> Has(pc[s], loc[s], f) /\ s # t
  BY GoMoves DEF NInv
<1>3. fdFree \subseteq Fds /\ lost.fds \subseteq Fds BY DEF NInv, Shape
<1> QED BY <1>1, <1>2, <1>3 DEF NInv, Numbers, SameSlots

(* A step of t that makes its number g valid.                                 *)
LEMMA Publishes ==
  ASSUME NInv, NEW t \in Threads, NEW p \in Steps, NEW l, Go(t, p, l), Shape',
         p # "idle" => l \in LocSet /\ Flow(p, l), NEW g \in Fds, Has(pc[t], loc[t], g),
         \A f \in Fds : Has(p, Moved(t, p, l), f) <=> Has(pc[t], loc[t], f) /\ f # g,
         \A f \in Fds : slot'[f].invalid <=> slot[f].invalid /\ f # g,
         fdFree' = fdFree, lost'.fds = lost.fds
  PROVE  NInv'
<1>1. Calls' BY GoKeepsCalls DEF NInv
<1>2. \A s \in Threads, f \in Fds :
         Has(pc'[s], loc'[s], f) <=> Has(pc[s], loc[s], f) /\ ~ (s = t /\ f = g)
  BY GoMoves DEF NInv
<1>3. fdFree \subseteq Fds /\ lost.fds \subseteq Fds BY DEF NInv, Shape
<1> QED BY <1>1, <1>2, <1>3 DEF NInv, Numbers

(* A step of t that makes the open number g invalid, and has it then.         *)
LEMMA Withdraws ==
  ASSUME NInv, NEW t \in Threads, NEW p \in Steps, NEW l, Go(t, p, l), Shape',
         l \in LocSet /\ Flow(p, l), NEW g \in Fds, ~ slot[g].invalid,
         \A f \in Fds : Has(p, Moved(t, p, l), f) <=> f = g,
         \A f \in Fds : ~ Has(pc[t], loc[t], f),
         \A f \in Fds : slot'[f].invalid <=> slot[f].invalid \/ f = g,
         fdFree' = fdFree, lost'.fds = lost.fds
  PROVE  NInv'
<1>1. Calls' BY GoKeepsCalls DEF NInv
<1>2. \A s \in Threads, f \in Fds :
         Has(pc'[s], loc'[s], f) <=> Has(pc[s], loc[s], f) \/ (s = t /\ f = g)
  BY GoMoves DEF NInv
<1>3. fdFree \subseteq Fds /\ lost.fds \subseteq Fds BY DEF NInv, Shape
<1>4. Has(pc'[t], loc'[t], g) /\ \A s \in Threads : ~ Has(pc[s], loc[s], g)
  BY GoMoves DEF NInv, Numbers
<1>5. g \notin fdFree \cup lost.fds BY DEF NInv, Numbers
<1> QED BY <1>1, <1>2, <1>3, <1>4, <1>5 DEF NInv, Numbers

-----------------------------------------------------------------------------
(* A store to one field of a slot leaves the others.                          *)

LEMMA StoresRef ==
  ASSUME slot \in [Fds -> SlotSet], NEW f \in Fds, NEW v \in Int,
         slot' = [slot EXCEPT ![f].ref = v]
  PROVE  /\ slot' \in [Fds -> SlotSet] /\ SameSlots
         /\ \A g \in Fds : /\ slot'[g].ofd = slot[g].ofd
                           /\ slot'[g].ref = IF g = f THEN v ELSE slot[g].ref
<1>1. slot[f] \in SlotSet OBVIOUS
<1>2. \A g \in Fds : slot'[g] = IF g = f THEN [slot[f] EXCEPT !.ref = v] ELSE slot[g]
  OBVIOUS
<1>3. [slot[f] EXCEPT !.ref = v] = [ofd |-> slot[f].ofd, ref |-> v, invalid |-> slot[f].invalid]
  BY <1>1 DEF SlotSet
<1> QED BY <1>1, <1>2, <1>3 DEF SlotSet, SameSlots

LEMMA StoresOfd ==
  ASSUME slot \in [Fds -> SlotSet], NEW f \in Fds, NEW o \in Ofds,
         slot' = [slot EXCEPT ![f].ofd = o]
  PROVE  /\ slot' \in [Fds -> SlotSet] /\ SameSlots
         /\ \A g \in Fds : /\ slot'[g].ref = slot[g].ref
                           /\ slot'[g].ofd = IF g = f THEN o ELSE slot[g].ofd
<1>1. slot[f] \in SlotSet OBVIOUS
<1>2. \A g \in Fds : slot'[g] = IF g = f THEN [slot[f] EXCEPT !.ofd = o] ELSE slot[g]
  OBVIOUS
<1>3. [slot[f] EXCEPT !.ofd = o] = [ofd |-> o, ref |-> slot[f].ref, invalid |-> slot[f].invalid]
  BY <1>1 DEF SlotSet
<1> QED BY <1>1, <1>2, <1>3 DEF SlotSet, SameSlots

LEMMA StoresInvalid ==
  ASSUME slot \in [Fds -> SlotSet], NEW f \in Fds, NEW b \in BOOLEAN,
         slot' = [slot EXCEPT ![f].invalid = b]
  PROVE  /\ slot' \in [Fds -> SlotSet]
         /\ \A g \in Fds : /\ slot'[g].ref = slot[g].ref /\ slot'[g].ofd = slot[g].ofd
                           /\ slot'[g].invalid <=> IF g = f THEN b ELSE slot[g].invalid
<1>1. slot[f] \in SlotSet OBVIOUS
<1>2. \A g \in Fds : slot'[g] = IF g = f THEN [slot[f] EXCEPT !.invalid = b] ELSE slot[g]
  OBVIOUS
<1>3. [slot[f] EXCEPT !.invalid = b] = [ofd |-> slot[f].ofd, ref |-> slot[f].ref, invalid |-> b]
  BY <1>1 DEF SlotSet
<1> QED BY <1>1, <1>2, <1>3 DEF SlotSet

-----------------------------------------------------------------------------
(* The steps.                                                                 *)

USE DEF tables, Moved

(* The routines that count references move no number.                         *)
LEMMA RefKeeps ==
  ASSUME NInv, NEW t \in Threads, RefCheck(t) \/ RefInc(t) \/ RefRecheck(t) \/ RefUndo(t)
  PROVE  NInv'
<1>1. PICK p \in {loc[t].no, loc[t].ok, "refInc", "refRecheck", "refUndo"} :
        /\ Go(t, p, loc[t])
        /\ pc[t] = "refCheck" => p = loc[t].no \/ (p = "refInc" /\ loc[t].arg \in Fds)
        /\ pc[t] = "refInc" => p = "refRecheck"
        /\ pc[t] = "refRecheck" => p \in {loc[t].ok, "refUndo"}
        /\ pc[t] = "refUndo" => p = loc[t].no
  BY DEF RefCheck, RefInc, RefRecheck, RefUndo
<1>2. loc[t] \in LocSet /\ p \in Steps /\ Flow(pc[t], loc[t]) /\ pc[t] \in RefSteps
  BY DEF NInv, Calls, RefCheck, RefInc, RefRecheck, RefUndo, Steps
<1>3. p # "idle" => Flow(p, loc[t])
  BY <1>1, <1>2 DEF Flow, OpenFlow, MqFlow, UseFlow, CloseFlow, FcntlFlow, DupFlow, PipeFlow
<1>4. \A f \in Fds : Has(p, Moved(t, p, loc[t]), f) <=> Has(pc[t], loc[t], f)
  BY <1>1, <1>2, Limits
  DEF Flow, OpenFlow, MqFlow, UseFlow, CloseFlow, FcntlFlow, DupFlow, PipeFlow, Has, Idle
<1>5. pc[t] # "refCheck" => loc[t].arg \in Fds
  BY <1>2 DEF Flow, OpenFlow, MqFlow, UseFlow, CloseFlow, FcntlFlow, DupFlow, PipeFlow
<1>6. slot \in [Fds -> SlotSet] /\ (loc[t].arg \in Fds => slot[loc[t].arg].ref \in Int)
  BY DEF NInv, Shape, SlotSet
<1>7. slot' \in [Fds -> SlotSet] /\ SameSlots
  <2>1. CASE UNCHANGED slot BY <1>6, <2>1 DEF SameSlots
  <2>2. ASSUME NEW v \in Int, loc[t].arg \in Fds, slot' = [slot EXCEPT ![loc[t].arg].ref = v]
        PROVE  slot' \in [Fds -> SlotSet] /\ SameSlots
    BY <1>6, <2>2, StoresRef
  <2>3. CASE RefCheck(t) \/ RefRecheck(t) BY <2>1, <2>3 DEF RefCheck, RefRecheck
  <2>4. CASE RefInc(t)
    <3>1. loc[t].arg \in Fds /\ slot[loc[t].arg].ref + 1 \in Int BY <1>5, <1>6, <2>4 DEF RefInc
    <3> QED BY <2>2, <2>4, <3>1 DEF RefInc
  <2>5. CASE RefUndo(t)
    <3>1. loc[t].arg \in Fds /\ slot[loc[t].arg].ref - 1 \in Int BY <1>5, <1>6, <2>5 DEF RefUndo
    <3> QED BY <2>2, <2>5, <3>1 DEF RefUndo
  <2> QED BY <2>3, <2>4, <2>5
<1>8. Shape' /\ fdFree' = fdFree /\ lost'.fds = lost.fds
  BY <1>7 DEF NInv, Shape, RefCheck, RefInc, RefRecheck, RefUndo
<1> QED BY <1>1, <1>2, <1>3, <1>4, <1>7, <1>8, MovesNone

(* What is known of a call that is at one of its steps, and of the tables.    *)
LEMMA Here ==
  ASSUME NInv, NEW t \in Threads
  PROVE  loc[t] \in LocSet /\ pc[t] \in Steps /\ Flow(pc[t], loc[t])
BY DEF NInv, Calls

LEMMA Tables ==
  ASSUME NInv
  PROVE  /\ fdFree \subseteq Fds /\ ofdFree \subseteq Ofds /\ slot \in [Fds -> SlotSet]
         /\ oref \in [Ofds -> Int] /\ lost \in [fds : SUBSET Fds, refs : [Ofds -> Nat]]
BY DEF NInv, Shape

(* What a call loses is counted apart.                                        *)
LEMMA LostRef ==
  ASSUME NInv, NEW o \in Ofds, LoseRef(o)
  PROVE  /\ lost' \in [fds : SUBSET Fds, refs : [Ofds -> Nat]] /\ lost'.fds = lost.fds
         /\ \A d \in Ofds : lost'.refs[d] = IF d = o THEN lost.refs[d] + 1 ELSE lost.refs[d]
<1>1. lost' = [fds |-> lost.fds, refs |-> [lost.refs EXCEPT ![o] = lost.refs[o] + 1]]
  BY Tables DEF LoseRef
<1> QED BY <1>1, Tables

LEMMA LostFds ==
  ASSUME NInv, NEW fs \in SUBSET Fds, LoseFds(fs)
  PROVE  /\ lost' \in [fds : SUBSET Fds, refs : [Ofds -> Nat]]
         /\ lost'.fds = lost.fds \cup fs /\ lost'.refs = lost.refs
<1>1. lost' = [fds |-> lost.fds \cup fs, refs |-> lost.refs]
  BY Tables DEF LoseFds
<1> QED BY <1>1, Tables

(* Nor do those that get a description, and drop it.                          *)
LEMMA OfdKeeps ==
  ASSUME NInv, NEW t \in Threads,
         \/ OfdRead(t) \/ OfdInc(t) \/ OfdRefDone(t) \/ OfdDec(t) \/ OfdClear(t)
         \/ OfdRelease(t) \/ Using(t) \/ CloseRead(t) \/ CloseSpin(t)
  PROVE  NInv'
<1> USE DEF Flow, OpenFlow, MqFlow, UseFlow, CloseFlow, FcntlFlow, DupFlow, PipeFlow
<1>0. loc[t] \in LocSet /\ pc[t] \in Steps /\ Flow(pc[t], loc[t]) BY Here
<1> HIDE DEF Flow
<1>1. CASE OfdRead(t)
  <2>1. loc[t].arg \in Fds /\ slot[loc[t].arg].ofd \in Ofds
    BY <1>0, <1>1, Limits, Tables DEF OfdRead, SlotSet, Flow
  <2> DEFINE l == [loc[t] EXCEPT !.ofd = slot[loc[t].arg].ofd]
  <2>2. l \in LocSet /\ Flow("ofdInc", l) BY <1>0, <1>1, <2>1, Limits DEF OfdRead, Flow
  <2>3. \A f \in Fds : Has("ofdInc", l, f) <=> Has(pc[t], loc[t], f)
    BY <1>0, <1>1, <2>1, Limits DEF OfdRead, Has, Flow
  <2>4. Go(t, "ofdInc", l) /\ UNCHANGED tables BY <1>1 DEF OfdRead
  <2>5. Shape' /\ SameSlots BY <2>4 DEF NInv, Shape, SameSlots
  <2>s. "ofdInc" \in Steps BY DEF Steps
  <2> QED BY <2>s, <2>2, <2>3, <2>4, <2>5, MovesNone
<1>2. CASE OfdInc(t)
  <2>1. loc[t].ofd \in Ofds BY <1>0, <1>2 DEF OfdInc, Flow
  <2>2. Flow("ofdRefDone", loc[t]) BY <1>0, <1>2 DEF OfdInc, Flow
  <2>3. \A f \in Fds : Has("ofdRefDone", loc[t], f) <=> Has(pc[t], loc[t], f)
    BY <1>0, <1>2 DEF OfdInc, Has, Flow
  <2>4. Go(t, "ofdRefDone", loc[t]) /\ UNCHANGED <<fdFree, ofdFree, slot, lost>>
    BY <1>2 DEF OfdInc
  <2>5. oref' \in [Ofds -> Int] BY <1>2, <2>1, Tables DEF OfdInc
  <2>6. Shape' /\ SameSlots BY <2>4, <2>5 DEF NInv, Shape, SameSlots
  <2>s. "ofdRefDone" \in Steps BY DEF Steps
  <2> QED BY <2>s, <1>0, <2>2, <2>3, <2>4, <2>6, MovesNone
<1>3. CASE OfdRefDone(t)
  <2>1. loc[t].arg \in Fds BY <1>0, <1>3 DEF OfdRefDone, Flow
  <2>2. Flow(loc[t].after, loc[t]) /\ loc[t].after # "idle" BY <1>0, <1>3 DEF OfdRefDone, Flow
  <2>3. \A f \in Fds : Has(loc[t].after, loc[t], f) <=> Has(pc[t], loc[t], f)
    BY <1>0, <1>3 DEF OfdRefDone, Has, Flow
  <2>4. Go(t, loc[t].after, loc[t]) /\ UNCHANGED <<fdFree, ofdFree, oref, lost>>
    BY <1>3 DEF OfdRefDone
  <2>5. slot[loc[t].arg].ref - 1 \in Int BY <2>1, Tables DEF SlotSet
  <2>6. slot' = [slot EXCEPT ![loc[t].arg].ref = slot[loc[t].arg].ref - 1]
    BY <1>3 DEF OfdRefDone
  <2>7. slot' \in [Fds -> SlotSet] /\ SameSlots BY <2>1, <2>5, <2>6, Tables, StoresRef
  <2>8. Shape' BY <2>4, <2>7 DEF NInv, Shape
  <2>9. loc[t].after \in Steps BY <1>0
  <2> QED BY <1>0, <2>2, <2>3, <2>4, <2>7, <2>8, <2>9, MovesNone
<1>4. CASE OfdDec(t)
  <2>1. PICK p \in {"fault", "ofdClear", loc[t].after} :
          Go(t, p, loc[t]) /\ (p = "fault" => loc[t].ofd = None)
                           /\ (p # "fault" => loc[t].ofd \in Ofds)
    <3>1. loc[t].after # "fault" BY <1>0, <1>4 DEF OfdDec, Flow
    <3> QED BY <1>0, <1>4, <3>1 DEF OfdDec
  <2>2. p \in Steps BY <1>0, <2>1 DEF Steps
  <2>3. pc[t] = "ofdDec" BY <1>4 DEF OfdDec
  <2>4. p # "idle" => Flow(p, loc[t]) BY <1>0, <2>1, <2>3, Limits DEF Flow
  <2>5. \A f \in Fds : Has(p, Moved(t, p, loc[t]), f) <=> Has(pc[t], loc[t], f)
    BY <1>0, <2>1, <2>3, Limits DEF Has, Idle, Flow
  <2>6. UNCHANGED <<fdFree, ofdFree, slot, lost>> BY <1>4 DEF OfdDec
  <2>7. oref' \in [Ofds -> Int] BY <1>4, Tables DEF OfdDec
  <2>8. Shape' /\ SameSlots BY <2>6, <2>7 DEF NInv, Shape, SameSlots
  <2> QED BY <1>0, <2>1, <2>2, <2>4, <2>5, <2>6, <2>8, MovesNone
<1>5. CASE OfdClear(t)
  <2>1. loc[t].ofd \in Ofds /\ Flow("ofdRelease", loc[t]) BY <1>0, <1>5 DEF OfdClear, Flow
  <2>2. \A f \in Fds : Has("ofdRelease", loc[t], f) <=> Has(pc[t], loc[t], f)
    BY <1>0, <1>5 DEF OfdClear, Has, Flow
  <2>3. Go(t, "ofdRelease", loc[t]) /\ UNCHANGED <<fdFree, ofdFree, slot, lost>>
    BY <1>5 DEF OfdClear
  <2>4. oref' \in [Ofds -> Int] BY <1>5, <2>1, Tables DEF OfdClear
  <2>5. Shape' /\ SameSlots BY <2>3, <2>4 DEF NInv, Shape, SameSlots
  <2>s. "ofdRelease" \in Steps BY DEF Steps
  <2> QED BY <2>s, <1>0, <2>1, <2>2, <2>3, <2>5, MovesNone
<1>6. CASE OfdRelease(t)
  <2>1. loc[t].ofd \in Ofds /\ (loc[t].after # "idle" => Flow(loc[t].after, loc[t]))
    BY <1>0, <1>6 DEF OfdRelease, Flow
  <2>2. \A f \in Fds : Has(loc[t].after, Moved(t, loc[t].after, loc[t]), f)
                         <=> Has(pc[t], loc[t], f)
    BY <1>0, <1>6, Limits DEF OfdRelease, Has, Idle, Flow
  <2>3. Go(t, loc[t].after, loc[t]) /\ UNCHANGED <<fdFree, oref, slot, lost>>
    BY <1>6 DEF OfdRelease
  <2>4. Shape' /\ SameSlots BY <1>6, <2>1, <2>3 DEF NInv, Shape, SameSlots, OfdRelease
  <2>5. loc[t].after \in Steps BY <1>0
  <2> QED BY <1>0, <2>1, <2>2, <2>3, <2>4, <2>5, MovesNone
<1>7. CASE Using(t)
  <2>1. UNCHANGED <<fdFree, ofdFree, slot, oref>> /\ loc[t].op = "use" /\ pc[t] = "using"
        /\ loc[t].dst = None
    BY <1>0, <1>7 DEF Using, Flow
  <2>2. SameSlots BY <2>1 DEF SameSlots
  <2>3. CASE Go(t, "idle", Idle) /\ (UNCHANGED lost \/ (loc[t].ofd # None /\ LoseRef(loc[t].ofd)))
    <3>1. loc[t].ofd # None => loc[t].ofd \in Ofds BY <1>0
    <3>2. lost' \in [fds : SUBSET Fds, refs : [Ofds -> Nat]] /\ lost'.fds = lost.fds
      BY <2>3, <3>1, LostRef, Tables
    <3>3. Shape' BY <2>1, <3>2 DEF NInv, Shape
    <3>4. \A f \in Fds : Has("idle", Idle, f) <=> Has(pc[t], loc[t], f)
      BY <2>1, Limits DEF Has, Idle
    <3>s. "idle" \in Steps BY DEF Steps
    <3> QED BY <3>s, <2>1, <2>2, <2>3, <3>2, <3>3, <3>4, MovesNone
  <2>4. CASE loc[t].ofd # None /\ UNCHANGED lost
             /\ Go(t, "ofdDec", [loc[t] EXCEPT !.after = "idle"])
    <3> DEFINE l == [loc[t] EXCEPT !.after = "idle"]
    <3>1. Go(t, "ofdDec", l) BY <2>4
    <3>2. "idle" \in Steps BY DEF Steps
    <3>3. /\ l \in LocSet /\ l.op = "use" /\ l.fd = loc[t].fd /\ l.dst = None
          /\ l.ofd = loc[t].ofd /\ l.after = "idle"
      BY <1>0, <2>1, <3>2
    <3>4. loc[t].ofd \in Ofds /\ loc[t].fd \in Args BY <1>0, <2>1, <2>4 DEF Flow
    <3> HIDE DEF l
    <3>5. Flow("ofdDec", l) BY <3>3, <3>4 DEF Flow
    <3>6. \A f \in Fds : Has("ofdDec", l, f) <=> Has(pc[t], loc[t], f)
      BY <2>1, <3>3 DEF Has
    <3>7. Shape' BY <2>1, <2>4 DEF NInv, Shape
    <3>s. "ofdDec" \in Steps BY DEF Steps
    <3> QED BY <3>s, <2>1, <2>2, <2>4, <3>1, <3>3, <3>5, <3>6, <3>7, MovesNone
  <2> QED BY <1>7, <2>3, <2>4 DEF Using
<1>8. CASE CloseRead(t)
  <2> DEFINE l == [loc[t] EXCEPT !.ofd = slot[loc[t].fd].ofd, !.after = "closeSpin"]
  <2>1. loc[t].fd \in Fds /\ slot[loc[t].fd].ofd \in Ofds
    BY <1>0, <1>8, Tables DEF CloseRead, SlotSet, Flow
  <2>2. l \in LocSet /\ Flow("ofdDec", l)
    <3>1. "closeSpin" \in Steps BY DEF Steps
    <3>2. l \in LocSet BY <1>0, <2>1, <3>1
    <3>3. loc[t].op = "close" BY <1>0, <1>8 DEF CloseRead, Flow
    <3> QED BY <1>0, <1>8, <2>1, <3>2, <3>3 DEF CloseRead, Flow
  <2>3. \A f \in Fds : Has("ofdDec", l, f) <=> Has(pc[t], loc[t], f)
    BY <1>0, <1>8, Limits DEF CloseRead, Has, Flow
  <2>4. Go(t, "ofdDec", l) /\ UNCHANGED tables BY <1>8 DEF CloseRead
  <2>5. Shape' /\ SameSlots BY <2>4 DEF NInv, Shape, SameSlots
  <2>s. "ofdDec" \in Steps BY DEF Steps
  <2> QED BY <2>s, <2>2, <2>3, <2>4, <2>5, MovesNone
<1>9. CASE CloseSpin(t)
  <2>1. PICK p \in {"closeRelease", "closeSpin"} : Go(t, p, loc[t]) /\ UNCHANGED tables
    BY <1>9 DEF CloseSpin
  <2>2. Flow(p, loc[t]) BY <1>0, <1>9, <2>1 DEF CloseSpin, Flow
  <2>3. \A f \in Fds : Has(p, loc[t], f) <=> Has(pc[t], loc[t], f)
    BY <1>0, <1>9, <2>1 DEF CloseSpin, Has, Flow
  <2>4. Shape' /\ SameSlots BY <2>1 DEF NInv, Shape, SameSlots
  <2>s. p \in Steps BY <2>1 DEF Steps
  <2> QED BY <2>s, <1>0, <2>1, <2>2, <2>3, <2>4, MovesNone
<1> QED BY <1>1, <1>2, <1>3, <1>4, <1>5, <1>6, <1>7, <1>8, <1>9

(* Nor the steps between the stores of a slot.                                *)
LEMMA StoreKeeps ==
  ASSUME NInv, NEW t \in Threads,
         \/ StoreOfd(t) \/ StoreRef(t) \/ RefDrop(t) \/ FcntlHeld(t) \/ DupInc(t)
         \/ MqBind(t)
  PROVE  NInv'
<1> USE DEF Flow, OpenFlow, MqFlow, UseFlow, CloseFlow, FcntlFlow, DupFlow, PipeFlow
<1>0. loc[t] \in LocSet /\ pc[t] \in Steps /\ Flow(pc[t], loc[t]) BY Here
<1> HIDE DEF Flow
<1>1. CASE StoreOfd(t)
  <2>1. loc[t].dst \in Fds /\ loc[t].new \in Ofds BY <1>0, <1>1 DEF StoreOfd, Flow
  <2>2. Flow("storeRef", loc[t]) BY <1>0, <1>1 DEF StoreOfd, Flow
  <2>3. \A f \in Fds : Has("storeRef", loc[t], f) <=> Has(pc[t], loc[t], f)
    BY <1>0, <1>1 DEF StoreOfd, Has, Flow
  <2>4. Go(t, "storeRef", loc[t]) /\ UNCHANGED <<fdFree, ofdFree, oref, lost>>
    BY <1>1 DEF StoreOfd
  <2>5. slot' \in [Fds -> SlotSet] /\ SameSlots
    BY <1>1, <2>1, Tables, StoresOfd DEF StoreOfd
  <2>6. Shape' BY <2>4, <2>5 DEF NInv, Shape
  <2>s. "storeRef" \in Steps BY DEF Steps
  <2> QED BY <2>s, <1>0, <2>2, <2>3, <2>4, <2>5, <2>6, MovesNone
<1>2. CASE StoreRef(t)
  <2>1. loc[t].dst \in Fds /\ pc[t] = "storeRef" /\ loc[t].op \in {"open", "mqopen", "dup", "pipe"}
    BY <1>0, <1>2 DEF StoreRef, Flow
  <2>2. slot' = [slot EXCEPT ![loc[t].dst].ref = 0] /\ UNCHANGED <<fdFree, ofdFree, oref, lost>>
    BY <1>2 DEF StoreRef
  <2>3. slot' \in [Fds -> SlotSet] /\ SameSlots
    <3>1. 0 \in Int OBVIOUS
    <3> QED BY <2>1, <2>2, <3>1, Tables, StoresRef
  <2>4. Shape' BY <2>2, <2>3 DEF NInv, Shape
  <2>5. CASE loc[t].op \in {"open", "mqopen", "pipe"}
    <3>1. Go(t, "storeValid", loc[t]) BY <1>2, <2>5 DEF StoreRef
    <3>2. Flow("storeValid", loc[t]) BY <1>0, <2>1, <2>5 DEF Flow
    <3>3. \A f \in Fds : Has("storeValid", loc[t], f) <=> Has(pc[t], loc[t], f)
      BY <2>1, <2>5 DEF Has
    <3>s. "storeValid" \in Steps BY DEF Steps
    <3> QED BY <3>s, <1>0, <2>2, <2>3, <2>4, <3>1, <3>2, <3>3, MovesNone
  <2>7. CASE loc[t].op = "dup"
    <3> DEFINE o == slot[loc[t].dst].ofd
               k == [loc[t] EXCEPT !.after = "storeValid"]
               l == [k EXCEPT !.arg = o, !.ok = "ofdRead", !.no = k.after]
    <3>1. o \in Fds /\ o \in Args BY <2>1, Tables, Limits DEF SlotSet
    <3>2. {"refCheck", "ofdRead", "storeValid"} \subseteq Steps BY DEF Steps
    <3>3. k \in LocSet /\ k.after = "storeValid" BY <1>0, <3>2
    <3>4. l \in LocSet BY <3>1, <3>2, <3>3
    <3>5. /\ l.op = "dup" /\ l.fd = loc[t].fd /\ l.dst = loc[t].dst /\ l.arg = o
          /\ l.ok = "ofdRead" /\ l.no = "storeValid" /\ l.after = "storeValid"
      BY <1>0, <2>7, <3>3
    <3>6. Go(t, "refCheck", l) BY <1>2, <2>7 DEF StoreRef, EnterOfdRef
    <3> HIDE DEF l, k, o
    <3>7. Flow("refCheck", l) BY <1>0, <2>1, <2>7, <3>1, <3>5 DEF Flow
    <3>8. \A f \in Fds : Has("refCheck", l, f) <=> Has(pc[t], loc[t], f)
      BY <2>1, <2>7, <3>5 DEF Has
    <3> QED BY <2>2, <2>3, <2>4, <3>2, <3>4, <3>6, <3>7, <3>8, MovesNone
  <2> QED BY <2>1, <2>5, <2>7
<1>3. CASE RefDrop(t)
  <2>1. loc[t].fd \in Fds /\ pc[t] = "refDrop" /\ loc[t].op \in {"fcntl", "dup"}
    BY <1>0, <1>3 DEF RefDrop, Flow
  <2>2. Go(t, "idle", loc[t]) /\ UNCHANGED <<fdFree, ofdFree, oref, lost>>
    BY <1>3, <2>1 DEF RefDrop
  <2>3. \A f \in Fds : Has("idle", Idle, f) <=> Has(pc[t], loc[t], f)
    BY <2>1 DEF Has, Idle
  <2>4. slot[loc[t].fd].ref - 1 \in Int BY <2>1, Tables DEF SlotSet
  <2>5. slot' = [slot EXCEPT ![loc[t].fd].ref = slot[loc[t].fd].ref - 1] BY <1>3 DEF RefDrop
  <2>6. slot' \in [Fds -> SlotSet] /\ SameSlots BY <2>1, <2>4, <2>5, Tables, StoresRef
  <2>7. Shape' BY <2>2, <2>6 DEF NInv, Shape
  <2>s. "idle" \in Steps BY DEF Steps
  <2> QED BY <2>s, <2>2, <2>3, <2>6, <2>7, MovesNone
<1>4. CASE FcntlHeld(t)
  <2> DEFINE k == [loc[t] EXCEPT !.after = "obtain"]
             l == [k EXCEPT !.arg = loc[t].fd, !.ok = "ofdRead", !.no = k.after]
  <2>1. loc[t].op = "fcntl" /\ loc[t].fd \in Fds /\ loc[t].dst = None /\ pc[t] = "fcntlHeld"
        /\ loc[t].fd \in Args
    BY <1>0, <1>4, Limits
    DEF FcntlHeld, Flow, OpenFlow, MqFlow, UseFlow, CloseFlow, FcntlFlow, DupFlow, PipeFlow
  <2>2. {"refCheck", "ofdRead", "obtain"} \subseteq Steps BY DEF Steps
  <2>3. k \in LocSet /\ k.after = "obtain" BY <1>0, <2>2
  <2>4. l \in LocSet BY <2>1, <2>2, <2>3
  <2>5. /\ l.op = "fcntl" /\ l.fd = loc[t].fd /\ l.dst = None /\ l.arg = loc[t].fd
        /\ l.ok = "ofdRead" /\ l.no = "obtain" /\ l.after = "obtain"
    BY <1>0, <2>1, <2>3
  <2>6. Go(t, "refCheck", l) /\ UNCHANGED tables BY <1>4 DEF FcntlHeld, EnterOfdRef
  <2> HIDE DEF l, k
  <2>7. Flow("refCheck", l) BY <2>1, <2>5 DEF Flow
  <2>8. \A f \in Fds : Has("refCheck", l, f) <=> Has(pc[t], loc[t], f)
    BY <2>1, <2>5, Limits DEF Has
  <2>9. Shape' /\ SameSlots BY <2>6 DEF NInv, Shape, SameSlots
  <2> QED BY <2>2, <2>4, <2>6, <2>7, <2>8, <2>9, MovesNone
<1>5. CASE DupInc(t)
  <2>1. pc[t] = "dupInc" /\ loc[t].op = "fcntl" /\ loc[t].dst = None /\ loc[t].fd \in Fds
    BY <1>0, <1>5 DEF DupInc, Flow
  <2>2. UNCHANGED <<fdFree, ofdFree, slot>> BY <1>5 DEF DupInc
  <2>3. SameSlots BY <2>2 DEF SameSlots
  <2>4. CASE loc[t].ofd = None
    <3>1. Go(t, "fault", loc[t]) /\ UNCHANGED <<oref, lost>> BY <1>5, <2>4 DEF DupInc
    <3>2. Flow("fault", loc[t]) BY <1>0, <2>1 DEF Flow
    <3>3. \A f \in Fds : Has("fault", loc[t], f) <=> Has(pc[t], loc[t], f) BY <2>1 DEF Has
    <3>4. Shape' BY <2>2, <3>1 DEF NInv, Shape
    <3>s. "fault" \in Steps BY DEF Steps
    <3> QED BY <3>s, <1>0, <2>2, <2>3, <3>1, <3>2, <3>3, <3>4, MovesNone
  <2>5. CASE loc[t].ofd # None
    <3> DEFINE o == loc[t].ofd
               l == [loc[t] EXCEPT !.after = "refDrop"]
    <3>1. Go(t, "ofdDec", l) /\ LoseRef(o) /\ oref' = [oref EXCEPT ![o] = oref[o] + 1]
      BY <1>5, <2>5 DEF DupInc
    <3>2. o \in Ofds BY <1>0, <2>5
    <3>3. "refDrop" \in Steps BY DEF Steps
    <3>4. /\ l \in LocSet /\ l.op = "fcntl" /\ l.fd = loc[t].fd /\ l.dst = None
          /\ l.ofd = o /\ l.after = "refDrop"
      BY <1>0, <2>1, <3>3
    <3>5. oref' \in [Ofds -> Int] BY <3>1, <3>2, Tables
    <3>6. lost' \in [fds : SUBSET Fds, refs : [Ofds -> Nat]] /\ lost'.fds = lost.fds
      BY <3>1, <3>2, LostRef
    <3>7. Shape' BY <2>2, <3>5, <3>6 DEF NInv, Shape
    <3> HIDE DEF l
    <3>8. Flow("ofdDec", l) BY <1>0, <2>1, <3>4 DEF Flow
    <3>9. \A f \in Fds : Has("ofdDec", l, f) <=> Has(pc[t], loc[t], f)
      BY <2>1, <3>4 DEF Has
    <3>s. "ofdDec" \in Steps BY DEF Steps
    <3> QED BY <3>s, <2>2, <2>3, <3>1, <3>4, <3>6, <3>7, <3>8, <3>9, MovesNone
  <2> QED BY <2>4, <2>5
<1>6. CASE MqBind(t)
  <2>1. pc[t] = "mqBind" /\ loc[t].op = "mqopen" BY <1>0, <1>6 DEF MqBind, Flow
  <2>2. Go(t, "idle", Idle) /\ UNCHANGED tables BY <1>6 DEF MqBind
  <2>3. Shape' /\ SameSlots BY <2>2 DEF NInv, Shape, SameSlots
  <2>4. \A f \in Fds : Has("idle", Idle, f) <=> Has(pc[t], loc[t], f)
    BY <2>1 DEF Has, Idle
  <2>s. "idle" \in Steps BY DEF Steps
  <2> QED BY <2>s, <2>2, <2>3, <2>4, MovesNone
<1> QED BY <1>1, <1>2, <1>3, <1>4, <1>5, <1>6

(* Making descriptions, and giving those of a pipe back.                      *)
LEMMA MakeKeeps ==
  ASSUME NInv, NEW t \in Threads,
         OpenRef(t) \/ PipeRef(t) \/ PipeOfd(t) \/ PipeCreate(t) \/ PipeCancel(t)
  PROVE  NInv'
<1> USE DEF Flow, OpenFlow, MqFlow, UseFlow, CloseFlow, FcntlFlow, DupFlow, PipeFlow
<1>0. loc[t] \in LocSet /\ pc[t] \in Steps /\ Flow(pc[t], loc[t]) BY Here
<1> HIDE DEF Flow
<1>1. CASE OpenRef(t)
  <2>1. pc[t] = "openRef" /\ loc[t].op \in {"open", "mqopen"} /\ loc[t].ofd \in Ofds
        /\ (loc[t].op = "open" => loc[t].dst = None)
    BY <1>0, <1>1, Limits DEF OpenRef, Flow
  <2>2. UNCHANGED <<fdFree, ofdFree, slot>> /\ SameSlots BY <1>1 DEF OpenRef, SameSlots
  <2>3. oref' \in [Ofds -> Int] BY <1>1, <2>1, Tables DEF OpenRef
  <2>4. CASE Go(t, IF loc[t].op = "open" THEN "openFd" ELSE "storeOfd", loc[t]) /\ UNCHANGED lost
    <3>1. PICK p \in {"openFd", "storeOfd"} : Go(t, p, loc[t]) /\ (p = "openFd" <=> loc[t].op = "open")
      BY <2>4
    <3>2. Flow(p, loc[t]) BY <1>0, <2>1, <3>1 DEF Flow
    <3>3. \A f \in Fds : Has(p, loc[t], f) <=> Has(pc[t], loc[t], f) BY <2>1, <3>1 DEF Has
    <3>4. Shape' BY <2>2, <2>3, <2>4 DEF NInv, Shape
    <3>s. p \in Steps BY <3>1 DEF Steps
    <3> QED BY <3>s, <1>0, <2>2, <2>4, <3>1, <3>2, <3>3, <3>4, MovesNone
  <2>5. CASE LoseFds({loc[t].dst} \ {None}) /\ Go(t, "ofdClear", [loc[t] EXCEPT !.dst = None])
    <3> DEFINE l == [loc[t] EXCEPT !.dst = None]
               N == {loc[t].dst} \ {None}
    <3>1. /\ l \in LocSet /\ l.op = loc[t].op /\ l.fd = loc[t].fd /\ l.dst = None
          /\ l.ofd = loc[t].ofd /\ l.new = loc[t].new /\ l.after = loc[t].after
      BY <1>0, <2>1
    <3>2. Go(t, "ofdClear", l) BY <2>5
    <3> HIDE DEF l
    <3>3. Flow("ofdClear", l) BY <1>0, <2>1, <3>1, Limits DEF Flow
    <3>4. \A f \in Fds : ~ Has("ofdClear", l, f) BY <2>1, <3>1, Limits DEF Has
    <3>5. N = {f \in Fds : Has(pc[t], loc[t], f)} BY <1>0, <2>1, Limits DEF Has
    <3>6. lost' \in [fds : SUBSET Fds, refs : [Ofds -> Nat]] /\ lost'.fds = lost.fds \cup N
      BY <2>5, <3>5, LostFds
    <3>7. Shape' BY <2>2, <2>3, <3>6 DEF NInv, Shape
    <3> HIDE DEF N
    <3>s. "ofdClear" \in Steps BY DEF Steps
    <3> QED BY <3>s, <2>2, <3>1, <3>2, <3>3, <3>4, <3>5, <3>6, <3>7, LosesAll
  <2> QED BY <1>1, <2>4, <2>5 DEF OpenRef
<1>2. CASE PipeRef(t)
  <2>1. /\ pc[t] = "pipeRef" /\ loc[t].op = "pipe" /\ loc[t].arg \in Ofds /\ loc[t].new \in Ofds
        /\ loc[t].fd = None /\ loc[t].dst = None
    BY <1>0, <1>2 DEF PipeRef, Flow
  <2>2. UNCHANGED <<fdFree, ofdFree, slot>> /\ SameSlots BY <1>2 DEF PipeRef, SameSlots
  <2>3. oref' \in [Ofds -> Int] BY <1>2, <2>1, Tables DEF PipeRef
  <2>4. CASE Go(t, IF loc[t].ofd = None THEN "pipeOfd" ELSE "pipeCreate", loc[t]) /\ UNCHANGED lost
    <3>1. PICK p \in {"pipeOfd", "pipeCreate"} :
            Go(t, p, loc[t]) /\ (p = "pipeOfd" <=> loc[t].ofd = None)
      BY <2>4
    <3>2. Flow(p, loc[t]) BY <1>0, <2>1, <3>1, Limits DEF Flow
    <3>3. \A f \in Fds : Has(p, loc[t], f) <=> Has(pc[t], loc[t], f) BY <2>1, <3>1 DEF Has
    <3>4. Shape' BY <2>2, <2>3, <2>4 DEF NInv, Shape
    <3>s. p \in Steps BY <3>1 DEF Steps
    <3> QED BY <3>s, <1>0, <2>2, <2>4, <3>1, <3>2, <3>3, <3>4, MovesNone
  <2>5. CASE /\ Go(t, "ofdClear", [loc[t] EXCEPT !.ofd = loc[t].arg, !.new = None, !.arg = None,
                                                 !.after = "idle"])
             /\ UNCHANGED lost \/ LoseRef(loc[t].new)
    <3> DEFINE l == [loc[t] EXCEPT !.ofd = loc[t].arg, !.new = None, !.arg = None, !.after = "idle"]
    <3>1. "idle" \in Steps BY DEF Steps
    <3>2. /\ l \in LocSet /\ l.op = "pipe" /\ l.fd = None /\ l.dst = None /\ l.ofd = loc[t].arg
          /\ l.new = None /\ l.arg = None /\ l.after = "idle"
      BY <1>0, <2>1, <3>1
    <3>3. Go(t, "ofdClear", l) BY <2>5
    <3> HIDE DEF l
    <3>4. Flow("ofdClear", l) BY <2>1, <3>2 DEF Flow
    <3>5. \A f \in Fds : Has("ofdClear", l, f) <=> Has(pc[t], loc[t], f) BY <2>1, <3>2 DEF Has
    <3>6. lost' \in [fds : SUBSET Fds, refs : [Ofds -> Nat]] /\ lost'.fds = lost.fds
      BY <2>1, <2>5, LostRef, Tables
    <3>7. Shape' BY <2>2, <2>3, <3>6 DEF NInv, Shape
    <3>s. "ofdClear" \in Steps BY DEF Steps
    <3> QED BY <3>s, <2>2, <3>2, <3>3, <3>4, <3>5, <3>6, <3>7, MovesNone
  <2> QED BY <1>2, <2>4, <2>5 DEF PipeRef
<1>3. CASE PipeOfd(t)
  <2>1. /\ pc[t] = "pipeOfd" /\ loc[t].op = "pipe" /\ loc[t].new \in Ofds
        /\ loc[t].fd = None /\ loc[t].dst = None
    BY <1>0, <1>3 DEF PipeOfd, Flow
  <2>2. UNCHANGED <<fdFree, slot, oref>> /\ SameSlots BY <1>3 DEF PipeOfd, SameSlots
  <2>3. CASE LoseRef(loc[t].new) /\ Go(t, "idle", Idle) /\ UNCHANGED ofdFree
    <3>1. lost' \in [fds : SUBSET Fds, refs : [Ofds -> Nat]] /\ lost'.fds = lost.fds
      BY <2>1, <2>3, LostRef
    <3>2. Shape' BY <2>2, <2>3, <3>1 DEF NInv, Shape
    <3>3. \A f \in Fds : Has("idle", Idle, f) <=> Has(pc[t], loc[t], f)
      BY <2>1, Limits DEF Has, Idle
    <3>s. "idle" \in Steps BY DEF Steps
    <3> QED BY <3>s, <2>2, <2>3, <3>1, <3>2, <3>3, MovesNone
  <2>4. ASSUME NEW o \in ofdFree, ofdFree' = ofdFree \ {o}, UNCHANGED lost,
               Go(t, "pipeRef", [loc[t] EXCEPT !.ofd = o, !.arg = o])
        PROVE  NInv'
    <3> DEFINE l == [loc[t] EXCEPT !.ofd = o, !.arg = o]
    <3>1. o \in Ofds /\ o \in Args BY Tables, Limits
    <3>2. l \in LocSet /\ l.op = "pipe" /\ l.ofd = o /\ l.arg = o /\ l.new = loc[t].new
          /\ l.fd = None /\ l.dst = None
      BY <1>0, <2>1, <3>1
    <3> HIDE DEF l
    <3>3. Flow("pipeRef", l) BY <2>1, <3>1, <3>2, Limits DEF Flow
    <3>4. \A f \in Fds : Has("pipeRef", l, f) <=> Has(pc[t], loc[t], f)
      BY <2>1, <3>2 DEF Has
    <3>5. Shape' BY <2>2, <2>4 DEF NInv, Shape
    <3>6. Go(t, "pipeRef", l) BY <2>4 DEF l
    <3>s. "pipeRef" \in Steps BY DEF Steps
    <3> QED BY <3>s, <2>2, <2>4, <3>2, <3>3, <3>4, <3>5, <3>6, MovesNone
  <2> QED BY <1>3, <2>3, <2>4 DEF PipeOfd
<1>4. CASE PipeCreate(t)
  <2>1. pc[t] = "pipeCreate" /\ loc[t].op = "pipe" BY <1>0, <1>4 DEF PipeCreate, Flow
  <2>2. PICK p \in {"pipeFd", "pipeCancel"} : Go(t, p, loc[t]) BY <1>4 DEF PipeCreate
  <2>3. Flow(p, loc[t]) BY <1>0, <2>1, <2>2 DEF Flow
  <2>4. \A f \in Fds : Has(p, loc[t], f) <=> Has(pc[t], loc[t], f) BY <2>1, <2>2 DEF Has
  <2>5. UNCHANGED tables BY <1>4 DEF PipeCreate
  <2>6. Shape' /\ SameSlots BY <2>5 DEF NInv, Shape, SameSlots
  <2>s. p \in Steps BY <2>2 DEF Steps
  <2> QED BY <2>s, <1>0, <2>2, <2>3, <2>4, <2>5, <2>6, MovesNone
<1>5. CASE PipeCancel(t)
  <2>1. /\ pc[t] = "pipeCancel" /\ loc[t].op = "pipe" /\ loc[t].new \in Ofds
        /\ loc[t].fd = None /\ loc[t].dst = None /\ (loc[t].arg = None \/ loc[t].ofd \in Ofds)
    BY <1>0, <1>5 DEF PipeCancel, Flow
  <2>2. UNCHANGED tables BY <1>5 DEF PipeCancel
  <2>3. Shape' /\ SameSlots BY <2>2 DEF NInv, Shape, SameSlots
  <2>4. {"ofdClear", "pipeCancel", "idle"} \subseteq Steps BY DEF Steps
  <2>5. ASSUME NEW l \in LocSet, l.op = "pipe", l.fd = None, l.dst = None,
               l.ofd = loc[t].new, l.arg = None,
               \/ l.after = "pipeCancel" /\ l.new \in Ofds
               \/ l.after = "idle" /\ l.new = None,
               Go(t, "ofdClear", l)
        PROVE  NInv'
    <3>1. Flow("ofdClear", l) BY <2>1, <2>5 DEF Flow
    <3>2. \A f \in Fds : Has("ofdClear", l, f) <=> Has(pc[t], loc[t], f)
      BY <2>1, <2>5 DEF Has
    <3> QED BY <2>2, <2>3, <2>4, <2>5, <3>1, <3>2, MovesNone
  <2>6. CASE loc[t].arg # None
    <3> DEFINE l == [loc[t] EXCEPT !.ofd = loc[t].new, !.new = loc[t].ofd, !.arg = None,
                                   !.after = "pipeCancel"]
    <3>1. Go(t, "ofdClear", l) BY <1>5, <2>6 DEF PipeCancel
    <3>2. /\ l \in LocSet /\ l.op = "pipe" /\ l.fd = None /\ l.dst = None /\ l.ofd = loc[t].new
          /\ l.arg = None /\ l.after = "pipeCancel" /\ l.new = loc[t].ofd
      BY <1>0, <2>1, <2>4
    <3> QED BY <2>1, <2>5, <2>6, <3>1, <3>2
  <2>7. CASE loc[t].arg = None
    <3> DEFINE l == [loc[t] EXCEPT !.ofd = loc[t].new, !.new = None, !.after = "idle"]
    <3>1. Go(t, "ofdClear", l) BY <1>5, <2>7 DEF PipeCancel
    <3>2. /\ l \in LocSet /\ l.op = "pipe" /\ l.fd = None /\ l.dst = None /\ l.ofd = loc[t].new
          /\ l.arg = None /\ l.after = "idle" /\ l.new = None
      BY <1>0, <2>1, <2>4, <2>7
    <3> QED BY <2>5, <3>1, <3>2
  <2> QED BY <2>6, <2>7
<1> QED BY <1>1, <1>2, <1>3, <1>4, <1>5

(* A call begins: it has no number yet, but close has the one it withdraws.   *)
LEMMA CallKeeps ==
  ASSUME NInv, PicksNumbers, NEW t \in Threads, Call(t), ~ CallOutside(t)
  PROVE  NInv'
<1> USE DEF Flow, OpenFlow, MqFlow, UseFlow, CloseFlow, FcntlFlow, DupFlow, PipeFlow
<1> HIDE DEF Flow
<1>1. ASSUME pc[t] = "idle"
      PROVE  loc[t] = Idle /\ \A f \in Fds : ~ Has(pc[t], loc[t], f)
  <2>1. Flow(pc[t], loc[t]) BY Here
  <2> QED BY <1>1, <2>1, Limits DEF Flow, Has, Idle
<1>2. /\ Idle.op = "none" /\ Idle.fd = None /\ Idle.dst = None /\ Idle.arg = None
      /\ Idle.ofd = None /\ Idle.new = None /\ Idle.ok = "idle" /\ Idle.no = "idle"
      /\ Idle.after = "idle" /\ Idle \in LocSet
  BY IdleFlow DEF Idle
<1>3. (UNCHANGED slot => SameSlots) /\ Fds \subseteq Args BY Limits DEF SameSlots
<1>4. CASE CallOpen(t)
  <2>1. PICK o \in ofdFree : /\ ofdFree' = ofdFree \ {o}
                             /\ Go(t, "openRef", [Idle EXCEPT !.op = "open", !.ofd = o, !.new = o])
    BY <1>4 DEF CallOpen
  <2> DEFINE l == [Idle EXCEPT !.op = "open", !.ofd = o, !.new = o]
  <2>2. pc[t] = "idle" /\ UNCHANGED <<fdFree, slot, oref, lost>> BY <1>4 DEF CallOpen
  <2>3. o \in Ofds BY Tables
  <2>4. l \in LocSet /\ l.op = "open" /\ l.ofd = o /\ l.new = o /\ l.fd = None /\ l.dst = None
        /\ l.after = "idle"
    BY <1>2, <2>3
  <2>5. Go(t, "openRef", l) BY <2>1
  <2> HIDE DEF l
  <2>6. Flow("openRef", l) /\ \A f \in Fds : ~ Has("openRef", l, f)
    BY <2>3, <2>4, Limits DEF Flow, Has
  <2>7. Shape' BY <2>1, <2>2 DEF NInv, Shape
  <2>s. "openRef" \in Steps BY DEF Steps
  <2> QED BY <2>s, <1>1, <1>3, <2>2, <2>4, <2>5, <2>6, <2>7, MovesNone
<1>5. CASE CallPipe(t)
  <2>1. PICK o \in ofdFree : /\ ofdFree' = ofdFree \ {o}
                             /\ Go(t, "pipeRef", [Idle EXCEPT !.op = "pipe", !.new = o, !.arg = o])
    BY <1>5 DEF CallPipe
  <2> DEFINE l == [Idle EXCEPT !.op = "pipe", !.new = o, !.arg = o]
  <2>2. pc[t] = "idle" /\ UNCHANGED <<fdFree, slot, oref, lost>> BY <1>5 DEF CallPipe
  <2>3. o \in Ofds /\ o \in Args BY Tables, Limits
  <2>4. l \in LocSet /\ l.op = "pipe" /\ l.new = o /\ l.arg = o /\ l.fd = None /\ l.dst = None
        /\ l.ofd = None
    BY <1>2, <2>3
  <2>5. Go(t, "pipeRef", l) BY <2>1
  <2> HIDE DEF l
  <2>6. Flow("pipeRef", l) /\ \A f \in Fds : ~ Has("pipeRef", l, f)
    BY <2>3, <2>4, Limits DEF Flow, Has
  <2>7. Shape' BY <2>1, <2>2 DEF NInv, Shape
  <2>s. "pipeRef" \in Steps BY DEF Steps
  <2> QED BY <2>s, <1>1, <1>3, <2>2, <2>4, <2>5, <2>6, <2>7, MovesNone
<1>6. ASSUME NEW l \in LocSet, Go(t, "refCheck", l), Flow("refCheck", l), l.dst = None,
             l.op \in {"use", "fcntl", "dup"}, pc[t] = "idle", UNCHANGED tables
      PROVE  NInv'
  <2>1. Shape' /\ SameSlots BY <1>6 DEF NInv, Shape, SameSlots
  <2>2. \A f \in Fds : ~ Has("refCheck", l, f) BY <1>6, Limits DEF Has
  <2>s. "refCheck" \in Steps BY DEF Steps
  <2> QED BY <2>s, <1>1, <1>6, <2>1, <2>2, MovesNone
<1>7. ASSUME NEW f \in Args, CallUse(t, f) PROVE NInv'
  <2> DEFINE k == [Idle EXCEPT !.op = "use", !.fd = f, !.after = "using"]
             l == [k EXCEPT !.arg = f, !.ok = "ofdRead", !.no = k.after]
  <2>1. {"ofdRead", "using"} \subseteq Steps BY DEF Steps
  <2>2. k \in LocSet /\ k.op = "use" /\ k.fd = f /\ k.dst = None /\ k.after = "using"
    BY <1>2, <2>1
  <2>3. l \in LocSet /\ l.op = "use" /\ l.fd = f /\ l.dst = None /\ l.after = "using"
        /\ l.arg = f /\ l.ok = "ofdRead" /\ l.no = "using"
    BY <2>1, <2>2
  <2>4. Go(t, "refCheck", l) /\ pc[t] = "idle" /\ UNCHANGED tables
    BY <1>7 DEF CallUse, EnterOfdRef
  <2> HIDE DEF l, k
  <2>5. Flow("refCheck", l) BY <2>3 DEF Flow
  <2> QED BY <1>6, <2>3, <2>4, <2>5
<1>8. ASSUME NEW f \in Args, CallFcntl(t, f) PROVE NInv'
  <2> DEFINE l == [Idle EXCEPT !.op = "fcntl", !.fd = f, !.arg = f, !.ok = "fcntlHeld"]
  <2>1. {"fcntlHeld"} \subseteq Steps BY DEF Steps
  <2>2. l \in LocSet /\ l.op = "fcntl" /\ l.fd = f /\ l.dst = None /\ l.arg = f
        /\ l.ok = "fcntlHeld" /\ l.no = "idle"
    BY <1>2, <2>1
  <2>3. Go(t, "refCheck", l) /\ pc[t] = "idle" /\ UNCHANGED tables BY <1>8 DEF CallFcntl
  <2> HIDE DEF l
  <2>4. Flow("refCheck", l) BY <2>2 DEF Flow
  <2> QED BY <1>6, <2>2, <2>3, <2>4
<1>9. ASSUME NEW f \in Args, CallDup(t, f) PROVE NInv'
  <2> DEFINE l == [Idle EXCEPT !.op = "dup", !.fd = f, !.arg = f, !.ok = "dupAlloc"]
  <2>1. {"dupAlloc"} \subseteq Steps BY DEF Steps
  <2>2. l \in LocSet /\ l.op = "dup" /\ l.fd = f /\ l.dst = None /\ l.arg = f
        /\ l.ok = "dupAlloc" /\ l.no = "idle"
    BY <1>2, <2>1
  <2>3. Go(t, "refCheck", l) /\ pc[t] = "idle" /\ UNCHANGED tables BY <1>9 DEF CallDup
  <2> HIDE DEF l
  <2>4. Flow("refCheck", l) BY <2>2 DEF Flow
  <2> QED BY <1>6, <2>2, <2>3, <2>4
<1>10. ASSUME NEW f \in Args, CallClose(t, f) PROVE NInv'
  <2>1. CASE f \notin Fds \/ slot[f].invalid
    <3>1. UNCHANGED <<fdFree, ofdFree, slot, oref, lost, pc, loc>> BY <1>10, <2>1 DEF CallClose
    <3> QED BY <3>1 DEF NInv, Shape, Calls, Numbers
  <2>2. CASE f \in Fds /\ ~ slot[f].invalid
    <3> DEFINE l == [Idle EXCEPT !.op = "close", !.fd = f]
    <3>1. l \in LocSet /\ l.op = "close" /\ l.fd = f /\ l.dst = None BY <1>2
    <3>2. Go(t, "closeRead", l) /\ pc[t] = "idle" /\ UNCHANGED <<fdFree, ofdFree, oref, lost>>
          /\ slot' = [slot EXCEPT ![f].invalid = TRUE]
      BY <1>10, <2>2 DEF CallClose
    <3> HIDE DEF l
    <3>3. Flow("closeRead", l) /\ \A g \in Fds : Has("closeRead", l, g) <=> g = f
      BY <2>2, <3>1 DEF Flow, CloseFlow, Has
    <3>4. slot' \in [Fds -> SlotSet]
          /\ \A g \in Fds : slot'[g].invalid <=> slot[g].invalid \/ g = f
      BY <3>2, Tables, StoresInvalid
    <3>5. Shape' BY <3>2, <3>4 DEF NInv, Shape
    <3>s. "closeRead" \in Steps BY DEF Steps
    <3> QED BY <3>s, <1>1, <2>2, <3>1, <3>2, <3>3, <3>4, <3>5, Withdraws
  <2> QED BY <2>1, <2>2
<1>11. ~ \E f, g \in Args : CallDup3(t, f, g) BY DEF CallDup3, PicksNumbers
<1>12. CASE CallMqOpen(t)
  <2>1. PICK f \in fdFree : /\ fdFree' = fdFree \ {f}
                             /\ Go(t, "mqOfd", [Idle EXCEPT !.op = "mqopen", !.dst = f])
    BY <1>12 DEF CallMqOpen
  <2> DEFINE l == [Idle EXCEPT !.op = "mqopen", !.dst = f]
  <2>2. pc[t] = "idle" /\ UNCHANGED <<ofdFree, slot, oref, lost>> BY <1>12 DEF CallMqOpen
  <2>3. f \in Fds BY Tables
  <2>4. l \in LocSet /\ l.op = "mqopen" /\ l.dst = f /\ l.fd = None /\ l.ofd = None
        /\ l.after = "idle"
    BY <1>2, <2>3
  <2>5. Go(t, "mqOfd", l) BY <2>1
  <2> HIDE DEF l
  <2>6. Flow("mqOfd", l) /\ \A g \in Fds : Has("mqOfd", l, g) <=> g = f
    BY <2>3, <2>4, Limits DEF Flow, Has
  <2>7. Shape' BY <2>1, <2>2 DEF NInv, Shape
  <2>s. "mqOfd" \in Steps BY DEF Steps
  <2> QED BY <2>s, <1>1, <1>3, <2>1, <2>2, <2>4, <2>5, <2>6, <2>7, TakesOne
<1> QED BY <1>4, <1>5, <1>7, <1>8, <1>9, <1>10, <1>11, <1>12 DEF Call

(* A number is taken, and may be given up again.                              *)
LEMMA TakeKeeps ==
  ASSUME NInv, NEW t \in Threads,
         \/ OpenFd(t) \/ OpenTruncate(t) \/ Obtain(t) \/ DupAlloc(t) \/ CloseRelease(t)
         \/ MqOfd(t)
  PROVE  NInv'
<1> USE DEF Flow, OpenFlow, MqFlow, UseFlow, CloseFlow, FcntlFlow, DupFlow, PipeFlow
<1>0. loc[t] \in LocSet /\ pc[t] \in Steps /\ Flow(pc[t], loc[t]) BY Here
<1> HIDE DEF Flow
<1>1. UNCHANGED slot => SameSlots BY DEF SameSlots
<1>2. CASE OpenFd(t)
  <2>1. pc[t] = "openFd" /\ loc[t].op = "open" /\ loc[t].dst = None /\ loc[t].ofd \in Ofds
        /\ loc[t].new = loc[t].ofd /\ loc[t].fd = None /\ loc[t].after = "idle"
    BY <1>0, <1>2 DEF OpenFd, Flow
  <2>2. UNCHANGED <<ofdFree, slot, oref, lost>> BY <1>2 DEF OpenFd
  <2>3. CASE Go(t, "ofdClear", loc[t]) /\ UNCHANGED fdFree
    <3>2. Flow("ofdClear", loc[t]) BY <1>0, <2>1, Limits DEF Flow
    <3>3. \A f \in Fds : Has("ofdClear", loc[t], f) <=> Has(pc[t], loc[t], f)
      BY <2>1 DEF Has
    <3>4. Shape' BY <2>2, <2>3 DEF NInv, Shape
    <3>s. "ofdClear" \in Steps BY DEF Steps
    <3> QED BY <3>s, <1>0, <1>1, <2>2, <2>3, <3>2, <3>3, <3>4, MovesNone
  <2>4. ASSUME NEW f \in fdFree, fdFree' = fdFree \ {f},
               Go(t, "openTruncate", [loc[t] EXCEPT !.dst = f])
        PROVE  NInv'
    <3> DEFINE l == [loc[t] EXCEPT !.dst = f]
    <3>2. f \in Fds BY Tables
    <3>3. l \in LocSet /\ l.op = "open" /\ l.dst = f /\ l.ofd = loc[t].ofd
          /\ l.new = loc[t].new /\ l.fd = None /\ l.after = "idle"
      BY <1>0, <2>1, <3>2
    <3>4. Go(t, "openTruncate", l) BY <2>4
    <3> HIDE DEF l
    <3>5. Flow("openTruncate", l) BY <2>1, <3>2, <3>3 DEF Flow
    <3>6. \A g \in Fds : Has("openTruncate", l, g) <=> Has(pc[t], loc[t], g) \/ g = f
      BY <2>1, <3>3, Limits DEF Has
    <3>7. Shape' BY <2>2, <2>4 DEF NInv, Shape
    <3>s. "openTruncate" \in Steps BY DEF Steps
    <3> QED BY <3>s, <1>1, <2>2, <2>4, <3>3, <3>4, <3>5, <3>6, <3>7, TakesOne
  <2> QED BY <1>2, <2>3, <2>4 DEF OpenFd
<1>3. CASE OpenTruncate(t)
  <2>1. pc[t] = "openTruncate" /\ loc[t].op = "open" /\ loc[t].dst \in Fds /\ loc[t].ofd \in Ofds
        /\ loc[t].new = loc[t].ofd /\ loc[t].fd = None /\ loc[t].after = "idle"
    BY <1>0, <1>3 DEF OpenTruncate, Flow
  <2>2. UNCHANGED <<ofdFree, slot, oref, lost>> BY <1>3 DEF OpenTruncate
  <2>3. CASE Go(t, "storeOfd", loc[t]) /\ UNCHANGED fdFree
    <3>1. Flow("storeOfd", loc[t]) BY <1>0, <2>1 DEF Flow
    <3>2. \A f \in Fds : Has("storeOfd", loc[t], f) <=> Has(pc[t], loc[t], f)
      BY <2>1 DEF Has
    <3>3. Shape' BY <2>2, <2>3 DEF NInv, Shape
    <3>s. "storeOfd" \in Steps BY DEF Steps
    <3> QED BY <3>s, <1>0, <1>1, <2>2, <2>3, <3>1, <3>2, <3>3, MovesNone
  <2>4. CASE fdFree' = fdFree \cup {loc[t].dst}
             /\ Go(t, "ofdClear", [loc[t] EXCEPT !.dst = None])
    <3> DEFINE l == [loc[t] EXCEPT !.dst = None]
    <3>1. l \in LocSet /\ l.op = "open" /\ l.dst = None /\ l.ofd = loc[t].ofd
          /\ l.new = loc[t].new /\ l.fd = None /\ l.after = "idle"
      BY <1>0, <2>1
    <3>2. Go(t, "ofdClear", l) BY <2>4
    <3> HIDE DEF l
    <3>3. Flow("ofdClear", l) BY <2>1, <3>1, Limits DEF Flow
    <3>4. Has(pc[t], loc[t], loc[t].dst)
          /\ \A g \in Fds : Has("ofdClear", l, g) <=> Has(pc[t], loc[t], g) /\ g # loc[t].dst
      BY <2>1, <3>1, Limits DEF Has
    <3>5. Shape' BY <2>1, <2>2, <2>4 DEF NInv, Shape
    <3>s. "ofdClear" \in Steps BY DEF Steps
    <3> QED BY <3>s, <1>1, <2>1, <2>2, <2>4, <3>1, <3>2, <3>3, <3>4, <3>5, GivesOne
  <2> QED BY <1>3, <2>3, <2>4 DEF OpenTruncate
<1>5. CASE Obtain(t)
  <2>1. pc[t] = "obtain" /\ loc[t].op = "fcntl" /\ loc[t].dst = None /\ loc[t].fd \in Fds
    BY <1>0, <1>5 DEF Obtain, Flow
  <2>2. UNCHANGED <<ofdFree, slot, oref>> BY <1>5 DEF Obtain
  <2>3. CASE /\ Go(t, "ofdDec", [loc[t] EXCEPT !.after = "refDrop"])
             /\ UNCHANGED <<fdFree, lost>>
    <3> DEFINE l == [loc[t] EXCEPT !.after = "refDrop"]
    <3>1. Go(t, "ofdDec", l) BY <2>3
    <3>2. "refDrop" \in Steps BY DEF Steps
    <3>3. l \in LocSet /\ l.op = "fcntl" /\ l.fd = loc[t].fd /\ l.dst = None /\ l.after = "refDrop"
      BY <1>0, <2>1, <3>2
    <3> HIDE DEF l
    <3>4. Flow("ofdDec", l) BY <1>0, <2>1, <3>3 DEF Flow
    <3>5. \A f \in Fds : Has("ofdDec", l, f) <=> Has(pc[t], loc[t], f)
      BY <2>1, <3>3, Limits DEF Has
    <3>6. Shape' BY <2>2, <2>3 DEF NInv, Shape
    <3>s. "ofdDec" \in Steps BY DEF Steps
    <3> QED BY <3>s, <1>1, <2>2, <2>3, <3>1, <3>3, <3>4, <3>5, <3>6, MovesNone
  <2>4. ASSUME NEW f \in fdFree, fdFree' = fdFree \ {f}, LoseFds({f}), Go(t, "dupInc", loc[t])
        PROVE  NInv'
    <3>1. {f} \in SUBSET Fds BY Tables
    <3>2. lost' \in [fds : SUBSET Fds, refs : [Ofds -> Nat]] /\ lost'.fds = lost.fds \cup {f}
      BY <2>4, <3>1, LostFds
    <3>3. Shape' BY <2>2, <2>4, <3>2 DEF NInv, Shape
    <3>4. Flow("dupInc", loc[t]) BY <1>0, <2>1 DEF Flow
    <3>5. \A g \in Fds : Has("dupInc", loc[t], g) <=> Has(pc[t], loc[t], g)
      BY <2>1 DEF Has
    <3>s. "dupInc" \in Steps BY DEF Steps
    <3> QED BY <3>s, <1>0, <1>1, <2>2, <2>4, <3>2, <3>3, <3>4, <3>5, LosesFree
  <2> QED BY <1>5, <2>3, <2>4 DEF Obtain
<1>6. CASE DupAlloc(t)
  <2>1. pc[t] = "dupAlloc" /\ loc[t].op = "dup" /\ loc[t].dst = None /\ loc[t].fd \in Fds
    BY <1>0, <1>6 DEF DupAlloc, Flow
  <2>2. UNCHANGED <<ofdFree, slot, oref, lost>> BY <1>6 DEF DupAlloc
  <2>3. CASE Go(t, "refDrop", loc[t]) /\ UNCHANGED fdFree
    <3>2. Flow("refDrop", loc[t]) BY <1>0, <2>1 DEF Flow
    <3>3. \A f \in Fds : Has("refDrop", loc[t], f) <=> Has(pc[t], loc[t], f)
      BY <2>1, Limits DEF Has
    <3>4. Shape' BY <2>2, <2>3 DEF NInv, Shape
    <3>s. "refDrop" \in Steps BY DEF Steps
    <3> QED BY <3>s, <1>0, <1>1, <2>2, <2>3, <3>2, <3>3, <3>4, MovesNone
  <2>4. ASSUME NEW f \in fdFree, fdFree' = fdFree \ {f},
               Go(t, "storeOfd", [loc[t] EXCEPT !.dst = f, !.new = slot[loc[t].fd].ofd])
        PROVE  NInv'
    <3> DEFINE l == [loc[t] EXCEPT !.dst = f, !.new = slot[loc[t].fd].ofd]
    <3>1. f \in Fds /\ slot[loc[t].fd].ofd \in Ofds BY <2>1, Tables DEF SlotSet
    <3>2. l \in LocSet /\ l.op = "dup" /\ l.dst = f /\ l.new = slot[loc[t].fd].ofd
          /\ l.fd = loc[t].fd
      BY <1>0, <2>1, <3>1
    <3>3. Go(t, "storeOfd", l) BY <2>4
    <3> HIDE DEF l
    <3>4. Flow("storeOfd", l) BY <1>0, <2>1, <3>1, <3>2, Limits DEF Flow
    <3>5. \A g \in Fds : Has("storeOfd", l, g) <=> Has(pc[t], loc[t], g) \/ g = f
      BY <2>1, <3>2, Limits DEF Has
    <3>6. Shape' BY <2>2, <2>4 DEF NInv, Shape
    <3>s. "storeOfd" \in Steps BY DEF Steps
    <3> QED BY <3>s, <1>1, <2>2, <2>4, <3>2, <3>3, <3>4, <3>5, <3>6, TakesOne
  <2> QED BY <1>6, <2>3, <2>4 DEF DupAlloc
<1>7. CASE CloseRelease(t)
  <2>1. pc[t] = "closeRelease" /\ loc[t].op = "close" /\ loc[t].fd \in Fds
    BY <1>0, <1>7 DEF CloseRelease, Flow
  <2>2. /\ fdFree' = fdFree \cup {loc[t].fd} /\ Go(t, "idle", Idle)
        /\ UNCHANGED <<ofdFree, slot, oref, lost>>
    BY <1>7 DEF CloseRelease
  <2>3. Has(pc[t], loc[t], loc[t].fd)
        /\ \A g \in Fds : Has("idle", Idle, g) <=> Has(pc[t], loc[t], g) /\ g # loc[t].fd
    BY <2>1 DEF Has, Idle
  <2>4. Shape' BY <2>1, <2>2 DEF NInv, Shape
  <2>s. "idle" \in Steps BY DEF Steps
  <2> QED BY <2>s, <1>1, <2>1, <2>2, <2>3, <2>4, GivesOne
<1>8. CASE MqOfd(t)
  <2>1. pc[t] = "mqOfd" /\ loc[t].op = "mqopen" /\ loc[t].dst \in Fds /\ loc[t].fd = None
        /\ loc[t].after = "idle"
    BY <1>0, <1>8 DEF MqOfd, Flow
  <2>2. UNCHANGED <<fdFree, slot, oref>> BY <1>8 DEF MqOfd
  <2>3. CASE LoseFds({loc[t].dst}) /\ Go(t, "idle", Idle) /\ UNCHANGED ofdFree
    <3>1. lost' \in [fds : SUBSET Fds, refs : [Ofds -> Nat]]
          /\ lost'.fds = lost.fds \cup {loc[t].dst}
      BY <2>1, <2>3, LostFds
    <3>2. Shape' BY <2>2, <2>3, <3>1 DEF NInv, Shape
    <3>3. {loc[t].dst} = {f \in Fds : Has(pc[t], loc[t], f)} BY <2>1 DEF Has
    <3>4. \A f \in Fds : ~ Has("idle", Idle, f) BY DEF Has, Idle
    <3>s. "idle" \in Steps BY DEF Steps
    <3> QED BY <3>s, <1>1, <2>2, <2>3, <3>1, <3>2, <3>3, <3>4, LosesAll
  <2>4. ASSUME NEW o \in ofdFree, ofdFree' = ofdFree \ {o}, UNCHANGED lost,
               Go(t, "openRef", [loc[t] EXCEPT !.ofd = o, !.new = o])
        PROVE  NInv'
    <3> DEFINE l == [loc[t] EXCEPT !.ofd = o, !.new = o]
    <3>1. o \in Ofds BY Tables
    <3>2. /\ l \in LocSet /\ l.op = "mqopen" /\ l.dst = loc[t].dst /\ l.fd = None
          /\ l.ofd = o /\ l.new = o /\ l.after = "idle"
      BY <1>0, <2>1, <3>1
    <3>3. Go(t, "openRef", l) BY <2>4
    <3> HIDE DEF l
    <3>4. Flow("openRef", l) BY <2>1, <3>1, <3>2 DEF Flow
    <3>5. \A f \in Fds : Has("openRef", l, f) <=> Has(pc[t], loc[t], f)
      BY <2>1, <3>2 DEF Has
    <3>6. Shape' BY <2>2, <2>4 DEF NInv, Shape
    <3>s. "openRef" \in Steps BY DEF Steps
    <3> QED BY <3>s, <1>1, <2>2, <2>4, <3>2, <3>3, <3>4, <3>5, <3>6, MovesNone
  <2> QED BY <1>8, <2>3, <2>4 DEF MqOfd
<1> QED BY <1>2, <1>3, <1>5, <1>6, <1>7, <1>8

(* The numbers of a pipe: taken one after the other, and lost when there is   *)
(* no second one.                                                             *)
LEMMA PipeFdKeeps ==
  ASSUME NInv, NEW t \in Threads, PipeFd(t)
  PROVE  NInv'
<1> USE DEF Flow, OpenFlow, MqFlow, UseFlow, CloseFlow, FcntlFlow, DupFlow, PipeFlow
<1>0. loc[t] \in LocSet /\ pc[t] \in Steps /\ Flow(pc[t], loc[t]) BY Here
<1> HIDE DEF Flow
<1>1. UNCHANGED slot => SameSlots BY DEF SameSlots
<1>2. /\ pc[t] = "pipeFd" /\ loc[t].op = "pipe" /\ loc[t].new \in Ofds /\ loc[t].fd = None
      /\ loc[t].ofd \in Ofds /\ loc[t].arg = loc[t].ofd /\ loc[t].dst \in FdOrNone
  BY <1>0 DEF PipeFd, Flow
<1>3. UNCHANGED <<ofdFree, slot, oref>> BY DEF PipeFd
<1>4. CASE /\ LoseFds({loc[t].dst} \ {None}) /\ UNCHANGED fdFree
           /\ Go(t, "pipeCancel", [loc[t] EXCEPT !.dst = None])
  <2> DEFINE l == [loc[t] EXCEPT !.dst = None]
             N == {loc[t].dst} \ {None}
  <2>1. Go(t, "pipeCancel", l) BY <1>4
  <2>2. /\ l \in LocSet /\ l.op = "pipe" /\ l.dst = None /\ l.fd = None
        /\ l.new = loc[t].new /\ l.ofd = loc[t].ofd /\ l.arg = loc[t].arg
    BY <1>0, <1>2
  <2> HIDE DEF l
  <2>3. Flow("pipeCancel", l) /\ \A f \in Fds : ~ Has("pipeCancel", l, f)
    BY <1>2, <2>2, Limits DEF Flow, Has
  <2>4. N = {f \in Fds : Has(pc[t], loc[t], f)}
    BY <1>2, Limits DEF Has
  <2>5. lost' \in [fds : SUBSET Fds, refs : [Ofds -> Nat]] /\ lost'.fds = lost.fds \cup N
    BY <1>4, <2>4, LostFds
  <2> HIDE DEF N
  <2>6. Shape' BY <1>3, <1>4, <2>5 DEF NInv, Shape
  <2>s. "pipeCancel" \in Steps BY DEF Steps
  <2> QED BY <2>s, <1>1, <1>3, <1>4, <2>1, <2>2, <2>3, <2>4, <2>5, <2>6, LosesAll
<1>5. ASSUME NEW f \in fdFree, fdFree' = fdFree \ {f}, UNCHANGED lost,
             IF loc[t].dst = None
             THEN Go(t, "pipeFd", [loc[t] EXCEPT !.dst = f])
             ELSE Go(t, "storeOfd", [loc[t] EXCEPT !.fd = f])
      PROVE  NInv'
  <2>1. /\ fdFree' = fdFree \ {f} /\ UNCHANGED lost
        /\ IF loc[t].dst = None
           THEN Go(t, "pipeFd", [loc[t] EXCEPT !.dst = f])
           ELSE Go(t, "storeOfd", [loc[t] EXCEPT !.fd = f])
    BY <1>5
  <2>2. f \in Fds /\ f \in Args BY Tables, Limits
  <2>3. Shape' BY <1>3, <2>1 DEF NInv, Shape
  <2>4. CASE loc[t].dst = None
    <3> DEFINE l == [loc[t] EXCEPT !.dst = f]
    <3>1. /\ l \in LocSet /\ l.op = "pipe" /\ l.dst = f /\ l.fd = None
          /\ l.new = loc[t].new /\ l.ofd = loc[t].ofd /\ l.arg = loc[t].arg
      BY <1>0, <1>2, <2>2
    <3>2. Go(t, "pipeFd", l) BY <2>1, <2>4
    <3> HIDE DEF l
    <3>3. Flow("pipeFd", l) BY <1>2, <3>1 DEF Flow
    <3>4. \A g \in Fds : Has("pipeFd", l, g) <=> Has(pc[t], loc[t], g) \/ g = f
      BY <1>2, <2>4, <3>1, Limits DEF Has
    <3>s. "pipeFd" \in Steps BY DEF Steps
    <3> QED BY <3>s, <1>1, <1>3, <2>1, <2>3, <3>1, <3>2, <3>3, <3>4, TakesOne
  <2>5. CASE loc[t].dst # None
    <3> DEFINE l == [loc[t] EXCEPT !.fd = f]
    <3>1. /\ l \in LocSet /\ l.op = "pipe" /\ l.dst = loc[t].dst /\ l.fd = f
          /\ l.new = loc[t].new /\ l.ofd = loc[t].ofd /\ l.arg = loc[t].arg
      BY <1>0, <1>2, <2>2
    <3>2. Go(t, "storeOfd", l) BY <2>1, <2>5
    <3> HIDE DEF l
    <3>3. loc[t].dst \in Fds /\ loc[t].dst \notin fdFree
      <4>1. loc[t].dst \in Fds BY <1>2, <2>5
      <4>2. Has(pc[t], loc[t], loc[t].dst) BY <1>2 DEF Has
      <4> QED BY <4>1, <4>2 DEF NInv, Numbers
    <3>4. Flow("storeOfd", l) BY <1>2, <2>1, <2>2, <3>1, <3>3, Limits DEF Flow
    <3>5. \A g \in Fds : Has("storeOfd", l, g) <=> Has(pc[t], loc[t], g) \/ g = f
      BY <1>2, <3>1, Limits DEF Has
    <3>s. "storeOfd" \in Steps BY DEF Steps
    <3> QED BY <3>s, <1>1, <1>3, <2>1, <2>3, <3>1, <3>2, <3>4, <3>5, TakesOne
  <2> QED BY <2>4, <2>5
<1> QED BY <1>4, <1>5 DEF PipeFd

(* The last store makes a number one that is open.                            *)
LEMMA PublishKeeps ==
  ASSUME NInv, NEW t \in Threads, StoreValid(t)
  PROVE  NInv'
<1> USE DEF Flow, OpenFlow, MqFlow, UseFlow, CloseFlow, FcntlFlow, DupFlow, PipeFlow
<1>0. loc[t] \in LocSet /\ pc[t] \in Steps /\ Flow(pc[t], loc[t]) BY Here
<1> HIDE DEF Flow
<1> DEFINE g == loc[t].dst
<1>1. /\ pc[t] = "storeValid" /\ loc[t].op \in {"open", "mqopen", "dup", "pipe"} /\ g \in Fds
      /\ Has(pc[t], loc[t], g)
  BY <1>0 DEF StoreValid, Flow, Has
<1>2. /\ slot' = [slot EXCEPT ![g].invalid = FALSE]
      /\ UNCHANGED <<fdFree, ofdFree, oref, lost>>
  BY DEF StoreValid
<1> HIDE DEF g
<1>3. /\ slot' \in [Fds -> SlotSet]
      /\ \A f \in Fds : slot'[f].invalid <=> slot[f].invalid /\ f # g
  BY <1>1, <1>2, Tables, StoresInvalid
<1>4. Shape' BY <1>2, <1>3 DEF NInv, Shape
<1> USE DEF g
<1>5. CASE loc[t].op = "open"
  <2>1. Go(t, "idle", Idle) BY <1>5 DEF StoreValid
  <2>2. \A f \in Fds : Has("idle", Idle, f) <=> Has(pc[t], loc[t], f) /\ f # g
    BY <1>1, <1>5 DEF Has, Idle
  <2>s. "idle" \in Steps BY DEF Steps
  <2> QED BY <2>s, <1>1, <1>2, <1>3, <1>4, <2>1, <2>2, Publishes
<1>6. CASE loc[t].op = "mqopen"
  <2>1. Go(t, "mqBind", loc[t]) BY <1>6 DEF StoreValid
  <2>2. Flow("mqBind", loc[t]) BY <1>0, <1>1, <1>6 DEF Flow
  <2>3. \A f \in Fds : Has("mqBind", loc[t], f) <=> Has(pc[t], loc[t], f) /\ f # g
    BY <1>1, <1>6 DEF Has
  <2>s. "mqBind" \in Steps BY DEF Steps
  <2> QED BY <2>s, <1>0, <1>1, <1>2, <1>3, <1>4, <2>1, <2>2, <2>3, Publishes
<1>7. CASE loc[t].op = "dup"
  <2>1. Go(t, "refDrop", loc[t]) BY <1>7 DEF StoreValid
  <2>2. Flow("refDrop", loc[t]) BY <1>0, <1>1, <1>7 DEF Flow
  <2>3. \A f \in Fds : Has("refDrop", loc[t], f) <=> Has(pc[t], loc[t], f) /\ f # g
    BY <1>1, <1>7 DEF Has
  <2>s. "refDrop" \in Steps BY DEF Steps
  <2> QED BY <2>s, <1>0, <1>1, <1>2, <1>3, <1>4, <2>1, <2>2, <2>3, Publishes
<1>8. CASE loc[t].op = "pipe"
  <2> DEFINE p == IF loc[t].fd = None THEN "idle" ELSE "storeOfd"
             l == [loc[t] EXCEPT !.dst = loc[t].fd, !.new = loc[t].ofd,
                                 !.fd = None, !.ofd = None]
  <2>1. Go(t, p, l) BY <1>8 DEF StoreValid
  <2>2. /\ l \in LocSet /\ l.op = "pipe" /\ l.dst = loc[t].fd /\ l.new = loc[t].ofd
        /\ l.fd = None /\ l.ofd = None
    <3>1. loc[t].fd \in FdOrNone BY <1>0, <1>1, <1>8 DEF Flow
    <3> QED BY <1>0, <1>8, <3>1
  <2>3. (loc[t].fd = None <=> loc[t].ofd = None) /\ loc[t].fd # g
    BY <1>0, <1>1, <1>8 DEF Flow
  <2> HIDE DEF l
  <2>4. p # "idle" => Flow(p, l) BY <1>0, <2>2, <2>3, Limits DEF Flow
  <2>5. \A f \in Fds : Has(p, Moved(t, p, l), f) <=> Has(pc[t], loc[t], f) /\ f # g
    BY <1>0, <1>1, <1>8, <2>2, <2>3, Limits DEF Has, Idle
  <2>6. p \in Steps BY DEF Steps
  <2> HIDE DEF p
  <2> QED BY <1>1, <1>2, <1>3, <1>4, <2>1, <2>2, <2>4, <2>5, <2>6, Publishes
<1> QED BY <1>1, <1>5, <1>6, <1>7, <1>8

LEMMA NInvInit == Init => NInv
<1> SUFFICES ASSUME Init PROVE NInv OBVIOUS
<1>1. \A o \in StdFds : o \in Ofds BY CapsAssumption DEF Ofds
<1>2. Shape
  <2>1. slot \in [Fds -> SlotSet]
    <3>1. 0 \in Ofds BY CapsAssumption DEF Ofds
    <3> QED BY <1>1, <3>1 DEF Init, SlotSet
  <2> QED BY <1>1, <2>1, Limits DEF Init, Shape
<1>3. Calls BY IdleFlow DEF Init, Calls, Steps
<1>4. Numbers BY Limits DEF Init, Numbers, Has, Idle
<1> QED BY <1>2, <1>3, <1>4 DEF NInv

(* A thread that touches memory outside ends the process.                     *)
LEMMA ProcessEnds ==
  ASSUME NInv, NEW t \in Threads, CallOutside(t) \/ LeaveTables(t)
  PROVE  Overrun'
<1>1. pc \in [Threads -> Steps] BY DEF NInv, Calls
<1>2. pc' = [pc EXCEPT ![t] = "outside"] BY DEF CallOutside, LeaveTables, Go
<1> QED BY <1>1, <1>2 DEF Overrun

LEMMA Stopped == Overrun /\ [Next]_vars => Overrun'
BY DEF Overrun, Next, Gone, Ended, vars

LEMMA NInvNext == PicksNumbers /\ NInv /\ [Next]_vars => NInv' \/ Overrun'
<1> SUFFICES ASSUME PicksNumbers, NInv, [Next]_vars PROVE NInv' \/ Overrun' OBVIOUS
<1>1. CASE UNCHANGED vars BY <1>1 DEF vars, NInv, Shape, Calls, Numbers
<1>2. ASSUME NEW t \in Threads, Call(t) PROVE NInv' \/ Overrun' BY <1>2, CallKeeps, ProcessEnds
<1>3. ASSUME NEW t \in Threads, Work(t) PROVE NInv' \/ Overrun'
  <2>1. Flow(pc[t], loc[t]) BY Here
  <2>2. pc[t] \notin {"dup3Target", "possess", "reuseRead", "reuseInc", "reuseStore", "reuseDrop"}
    BY <2>1 DEF Flow, OpenFlow, MqFlow, UseFlow, CloseFlow, FcntlFlow, DupFlow, PipeFlow, NInv, Calls
  <2>3. ~ Dup3Target(t) /\ ~ Possess(t) BY <2>2 DEF Dup3Target, Possess
  <2>4. ~ ReuseRead(t) /\ ~ ReuseInc(t) /\ ~ ReuseStore(t) /\ ~ ReuseDrop(t)
    BY <2>2 DEF ReuseRead, ReuseInc, ReuseStore, ReuseDrop
  <2> QED BY <1>3, <2>3, <2>4, RefKeeps, OfdKeeps, StoreKeeps, MakeKeeps, TakeKeeps, PipeFdKeeps,
             PublishKeeps, ProcessEnds DEF Work
<1> QED BY <1>1, <1>2, <1>3 DEF Next, Gone

(* What the property says of a call is what the invariant says of it.         *)
LEMMA OwnsHas ==
  ASSUME NInv, NEW t \in Threads, NEW f \in Fds, slot[f].invalid
  PROVE  Owns(t, f) <=> Has(pc[t], loc[t], f)
<1>1. Flow(pc[t], loc[t]) /\ loc[t] \in LocSet BY Here
<1>2. Has(pc[t], loc[t], f) => f \notin fdFree \cup lost.fds BY DEF NInv, Numbers
<1> QED BY <1>1, <1>2, Limits
  DEF Owns, Has, Flow, OpenFlow, MqFlow, UseFlow, CloseFlow, FcntlFlow, DupFlow, PipeFlow

LEMMA NumbersSound ==
  ASSUME NInv
  PROVE  FdBookkeeping
<1> SUFFICES ASSUME NEW f \in Fds
             PROVE  LET owners == {t \in Threads : Owns(t, f)} IN
      /\ f \in fdFree \cup lost.fds => slot[f].invalid /\ owners = {}
      /\ f \notin fdFree \cup lost.fds /\ slot[f].invalid => Cardinality(owners) = 1
      /\ f \notin fdFree \cap lost.fds
      /\ ~ slot[f].invalid => owners \subseteq {t \in Threads : loc[t].op = "dup3"}
  BY DEF FdBookkeeping
<1> DEFINE owners == {t \in Threads : Owns(t, f)}
<1>1. f \in fdFree \cup lost.fds => slot[f].invalid /\ owners = {}
  BY OwnsHas DEF NInv, Numbers
<1>2. ASSUME f \notin fdFree \cup lost.fds, slot[f].invalid PROVE Cardinality(owners) = 1
  <2>1. PICK t \in Threads : Has(pc[t], loc[t], f) BY <1>2 DEF NInv, Numbers
  <2>2. owners = {t} BY <1>2, <2>1, OwnsHas DEF NInv, Numbers
  <2> QED BY <2>2, FS_Singleton
<1>3. f \notin fdFree \cap lost.fds BY DEF NInv, Numbers
<1>4. ~ slot[f].invalid => owners \subseteq {t \in Threads : loc[t].op = "dup3"}
  BY DEF Owns, NInv, Numbers, Has
<1> QED BY <1>1, <1>2, <1>3, <1>4

(* Whatever the threads open, use, copy with dup or fcntl and close, and      *)
(* whether or not they heed each other: until memory outside the tables is    *)
(* touched, a number is free, or open, or belongs to one call, or was lost by *)
(* a pipe, an mq_open or F_DUPFD (psx_ofd.c:74-184).  A dup3 names its number *)
(* itself; it is left to TLC.                                                 *)
THEOREM NumbersKept == PicksNumbers /\ Spec => []FdBookkeeping
<1> SUFFICES ASSUME PicksNumbers PROVE Spec => []FdBookkeeping OBVIOUS
<1>1. Init => NInv BY NInvInit
<1>2. (NInv \/ Overrun) /\ [Next]_vars => (NInv \/ Overrun)' BY NInvNext, Stopped
<1>3. NInv \/ Overrun => FdBookkeeping BY NumbersSound DEF FdBookkeeping
<1> QED BY <1>1, <1>2, <1>3, PTL DEF Spec
=============================================================================
