------------------------ MODULE MessageQueue_proofs ------------------------
(* curmsgs of the message queues.  The counter goes wrong when bodies of      *)
(* calls collide, and only then: until two calls have picked the same slot or *)
(* written a count that was stale, the slots, the count and the calls between *)
(* the two agree, however the bodies overlap.                                 *)
EXTENDS MessageQueue, FiniteSetTheorems, WellFoundedInduction, TLAPS

(* What the variables hold, in the widths that the code never leaves however  *)
(* its calls overlap.                                                         *)
Slot == [used : BOOLEAN, seq : Nat, msg : Msgs \cup {None}]
Queue == [used : BOOLEAN, name : Names \cup {None}, maxmsg : Nat, curmsgs : Nat,
          nextSeq : Nat, nonblock : BOOLEAN, slots : [Places -> Slot]]
Locals == [op : {"none", "open", "send", "receive"}, queue : 0 .. Cap,
           name : Names \cup {None}, fresh : BOOLEAN, maxmsg : Nat, nonblock : BOOLEAN,
           at : Int, msg : Msgs \cup {None}, fits : BOOLEAN,
           slot : 0 .. Slots, read : Nat]

SlotSteps == {"sendMark", "sendSeqRead", "sendSeq", "sendBody", "receiveCopy", "receiveClear"}

(* A call is at a step with the locals that the step reads.                   *)
Fits(step, l) ==
    /\ step \in Steps /\ l \in Locals
    /\ step \notin {"idle", "createScan"} => l.queue \in Queues
    /\ step \in SlotSteps => l.slot \in Places

Shape ==
    /\ table \in [Queues -> Queue]
    /\ lives \in [Queues -> Nat]
    /\ bound \subseteq Queues
    /\ pc \in [Threads -> Steps] /\ loc \in [Threads -> Locals]
    /\ \A t \in Threads : Fits(pc[t], loc[t])

-----------------------------------------------------------------------------
(* The steps of a call between its slot and its count.                        *)
In == {"sendSeqRead", "sendSeq", "sendBody", "sendCountRead", "sendCount"}
Out == {"receiveCountRead", "receiveCount"}

IInv == Shape /\ CountBalanced

USE DEF SlotSteps, In, Out, Steps, Outside, Queues, Places, NoDeadline

-----------------------------------------------------------------------------
(* The lowest of some entries is one of them.                                 *)
LEMMA LowestOf ==
  ASSUME NEW S, S \subseteq Nat, S # {}
  PROVE  Lowest(S) \in S
<1> DEFINE below == {0 .. q : q \in S}
<1>1. below \subseteq FiniteSubsetsOf(Nat)
  <2>1. ASSUME NEW q \in Nat PROVE IsFiniteSet(0 .. q)
    <3>1. 0 \in Int /\ q \in Int OBVIOUS
    <3> QED BY <3>1, FS_Interval
  <2>2. \A q \in Nat : 0 .. q \in FiniteSubsetsOf(Nat) BY <2>1 DEF FiniteSubsetsOf
  <2> QED BY <2>2
<1>2. below # {} OBVIOUS
<1>3. PICK x \in below : \A y \in below : ~ (<<y, x>> \in StrictSubsetOrdering(Nat))
  <2> HIDE DEF below
  <2>1. IsWellFoundedOn(StrictSubsetOrdering(Nat), FiniteSubsetsOf(Nat))
    BY FS_StrictSubsetOrderingWellFounded
  <2> QED BY <1>1, <1>2, <2>1, WFMin, Zenon
<1>4. PICK q \in S : x = 0 .. q BY <1>3
<1>5. ASSUME NEW r \in S, ~ (q <= r) PROVE FALSE
  <2>1. r < q /\ r \in Nat /\ q \in Nat BY <1>5
  <2>2. 0 .. r \subseteq 0 .. q /\ q \in 0 .. q /\ q \notin 0 .. r BY <2>1
  <2>3. <<0 .. r, 0 .. q>> \in StrictSubsetOrdering(Nat)
    BY <2>1, <2>2 DEF StrictSubsetOrdering
  <2> QED BY <1>3, <1>4, <2>3
<1> QED BY <1>5 DEF Lowest

LEMMA IdleFits == Fits("idle", Idle) /\ Idle \in Locals
BY SizeAssumption DEF Fits, Idle, Locals

(* Where a call goes, its locals fit.                                         *)
LEMMA Moves ==
  ASSUME Shape, NEW t \in Threads, NEW step, NEW l, Fits(step, l), Go(t, step, l)
  PROVE  /\ pc' \in [Threads -> Steps] /\ loc' \in [Threads -> Locals]
         /\ \A u \in Threads : Fits(pc'[u], loc'[u])
         /\ pc' = [pc EXCEPT ![t] = step]
         /\ \A u \in Threads \ {t} : loc'[u] = loc[u]
         /\ loc'[t].queue = IF step = "idle" THEN 0 ELSE l.queue
<1> DEFINE new == IF step = "idle" THEN Idle ELSE l
<1>1. Fits(step, new) BY IdleFits
<1>2. pc' = [pc EXCEPT ![t] = step] /\ loc' = [loc EXCEPT ![t] = new] BY DEF Go
<1>3. new \in Locals /\ step \in Steps BY <1>1 DEF Fits
<1>4. new.queue = (IF step = "idle" THEN 0 ELSE l.queue)
  BY DEF Idle
<1> HIDE DEF new
<1> QED BY <1>1, <1>2, <1>3, <1>4 DEF Shape

(* A step that neither begins nor ends the work on a count.                   *)
Quietly(t, step, l) ==
    /\ Fits(step, l) /\ Go(t, step, l)
    /\ \/ step \notin In \cup Out /\ pc[t] \notin In \cup Out
       \/ step \in In /\ pc[t] \in In /\ l.queue = loc[t].queue
       \/ step \in Out /\ pc[t] \in Out /\ l.queue = loc[t].queue

(* The calls that look for a queue, or poll one.                              *)
LEMMA EntersQuietly ==
  ASSUME Shape, NEW t \in Threads,
         \/ \E name \in Names, limit \in Limits, nonblock \in BOOLEAN :
               CallOpen(t, name, limit, nonblock)
         \/ \E q \in Queues, at \in {NoDeadline, MaxTime}, fits \in BOOLEAN :
               CallReceive(t, q, at, fits) \/ \E m \in Msgs : CallSend(t, q, m, at, fits)
  PROVE  /\ UNCHANGED <<table, lives, bound, raced>>
         /\ \E step, l : Quietly(t, step, l)
<1> USE SizeAssumption
<1>1. CASE \E name \in Names, limit \in Limits, nonblock \in BOOLEAN :
             CallOpen(t, name, limit, nonblock)
  <2>1. PICK name \in Names, limit \in Limits, nonblock \in BOOLEAN :
          CallOpen(t, name, limit, nonblock)
    BY <1>1
  <2> DEFINE l == [Idle EXCEPT !.op = "open", !.name = name, !.maxmsg = limit,
                               !.nonblock = nonblock]
  <2>2. l \in Locals BY IdleFits DEF Locals
  <2>3. CASE Named(name) # {}
    <3> DEFINE q == Lowest(Named(name))
    <3>1. q \in Queues
      <4>1. Named(name) \subseteq Nat /\ Named(name) \subseteq Queues BY DEF Named
      <4> QED BY <4>1, <2>3, LowestOf
    <3>2. Go(t, "openFlags", [l EXCEPT !.queue = q])
      BY <2>1, <2>3 DEF CallOpen
    <3> HIDE DEF q, l
    <3>3. Fits("openFlags", [l EXCEPT !.queue = q])
      BY <2>2, <3>1 DEF Fits, Locals
    <3>4. Quietly(t, "openFlags", [l EXCEPT !.queue = q]) BY <2>1, <3>2, <3>3 DEF Quietly, CallOpen
    <3> QED BY <2>1, <3>4 DEF CallOpen, ghosts
  <2>4. CASE Named(name) = {}
    <3>1. Go(t, "createScan", [l EXCEPT !.fresh = TRUE])
      BY <2>1, <2>4 DEF CallOpen
    <3> HIDE DEF l
    <3>2. Fits("createScan", [l EXCEPT !.fresh = TRUE])
      BY <2>2 DEF Fits, Locals
    <3>3. Quietly(t, "createScan", [l EXCEPT !.fresh = TRUE]) BY <2>1, <3>1, <3>2 DEF Quietly, CallOpen
    <3> QED BY <2>1, <3>3 DEF CallOpen, ghosts
  <2> QED BY <2>3, <2>4
<1>2. ASSUME NEW q \in Queues, NEW at \in {NoDeadline, MaxTime}, NEW fits \in BOOLEAN,
             NEW m \in Msgs
      PROVE  LET l == [Idle EXCEPT !.op = "send", !.queue = q, !.msg = m, !.at = at,
                                       !.fits = fits] IN
             Fits("try", l)
  <2> DEFINE l == [Idle EXCEPT !.op = "send", !.queue = q, !.msg = m, !.at = at,
                               !.fits = fits]
  <2>1. q \in 0 .. Cap /\ at \in Int OBVIOUS
  <2>2. l \in Locals BY <2>1, IdleFits DEF Locals
  <2>3. l.queue \in Queues BY IdleFits DEF Locals
  <2> QED BY <2>2, <2>3 DEF Fits
<1>3. ASSUME NEW q \in Queues, NEW at \in {NoDeadline, MaxTime}, NEW fits \in BOOLEAN,
             NEW m \in Msgs, CallSend(t, q, m, at, fits)
      PROVE  /\ UNCHANGED <<table, lives, bound, raced>>
             /\ \E step, l : Quietly(t, step, l)
  <2> DEFINE l == [Idle EXCEPT !.op = "send", !.queue = q, !.msg = m, !.at = at,
                               !.fits = fits]
  <2>1. Fits("try", l) BY <1>2
  <2>2. Go(t, "try", l) /\ pc[t] = "idle" BY <1>3 DEF CallSend
  <2> HIDE DEF l
  <2>3. Quietly(t, "try", l) BY <2>1, <2>2 DEF Quietly
  <2> QED BY <1>3, <2>3 DEF CallSend, ghosts
<1>4. ASSUME NEW q \in Queues, NEW at \in {NoDeadline, MaxTime}, NEW fits \in BOOLEAN,
             CallReceive(t, q, at, fits)
      PROVE  /\ UNCHANGED <<table, lives, bound, raced>>
             /\ \E step, l : Quietly(t, step, l)
  <2> DEFINE l == [Idle EXCEPT !.op = "receive", !.queue = q, !.at = at, !.fits = fits]
  <2>1. Fits("try", l)
    <3>1. q \in 0 .. Cap /\ at \in Int OBVIOUS
    <3>2. l \in Locals BY <3>1, IdleFits DEF Locals
    <3>3. l.queue \in Queues BY IdleFits DEF Locals
    <3> QED BY <3>2, <3>3 DEF Fits
  <2>2. Go(t, "try", l) /\ pc[t] = "idle" BY <1>4 DEF CallReceive
  <2> HIDE DEF l
  <2>3. Quietly(t, "try", l) BY <2>1, <2>2 DEF Quietly
  <2> QED BY <1>4, <2>3 DEF CallReceive, ghosts
<1> QED BY <1>1, <1>3, <1>4

(* The calls at work on a queue keep the locals they have.                    *)
LEMMA WorksQuietly ==
  ASSUME Shape, NEW t \in Threads,
         \/ CreateMark(t) \/ CreateFill(t) \/ OpenFlags(t) \/ OpenDesc(t) \/ OpenBind(t)
         \/ Again(t) \/ Delay(t) \/ SendTry(t) \/ ReceiveTry(t) \/ SendSeq(t) \/ SendBody(t)
  PROVE  \E step, l : Quietly(t, step, l)
<1>1. PICK l : l = loc[t] OBVIOUS
<1>2. Fits(pc[t], l) BY <1>1 DEF Shape
<1>3. l \in Locals /\ Fits("idle", Idle) BY <1>1, <1>2, IdleFits DEF Fits
<1>4. CASE CreateMark(t) \/ CreateFill(t) \/ OpenFlags(t) \/ Delay(t)
  <2>1. \E step \in {"createFill", "openFlags", "openDesc", "try"} : Go(t, step, l)
    BY <1>1, <1>4 DEF CreateMark, CreateFill, OpenFlags, Delay
  <2>2. l.queue \in Queues /\ pc[t] \notin In \cup Out
    BY <1>2, <1>4, <1>1 DEF CreateMark, CreateFill, OpenFlags, Delay, Fits
  <2>3. \A step \in {"createFill", "openFlags", "openDesc", "try"} : Fits(step, l)
    BY <1>3, <2>2 DEF Fits
  <2> QED BY <2>1, <2>2, <2>3 DEF Quietly
<1>5. CASE OpenDesc(t) \/ OpenBind(t)
  <2>1. Go(t, "idle", Idle) \/ (Go(t, "openBind", l) /\ pc[t] = "openDesc")
    BY <1>1, <1>5 DEF OpenDesc, OpenBind
  <2>2. l.queue \in Queues /\ pc[t] \notin In \cup Out
    BY <1>2, <1>5, <1>1 DEF OpenDesc, OpenBind, Fits
  <2>3. Fits("openBind", l) BY <1>3, <2>2 DEF Fits
  <2> QED BY <1>3, <2>1, <2>2, <2>3 DEF Quietly
<1>6. CASE Again(t) \/ SendTry(t) \/ ReceiveTry(t)
  <2>1. (\E step \in {"idle", "delay", "again", "sendScan", "receiveScan"} : Go(t, step, l))
    <3>1. CASE Again(t) BY <1>1, <3>1 DEF Again
    <3>2. CASE SendTry(t) BY <1>1, <3>2 DEF SendTry
    <3>3. CASE ReceiveTry(t) BY <1>1, <3>3 DEF ReceiveTry
    <3> QED BY <1>6, <3>1, <3>2, <3>3
  <2>2. l.queue \in Queues /\ pc[t] \notin In \cup Out
    BY <1>1, <1>2, <1>6 DEF Again, SendTry, ReceiveTry, Fits
  <2>3. \A step \in {"idle", "delay", "again", "sendScan", "receiveScan"} : Fits(step, l)
    BY <1>3, <2>2 DEF Fits
  <2> QED BY <2>1, <2>2, <2>3 DEF Quietly
<1>7. CASE SendSeq(t) \/ SendBody(t)
  <2>1. \E step \in {"sendBody", "sendCountRead"} : Go(t, step, l)
    BY <1>1, <1>7 DEF SendSeq, SendBody
  <2>2. l.queue \in Queues /\ l.slot \in Places /\ pc[t] \in In
    BY <1>1, <1>2, <1>7 DEF SendSeq, SendBody, Fits
  <2>3. \A step \in {"sendBody", "sendCountRead"} : Fits(step, l)
    BY <1>3, <2>2 DEF Fits
  <2> QED BY <1>1, <2>1, <2>2, <2>3 DEF Quietly
<1> QED BY <1>4, <1>5, <1>6, <1>7

(* The steps at which the work on a count begins, and those at which it ends. *)
LEMMA WorksAloud ==
  ASSUME Shape, NEW t \in Threads
  PROVE  /\ SendMark(t) => Fits("sendSeqRead", loc[t]) /\ Go(t, "sendSeqRead", loc[t])
         /\ ReceiveClear(t) =>
              Fits("receiveCountRead", loc[t]) /\ Go(t, "receiveCountRead", loc[t])
         /\ SendCount(t) \/ ReceiveCount(t) => Fits("idle", Idle) /\ Go(t, "idle", Idle)
         /\ SendMark(t) \/ ReceiveClear(t) \/ SendCount(t) \/ ReceiveCount(t) =>
              /\ loc[t].queue \in Queues /\ loc[t].read \in Nat
              /\ UNCHANGED <<bound, lives>>
<1>1. Fits(pc[t], loc[t]) /\ loc[t] \in Locals BY DEF Shape, Fits
<1>2. loc[t].read \in Nat BY <1>1 DEF Locals
<1> QED
  BY <1>1, <1>2, IdleFits DEF SendMark, ReceiveClear, SendCount, ReceiveCount, Fits

(* The calls at work on a queue note down what they find.                     *)
LEMMA ReadsQuietly ==
  ASSUME Shape, NEW t \in Threads,
         \/ CreateScan(t) \/ SendScan(t) \/ SendSeqRead(t) \/ SendCountRead(t)
         \/ ReceiveScan(t) \/ ReceiveCopy(t) \/ ReceiveCountRead(t)
  PROVE  /\ UNCHANGED <<table, lives, bound, raced>>
         /\ \E step, l : Quietly(t, step, l)
<1>1. PICK l : l = loc[t] OBVIOUS
<1>2. Fits(pc[t], l) BY <1>1 DEF Shape
<1>3. UNCHANGED <<table, lives, bound, raced>>
  BY DEF CreateScan, SendScan, SendSeqRead, SendCountRead, ReceiveScan, ReceiveCopy,
         ReceiveCountRead, ghosts
<1>4. l \in Locals /\ Fits("idle", Idle)
  BY <1>1, <1>2, IdleFits DEF Fits
<1>5. CASE CreateScan(t)
  <2>0. pc[t] \notin In \cup Out BY <1>5 DEF CreateScan
  <2> DEFINE free == {q \in Queues : ~ table[q].used}
  <2>1. CASE free = {}
    <3>1. Go(t, "idle", Idle) BY <1>5, <2>1 DEF CreateScan
    <3> QED BY <1>3, <1>4, <2>0, <3>1 DEF Quietly
  <2>2. CASE free # {}
    <3>1. PICK q : q = Lowest(free) OBVIOUS
    <3>2. free \subseteq Nat BY DEF Queues
    <3>3. q \in Queues BY <2>2, <3>1, <3>2, LowestOf
    <3>4. Go(t, "createMark", [l EXCEPT !.queue = q])
      BY <1>1, <1>5, <2>2, <3>1 DEF CreateScan
    <3>5. q \in 0 .. Cap BY <3>3
    <3>6. [l EXCEPT !.queue = q] \in Locals BY <1>4, <3>5 DEF Locals
    <3>7. [l EXCEPT !.queue = q].queue = q
      BY <1>4 DEF Locals
    <3>8. Fits("createMark", [l EXCEPT !.queue = q]) BY <3>3, <3>6, <3>7 DEF Fits
    <3>9. PICK k : k = [l EXCEPT !.queue = q] OBVIOUS
    <3>10. Go(t, "createMark", k) /\ Fits("createMark", k)
      BY <3>4, <3>7, <3>8, <3>9
    <3> QED BY <1>3, <2>0, <3>10 DEF Quietly
  <2> QED BY <2>1, <2>2
<1>6. ASSUME pc[t] # "createScan" PROVE l.queue \in Queues /\ table[l.queue] \in Queue
  <2>1. pc[t] # "idle"
    BY <1>6 DEF CreateScan, SendScan, SendSeqRead, SendCountRead, ReceiveScan, ReceiveCopy,
         ReceiveCountRead
  <2> QED BY <1>2, <1>6, <2>1 DEF Fits, Shape
<1>7. ASSUME NEW i \in Places, pc[t] # "createScan"
      PROVE  LET m == [l EXCEPT !.slot = i] IN
             m \in Locals /\ m.slot = i /\ m.queue \in Queues
  <2>1. i \in 0 .. Slots OBVIOUS
  <2> QED BY <1>4, <1>6, <1>7, <2>1 DEF Locals
<1>8. ASSUME NEW n \in Nat, pc[t] # "createScan"
      PROVE  LET m == [l EXCEPT !.read = n] IN
             m \in Locals /\ m.slot = l.slot /\ m.queue \in Queues /\ m.queue = l.queue
  BY <1>4, <1>6, <1>8 DEF Locals
<1>9. CASE SendScan(t)
  <2>0. pc[t] = "sendScan" BY <1>9 DEF SendScan
  <2> DEFINE free == {i \in Places : ~ Mq(t).slots[i].used}
  <2>1. CASE free = {}
    <3>1. Go(t, "again", l) BY <1>1, <1>9, <2>1 DEF SendScan
    <3>2. Fits("again", l) BY <1>4, <1>6, <2>0 DEF Fits
    <3> QED BY <1>3, <2>0, <3>1, <3>2 DEF Quietly
  <2>2. CASE free # {}
    <3>1. PICK i : i = Lowest(free) OBVIOUS
    <3>2. free \subseteq Nat BY DEF Places
    <3>3. i \in Places BY <2>2, <3>1, <3>2, LowestOf
    <3>4. Go(t, "sendMark", [l EXCEPT !.slot = i]) BY <1>1, <1>9, <2>2, <3>1 DEF SendScan
    <3>5. Fits("sendMark", [l EXCEPT !.slot = i]) BY <1>7, <2>0, <3>3 DEF Fits
    <3> QED BY <1>3, <1>7, <2>0, <3>3, <3>4, <3>5 DEF Quietly
  <2> QED BY <2>1, <2>2
<1>10. CASE SendSeqRead(t) \/ SendCountRead(t) \/ ReceiveCountRead(t)
  <2>1. pc[t] \in {"sendSeqRead", "sendCountRead", "receiveCountRead"}
    BY <1>10 DEF SendSeqRead, SendCountRead, ReceiveCountRead
  <2>2. table[l.queue].nextSeq \in Nat /\ table[l.queue].curmsgs \in Nat
    BY <1>6, <2>1 DEF Queue
  <2>3. \E n \in Nat, step \in {"sendSeq", "sendCount", "receiveCount"} :
           /\ Go(t, step, [l EXCEPT !.read = n])
           /\ step = "sendSeq" => pc[t] = "sendSeqRead"
           /\ pc[t] = "sendSeqRead" => step = "sendSeq"
           /\ pc[t] = "sendCountRead" <=> step = "sendCount"
    BY <1>1, <1>10, <2>2 DEF SendSeqRead, SendCountRead, ReceiveCountRead, Mq
  <2>4. PICK n \in Nat, step \in {"sendSeq", "sendCount", "receiveCount"} :
           /\ Go(t, step, [l EXCEPT !.read = n])
           /\ step = "sendSeq" => pc[t] = "sendSeqRead"
           /\ pc[t] = "sendSeqRead" => step = "sendSeq"
           /\ pc[t] = "sendCountRead" <=> step = "sendCount"
    BY <2>3
  <2>5. step = "sendSeq" => l.slot \in Places BY <1>2, <2>4 DEF Fits
  <2>6. Fits(step, [l EXCEPT !.read = n]) BY <1>8, <2>1, <2>5 DEF Fits
  <2> QED BY <1>1, <1>3, <1>8, <2>1, <2>4, <2>6 DEF Quietly
<1>11. CASE ReceiveScan(t)
  <2>0. pc[t] = "receiveScan" BY <1>11 DEF ReceiveScan
  <2>1. CASE Best(l.queue) = {}
    <3>1. Go(t, "again", l) BY <1>1, <1>11, <2>1 DEF ReceiveScan
    <3>2. Fits("again", l) BY <1>4, <1>6, <2>0 DEF Fits
    <3> QED BY <1>3, <2>0, <3>1, <3>2 DEF Quietly
  <2>2. CASE Best(l.queue) # {}
    <3>1. PICK i : i = Lowest(Best(l.queue)) OBVIOUS
    <3>2. Best(l.queue) \subseteq Places BY DEF Best
    <3>3. Places \subseteq Nat BY DEF Places
    <3>4. i \in Places BY <2>2, <3>1, <3>2, <3>3, LowestOf
    <3>5. \E step \in {"receiveCopy", "idle"} : Go(t, step, [l EXCEPT !.slot = i])
      BY <1>1, <1>11, <2>2, <3>1 DEF ReceiveScan
    <3>6. \A step \in {"receiveCopy", "idle"} : Fits(step, [l EXCEPT !.slot = i])
      BY <1>7, <2>0, <3>4 DEF Fits
    <3> QED BY <1>3, <1>7, <2>0, <3>4, <3>5, <3>6 DEF Quietly
  <2> QED BY <2>1, <2>2
<1>12. CASE ReceiveCopy(t)
  <2>0. pc[t] = "receiveCopy" BY <1>12 DEF ReceiveCopy
  <2>1. PICK m : m = table[l.queue].slots[l.slot].msg OBVIOUS
  <2>2. l.slot \in Places BY <1>2, <2>0 DEF Fits
  <2>3. m \in Msgs \cup {None} BY <1>6, <2>0, <2>1, <2>2 DEF Queue, Slot
  <2>4. Go(t, "receiveClear", [l EXCEPT !.msg = m]) BY <1>1, <1>12, <2>1 DEF ReceiveCopy, Mq
  <2>5. [l EXCEPT !.msg = m] \in Locals BY <1>4, <2>3 DEF Locals
  <2>6. /\ [l EXCEPT !.msg = m].slot \in Places
        /\ [l EXCEPT !.msg = m].queue \in Queues
    BY <1>4, <1>6, <2>0, <2>2 DEF Locals
  <2>7. Fits("receiveClear", [l EXCEPT !.msg = m]) BY <2>5, <2>6 DEF Fits
  <2>8. PICK k : k = [l EXCEPT !.msg = m] OBVIOUS
  <2>9. Go(t, "receiveClear", k) /\ Fits("receiveClear", k)
    BY <2>4, <2>6, <2>7, <2>8
  <2> QED BY <1>3, <2>0, <2>9 DEF Quietly
<1> QED BY <1>3, <1>5, <1>9, <1>10, <1>11, <1>12

(* A write leaves an entry of the table an entry.                             *)
LEMMA EntryKept ==
  ASSUME table \in [Queues -> Queue], NEW q \in Queues, NEW e \in Queue
  PROVE  [table EXCEPT ![q] = e] \in [Queues -> Queue]
OBVIOUS

LEMMA ReclaimedTyped ==
  ASSUME table \in [Queues -> Queue], NEW q \in Queues
  PROVE  Reclaimed(q) \in [Queues -> Queue]
BY DEF Reclaimed, Queue

(* The calls that fill, clear or count the slots of their queue.              *)
LEMMA SlotsTyped ==
  ASSUME Shape, NEW t \in Threads,
         \/ SendMark(t) \/ SendSeq(t) \/ SendBody(t) \/ SendCount(t)
         \/ ReceiveClear(t) \/ ReceiveCount(t)
  PROVE  table' \in [Queues -> Queue]
<1>1. PICK q, i, n, m : q = loc[t].queue /\ i = loc[t].slot /\ n = loc[t].read
                        /\ m = loc[t].msg
  OBVIOUS
<1>2. Fits(pc[t], loc[t]) /\ table \in [Queues -> Queue] BY DEF Shape
<1>3. q \in Queues /\ n \in Nat /\ m \in Msgs \cup {None}
  BY <1>1, <1>2 DEF Fits, Locals, SendMark, SendSeq, SendBody, SendCount, ReceiveClear,
                    ReceiveCount
<1>4. table[q] \in Queue /\ table[q].slots \in [Places -> Slot] BY <1>2, <1>3 DEF Queue
<1>5. (n + 1) % Word \in Nat /\ (n - 1) % Word \in Nat BY <1>3, SizeAssumption
<1>6. ASSUME pc[t] \in SlotSteps
      PROVE  i \in Places /\ table[q].slots[i] \in Slot
  BY <1>1, <1>2, <1>4, <1>6 DEF Fits
<1>7. CASE SendMark(t) \/ ReceiveClear(t)
  <2>1. i \in Places /\ table[q].slots[i] \in Slot BY <1>6, <1>7 DEF SendMark, ReceiveClear
  <2>2. \E b \in BOOLEAN : table' = [table EXCEPT ![q].slots[i].used = b]
    BY <1>1, <1>7 DEF SendMark, ReceiveClear
  <2>3. PICK b \in BOOLEAN : table' = [table EXCEPT ![q].slots[i].used = b] BY <2>2
  <2>4. [table[q].slots[i] EXCEPT !.used = b] \in Slot BY <2>1 DEF Slot
  <2>5. [table[q].slots EXCEPT ![i].used = b] \in [Places -> Slot] BY <1>4, <2>1, <2>4
  <2>6. [table[q] EXCEPT !.slots[i].used = b] \in Queue BY <1>4, <2>5 DEF Queue
  <2> QED BY <1>2, <1>3, <2>3, <2>6
<1>8. CASE SendSeq(t)
  <2>1. i \in Places /\ table[q].slots[i] \in Slot BY <1>6, <1>8 DEF SendSeq
  <2>2. PICK k \in Nat : k = (n + 1) % Word BY <1>5
  <2>3. table' = [table EXCEPT ![q].nextSeq = k, ![q].slots[i].seq = n]
    BY <1>1, <1>8, <2>2 DEF SendSeq
  <2>4. [table[q].slots[i] EXCEPT !.seq = n] \in Slot BY <1>3, <2>1 DEF Slot
  <2>5. [table[q].slots EXCEPT ![i].seq = n] \in [Places -> Slot] BY <1>4, <2>1, <2>4
  <2>6. [table[q] EXCEPT !.nextSeq = k, !.slots[i].seq = n] \in Queue
    BY <1>4, <2>5 DEF Queue
  <2> QED BY <1>2, <1>3, <2>3, <2>6
<1>9. CASE SendBody(t)
  <2>1. i \in Places /\ table[q].slots[i] \in Slot BY <1>6, <1>9 DEF SendBody
  <2>2. table' = [table EXCEPT ![q].slots[i].msg = m] BY <1>1, <1>9 DEF SendBody
  <2>3. [table[q].slots[i] EXCEPT !.msg = m] \in Slot BY <1>3, <2>1 DEF Slot
  <2>4. [table[q].slots EXCEPT ![i].msg = m] \in [Places -> Slot] BY <1>4, <2>1, <2>3
  <2>5. [table[q] EXCEPT !.slots[i].msg = m] \in Queue BY <1>4, <2>4 DEF Queue
  <2> QED BY <1>2, <1>3, <2>2, <2>5
<1>10. CASE SendCount(t) \/ ReceiveCount(t)
  <2>1. \E k \in Nat : table' = [table EXCEPT ![q].curmsgs = k]
    BY <1>1, <1>5, <1>10 DEF SendCount, ReceiveCount
  <2>2. PICK k \in Nat : table' = [table EXCEPT ![q].curmsgs = k] BY <2>1
  <2>3. [table[q] EXCEPT !.curmsgs = k] \in Queue BY <1>4 DEF Queue
  <2> QED BY <1>2, <1>3, <2>2, <2>3
<1> QED BY <1>7, <1>8, <1>9, <1>10

(* The calls that make, open or remove queues.                                *)
LEMMA EntriesTyped ==
  ASSUME Shape, NEW t \in Threads,
         \/ CreateMark(t) \/ CreateFill(t) \/ OpenFlags(t) \/ OpenDesc(t)
         \/ \E name \in Names : CallUnlink(t, name)
         \/ \E q \in Queues, nonblock \in BOOLEAN : CallSetattr(t, q, nonblock)
  PROVE  table' \in [Queues -> Queue] /\ lives' \in [Queues -> Nat]
<1>0. table \in [Queues -> Queue] /\ lives \in [Queues -> Nat] BY DEF Shape
<1>1. CASE CreateMark(t) \/ OpenFlags(t) \/ OpenDesc(t)
  <2>1. PICK q : q = loc[t].queue OBVIOUS
  <2>2. q \in Queues
    BY <1>1, <2>1 DEF Shape, Fits, CreateMark, OpenFlags, OpenDesc
  <2>3. table[q] \in Queue /\ loc[t].nonblock \in BOOLEAN BY <1>0, <2>2 DEF Shape, Locals
  <2>4. CASE CreateMark(t)
    <3>1. table' = [table EXCEPT ![q].used = TRUE] /\ lives' = lives
      BY <2>1, <2>4 DEF CreateMark, ghosts
    <3>2. [table[q] EXCEPT !.used = TRUE] \in Queue BY <2>3 DEF Queue
    <3> QED BY <1>0, <2>2, <3>1, <3>2
  <2>5. CASE OpenFlags(t)
    <3>1. PICK b \in BOOLEAN : b <=> table[q].nonblock \/ loc[t].nonblock OBVIOUS
    <3>2. (table[q].nonblock \/ loc[t].nonblock) = b BY <3>1, <2>3 DEF Queue
    <3>3. table' = [table EXCEPT ![q].nonblock = @ \/ loc[t].nonblock] /\ lives' = lives
      BY <2>1, <2>5 DEF OpenFlags, ghosts
    <3>4. table' = [table EXCEPT ![q].nonblock = b]
      BY <1>0, <2>2, <2>3, <3>2, <3>3
    <3>5. [table[q] EXCEPT !.nonblock = b] \in Queue BY <2>3 DEF Queue
    <3> QED BY <1>0, <2>2, <3>3, <3>4, <3>5
  <2>6. CASE OpenDesc(t)
    <3>1. table' \in {table, Reclaimed(q)} /\ lives' = lives
      BY <2>1, <2>6 DEF OpenDesc, ghosts
    <3>2. Reclaimed(q) \in [Queues -> Queue] BY <1>0, <2>2, ReclaimedTyped
    <3> QED BY <1>0, <3>1, <3>2
  <2> QED BY <1>1, <2>4, <2>5, <2>6
<1>2. CASE CreateFill(t)
  <2>1. PICK q, name, k : q = loc[t].queue /\ name = loc[t].name
                          /\ k = Capped(loc[t].maxmsg)
    OBVIOUS
  <2>2. /\ q \in Queues /\ name \in Names \cup {None} /\ loc[t].maxmsg \in Nat
        /\ table[q].used \in BOOLEAN
    BY <1>2, <2>1 DEF Shape, Fits, Locals, CreateFill, Queue
  <2>3. k \in Nat BY <2>1, <2>2, SizeAssumption DEF Capped
  <2>4. PICK b \in BOOLEAN : b = table[q].used BY <2>2
  <2>5. table' = [table EXCEPT ![q] = [Unused EXCEPT !.used = b, !.name = name, !.maxmsg = k]]
    BY <1>2, <2>1, <2>4 DEF CreateFill, Mq
  <2>6. Unused \in Queue
    <3>1. NoSlot \in Slot BY DEF NoSlot, Slot
    <3>2. [i \in Places |-> NoSlot] \in [Places -> Slot] BY <3>1
    <3> QED BY <3>2 DEF Unused, Queue
  <2>7. [Unused EXCEPT !.used = b, !.name = name, !.maxmsg = k] \in Queue
    BY <2>2, <2>3, <2>6 DEF Queue
  <2>8. lives' = [lives EXCEPT ![q] = @ + 1] BY <1>2, <2>1 DEF CreateFill
  <2>9. lives' \in [Queues -> Nat] BY <1>0, <2>2, <2>8
  <2> QED BY <1>0, <2>2, <2>5, <2>7, <2>9
<1>3. ASSUME NEW name \in Names, CallUnlink(t, name)
      PROVE  table' \in [Queues -> Queue] /\ lives' \in [Queues -> Nat]
  <2>1. PICK q : q = Lowest(Named(name)) OBVIOUS
  <2>2. Named(name) \subseteq Nat /\ Named(name) \subseteq Queues BY DEF Named
  <2>3. q \in Queues BY <1>3, <2>1, <2>2, LowestOf DEF CallUnlink
  <2>4. table' = [table EXCEPT ![q].used = FALSE] /\ lives' = lives
    BY <1>3, <2>1 DEF CallUnlink, ghosts
  <2>5. [table[q] EXCEPT !.used = FALSE] \in Queue BY <1>0, <2>3 DEF Queue
  <2> QED BY <1>0, <2>3, <2>4, <2>5
<1>4. ASSUME NEW q \in Queues, NEW nonblock \in BOOLEAN, CallSetattr(t, q, nonblock)
      PROVE  table' \in [Queues -> Queue] /\ lives' \in [Queues -> Nat]
  <2>1. table' = [table EXCEPT ![q].nonblock = nonblock] /\ lives' = lives
    BY <1>4 DEF CallSetattr, ghosts
  <2>2. [table[q] EXCEPT !.nonblock = nonblock] \in Queue BY <1>0 DEF Queue
  <2> QED BY <1>0, <2>1, <2>2
<1> QED BY <1>1, <1>2, <1>3, <1>4
-----------------------------------------------------------------------------
(* Arithmetic of a counter that wraps.                                        *)
LEMMA Small == ASSUME NEW w \in Nat \ {0}, NEW d \in Int, w * d < w, -w < w * d PROVE d = 0
<1>1. CASE d >= 1
  <2>1. w * d >= w * 1 BY <1>1
  <2> QED BY <2>1
<1>2. CASE d <= -1
  <2>1. w * d <= w * (-1) BY <1>2
  <2> QED BY <2>1
<1> QED BY <1>1, <1>2

LEMMA Div ==
  ASSUME NEW w \in Nat \ {0}, NEW x \in Int
  PROVE  x = w * (x \div w) + (x % w) /\ (x % w) \in 0 .. (w - 1) /\ x \div w \in Int
OBVIOUS

LEMMA Multiple == ASSUME NEW w \in Nat \ {0}, NEW k \in Int PROVE (w * k) % w = 0
<1> DEFINE x == w * k
           q == x \div w
           m == x % w
<1>1. x \in Int OBVIOUS
<1>2. x = w * q + m /\ m \in 0 .. (w - 1) /\ q \in Int BY <1>1, Div
<1>3. x = w * k OBVIOUS
<1> HIDE DEF x, q, m
<1>4. w * (k - q) = w * k - w * q BY <1>2
<1>5. w * (k - q) = m BY <1>1, <1>2, <1>3, <1>4
<1>6. k - q \in Int BY <1>2
<1>7. k - q = 0 BY <1>2, <1>5, <1>6, Small
<1>8. w * (k - q) = w * 0 BY <1>7
<1>9. m = 0 BY <1>5, <1>8
<1> QED BY <1>9 DEF m, x

(* A count that is written back one higher or lower than it was read.         *)
LEMMA CountWrapped ==
  ASSUME NEW w \in Nat \ {0}, NEW a \in Int, NEW x \in Nat, NEW d \in {1, -1},
         (a - x) % w = 0
  PROVE  ((a + d) - ((x + d) % w)) % w = 0
<1> DEFINE k == (a - x) \div w
           y == x + d
           c == y \div w
<1>1. a - x = w * k /\ k \in Int
  <2>1. a - x \in Int OBVIOUS
  <2> QED BY <2>1, Div
<1>2. y \in Int OBVIOUS
<1>3. y = w * c + (y % w) /\ (y % w) \in Int /\ c \in Int BY <1>2, Div
<1>4. (a + d) - (y % w) = w * (k + c)
  <2>1. y = x + d OBVIOUS
  <2> HIDE DEF k, y, c
  <2>2. w * (k + c) = w * k + w * c BY <1>1, <1>3
  <2> DEFINE m == y % w
             u == w * k
             v == w * c
  <2>3. u \in Int /\ v \in Int /\ m \in Int BY <1>1, <1>3
  <2>4. a - x = u /\ y = v + m BY <1>1, <1>3
  <2> HIDE DEF m, u, v
  <2>5. (a + d) - m = u + v BY <2>1, <2>3, <2>4
  <2> QED BY <2>2, <2>5 DEF m, u, v
<1> HIDE DEF k, y, c
<1>5. k + c \in Int BY <1>1, <1>3
<1>6. ((a + d) - (y % w)) % w = 0 BY <1>4, <1>5, Multiple
<1> QED BY <1>6 DEF y

(* One element moves in or out of a set, or none does.                        *)
Bit(b) == IF b THEN 1 ELSE 0

LEMMA OneMoves ==
  ASSUME NEW S, NEW T, IsFiniteSet(S), NEW x, \A y : y # x => (y \in T <=> y \in S)
  PROVE  Cardinality(S) \in Nat /\ Cardinality(T) = Cardinality(S) + Bit(x \in T) - Bit(x \in S)
<1>1. Cardinality(S) \in Nat BY FS_CardinalityType
<1>2. CASE x \in T /\ x \notin S
  <2>1. T = S \cup {x} BY <1>2
  <2> QED BY <1>1, <1>2, <2>1, FS_AddElement DEF Bit
<1>3. CASE x \notin T /\ x \in S
  <2>1. T = S \ {x} BY <1>3
  <2> QED BY <1>1, <1>3, <2>1, FS_RemoveElement DEF Bit
<1>4. CASE x \in T <=> x \in S
  <2>1. T = S BY <1>4
  <2> QED BY <1>1, <1>4, <2>1 DEF Bit
<1> QED BY <1>2, <1>3, <1>4

LEMMA AllFinite ==
  ASSUME NEW q
  PROVE  /\ IsFiniteSet(Filled(q)) /\ IsFiniteSet(Arriving(q)) /\ IsFiniteSet(Leaving(q))
         /\ Cardinality(Filled(q)) \in Nat
         /\ Cardinality(Arriving(q)) \in Nat /\ Cardinality(Leaving(q)) \in Nat
<1>1. IsFiniteSet(Places)
  <2>1. 1 \in Int /\ Slots \in Int BY SizeAssumption
  <2> QED BY <2>1, FS_Interval
<1>2. Filled(q) \subseteq Places /\ Arriving(q) \subseteq Threads /\ Leaving(q) \subseteq Threads
  BY DEF Filled, Arriving, Leaving
<1> QED BY <1>1, <1>2, FinitenessAssumption, FS_Subset, FS_CardinalityType

-----------------------------------------------------------------------------
(* A thread is between slot and count of one queue, or of none.               *)
LEMMA Between ==
  ASSUME Shape, NEW t \in Threads, NEW step, NEW l, Fits(step, l), Go(t, step, l),
         NEW q \in Queues
  PROVE  /\ t \in Arriving(q)' <=> step \in In /\ l.queue = q
         /\ t \in Leaving(q)' <=> step \in Out /\ l.queue = q
         /\ \A u : u # t => /\ u \in Arriving(q)' <=> u \in Arriving(q)
                            /\ u \in Leaving(q)' <=> u \in Leaving(q)
<1>1. /\ pc' = [pc EXCEPT ![t] = step] /\ pc \in [Threads -> Steps]
      /\ \A u \in Threads \ {t} : loc'[u] = loc[u]
      /\ loc'[t].queue = IF step = "idle" THEN 0 ELSE l.queue
  BY Moves DEF Shape
<1>2. pc'[t] = step /\ \A u \in Threads \ {t} : pc'[u] = pc[u] BY <1>1
<1> QED BY <1>1, <1>2 DEF Arriving, Leaving

LEMMA QuietBetween ==
  ASSUME Shape, NEW t \in Threads, NEW step, NEW l, Quietly(t, step, l), NEW q \in Queues
  PROVE  Arriving(q)' = Arriving(q) /\ Leaving(q)' = Leaving(q)
<1>1. Fits(step, l) /\ Go(t, step, l) BY DEF Quietly
<1>2. (t \in Arriving(q)' <=> t \in Arriving(q)) /\ (t \in Leaving(q)' <=> t \in Leaving(q))
  BY <1>1, Between DEF Quietly, Arriving, Leaving
<1>3. /\ Arriving(q)' \subseteq Threads /\ Arriving(q) \subseteq Threads
      /\ Leaving(q)' \subseteq Threads /\ Leaving(q) \subseteq Threads
  BY DEF Arriving, Leaving
<1>4. \A u : u # t => /\ u \in Arriving(q)' <=> u \in Arriving(q)
                      /\ u \in Leaving(q)' <=> u \in Leaving(q)
  BY <1>1, Between
<1> QED BY <1>2, <1>3, <1>4

(* The steps that write neither the use of a slot nor a count.                *)
LEMMA SlotsAlone ==
  ASSUME Shape, NEW t \in Threads, NEW q \in Queues,
         \/ UNCHANGED table
         \/ CreateMark(t) \/ OpenFlags(t) \/ OpenDesc(t) \/ SendSeq(t) \/ SendBody(t)
         \/ \E name \in Names : CallUnlink(t, name)
         \/ \E r \in Queues, nonblock \in BOOLEAN : CallSetattr(t, r, nonblock)
  PROVE  Filled(q)' = Filled(q) /\ table'[q].curmsgs = table[q].curmsgs
<1>0. table \in [Queues -> Queue] /\ Fits(pc[t], loc[t]) BY DEF Shape
<1>1. CASE UNCHANGED table BY <1>1 DEF Filled
<1>2. ASSUME NEW r, NEW b, table' = [table EXCEPT ![r].used = b] \/ table' = [table EXCEPT ![r].nonblock = b]
      PROVE  Filled(q)' = Filled(q) /\ table'[q].curmsgs = table[q].curmsgs
  <2>1. table[q] \in Queue BY <1>0
  <2>2. CASE r # q
    <3>1. table'[q] = table[q] BY <1>0, <1>2, <2>2
    <3> QED BY <3>1 DEF Filled
  <2>3. CASE r = q
    <3>1. \/ table'[q] = [table[q] EXCEPT !.used = b]
          \/ table'[q] = [table[q] EXCEPT !.nonblock = b]
      BY <1>0, <1>2, <2>3
    <3>2. table'[q].slots = table[q].slots /\ table'[q].curmsgs = table[q].curmsgs
      BY <2>1, <3>1 DEF Queue
    <3> QED BY <3>2 DEF Filled
  <2> QED BY <2>2, <2>3
<1>3. CASE CreateMark(t) BY <1>2, <1>3 DEF CreateMark
<1>4. CASE OpenFlags(t)
  <2>1. PICK b : table' = [table EXCEPT ![loc[t].queue].nonblock = b]
    <3>1. table' = [table EXCEPT ![loc[t].queue].nonblock =
                      table[loc[t].queue].nonblock \/ loc[t].nonblock]
      BY <1>0, <1>4 DEF OpenFlags, Fits
    <3> QED BY <3>1
  <2> QED BY <1>2, <2>1
<1>5. CASE OpenDesc(t)
  <2>1. UNCHANGED table \/ table' = [table EXCEPT ![loc[t].queue].used = FALSE]
    BY <1>5 DEF OpenDesc, Reclaimed
  <2> QED BY <1>1, <1>2, <2>1
<1>6. CASE SendSeq(t) \/ SendBody(t)
  <2>1. PICK r, i : r = loc[t].queue /\ i = loc[t].slot OBVIOUS
  <2>2. r \in Queues /\ i \in Places BY <1>0, <1>6, <2>1 DEF Fits, SendSeq, SendBody
  <2>3. table[r].slots \in [Places -> Slot] /\ table[r].slots[i] \in Slot /\ table[r] \in Queue
    BY <1>0, <2>2 DEF Queue
  <2>4. CASE SendBody(t)
    <3>1. table' = [table EXCEPT ![r].slots[i].msg = loc[t].msg] BY <2>1, <2>4 DEF SendBody
    <3>2. table'[q].curmsgs = table[q].curmsgs
      BY <1>0, <2>3, <3>1 DEF Queue
    <3>3. \A j \in Places : table'[q].slots[j].used = table[q].slots[j].used
      BY <1>0, <2>2, <2>3, <3>1 DEF Queue, Slot
    <3> QED BY <3>2, <3>3 DEF Filled
  <2>5. CASE SendSeq(t)
    <3>1. PICK n, m : table' = [table EXCEPT ![r].nextSeq = n, ![r].slots[i].seq = m]
      BY <2>1, <2>5 DEF SendSeq
    <3>2. table'[q].curmsgs = table[q].curmsgs
      BY <1>0, <2>3, <3>1 DEF Queue
    <3>3. \A j \in Places : table'[q].slots[j].used = table[q].slots[j].used
      BY <1>0, <2>2, <2>3, <3>1 DEF Queue, Slot
    <3> QED BY <3>2, <3>3 DEF Filled
  <2> QED BY <1>6, <2>4, <2>5
<1>7. CASE \E name \in Names : CallUnlink(t, name)
  BY <1>2, <1>7 DEF CallUnlink
<1>8. CASE \E r \in Queues, nonblock \in BOOLEAN : CallSetattr(t, r, nonblock)
  BY <1>2, <1>8 DEF CallSetattr
<1> QED BY <1>1, <1>3, <1>4, <1>5, <1>6, <1>7, <1>8

LEMMA DueAlone ==
  ASSUME CountBalanced, raced' = raced,
         \A q \in Queues : /\ Arriving(q)' = Arriving(q) /\ Leaving(q)' = Leaving(q)
                           /\ Filled(q)' = Filled(q) /\ table'[q].curmsgs = table[q].curmsgs
  PROVE  CountBalanced'
BY DEF CountBalanced, Due

(* A slot is taken or cleared, and its call comes between slot and count.     *)
LEMMA SlotTaken ==
  ASSUME IInv, NEW t \in Threads, SendMark(t) \/ ReceiveClear(t)
  PROVE  CountBalanced'
<1> DEFINE r == loc[t].queue
           i == loc[t].slot
           mark == pc[t] = "sendMark"
<1>1. Shape /\ CountBalanced /\ table \in [Queues -> Queue] /\ Fits(pc[t], loc[t])
  BY DEF IInv, Shape
<1>2. r \in Queues /\ i \in Places BY <1>1 DEF Fits, SendMark, ReceiveClear
<1>3. /\ table[r] \in Queue /\ table[r].slots \in [Places -> Slot] /\ table[r].slots[i] \in Slot
  BY <1>1, <1>2 DEF Queue
<1>4. \E step : /\ step = (IF mark THEN "sendSeqRead" ELSE "receiveCountRead")
                /\ Fits(step, loc[t]) /\ Go(t, step, loc[t])
  BY <1>1, WorksAloud DEF SendMark, ReceiveClear
<1>5. /\ table' = [table EXCEPT ![r].slots[i].used = mark]
      /\ Collision(t, table[r].slots[i].used = mark)
  <2>1. CASE SendMark(t)
    <3>1. table[r].slots[i].used = (table[r].slots[i].used = TRUE)
      BY <1>3 DEF Slot
    <3>2. mark = TRUE BY <2>1 DEF SendMark
    <3>3. /\ table' = [table EXCEPT ![r].slots[i].used = TRUE]
          /\ Collision(t, table[r].slots[i].used)
      BY <2>1 DEF SendMark, Mq
    <3> QED BY <3>1, <3>2, <3>3 DEF Collision
  <2>2. CASE ReceiveClear(t)
    <3>1. (~ table[r].slots[i].used) = (table[r].slots[i].used = FALSE)
      BY <1>3 DEF Slot
    <3>2. mark = FALSE BY <2>2 DEF ReceiveClear
    <3>3. /\ table' = [table EXCEPT ![r].slots[i].used = FALSE]
          /\ Collision(t, ~ table[r].slots[i].used)
      BY <2>2 DEF ReceiveClear, Mq
    <3> QED BY <3>1, <3>2, <3>3 DEF Collision
  <2> QED BY <2>1, <2>2
<1> HIDE DEF mark
<1>m. mark \in BOOLEAN BY DEF mark
<1>6. ASSUME NEW q \in Queues \ raced' PROVE (Due(q)' - table'[q].curmsgs) % Word = 0
  <2>1. q \notin raced BY <1>6, <1>5 DEF Collision
  <2>2. table'[q].curmsgs = table[q].curmsgs /\ table[q].curmsgs \in Nat
    BY <1>1, <1>3, <1>5 DEF Queue
  <2>3. (Due(q) - table[q].curmsgs) % Word = 0 BY <1>1, <2>1 DEF CountBalanced
  <2>4. CASE q # r
    <3>1. table'[q] = table[q] BY <1>1, <1>5, <2>4
    <3>2. Filled(q)' = Filled(q) BY <3>1 DEF Filled
    <3>3. Arriving(q)' = Arriving(q) /\ Leaving(q)' = Leaving(q)
      <4>1. /\ t \notin Arriving(q)' /\ t \notin Leaving(q)'
            /\ \A u : u # t => /\ u \in Arriving(q)' <=> u \in Arriving(q)
                               /\ u \in Leaving(q)' <=> u \in Leaving(q)
        BY <1>1, <1>4, <2>4, Between
      <4>2. t \notin Arriving(q) /\ t \notin Leaving(q) BY <2>4 DEF Arriving, Leaving
      <4> QED BY <4>1, <4>2
    <3> QED BY <2>2, <2>3, <3>2, <3>3 DEF Due
  <2>5. CASE q = r
    <3>1. table[r].slots[i].used # mark BY <1>2, <1>5, <1>6, <2>5 DEF Collision
    <3>2. /\ table'[r].slots[i].used = mark
          /\ \A j \in Places \ {i} : table'[r].slots[j].used = table[r].slots[j].used
      BY <1>1, <1>2, <1>3, <1>5 DEF Queue, Slot
    <3>3. /\ i \in Filled(q)' <=> mark
          /\ i \in Filled(q) <=> ~ mark
          /\ \A j : j # i => (j \in Filled(q)' <=> j \in Filled(q))
      BY <1>2, <1>3, <1>m, <2>5, <3>1, <3>2 DEF Filled, Slot
    <3>4. /\ t \in Arriving(q)' <=> mark
          /\ t \in Leaving(q)' <=> ~ mark
          /\ \A u : u # t => /\ u \in Arriving(q)' <=> u \in Arriving(q)
                             /\ u \in Leaving(q)' <=> u \in Leaving(q)
      BY <1>1, <1>4, <2>5, Between
    <3>5. t \notin Arriving(q) /\ t \notin Leaving(q)
      BY DEF Arriving, Leaving, SendMark, ReceiveClear
    <3>6. /\ Cardinality(Filled(q)') = Cardinality(Filled(q)) + Bit(mark) - Bit(~ mark)
          /\ Cardinality(Arriving(q)') = Cardinality(Arriving(q)) + Bit(mark)
          /\ Cardinality(Leaving(q)') = Cardinality(Leaving(q)) + Bit(~ mark)
      <4>1. IsFiniteSet(Filled(q)) /\ IsFiniteSet(Arriving(q)) /\ IsFiniteSet(Leaving(q))
        BY AllFinite
      <4>2. Cardinality(Filled(q)') = Cardinality(Filled(q)) + Bit(mark) - Bit(~ mark)
        <5>1. Cardinality(Filled(q)') =
                Cardinality(Filled(q)) + Bit(i \in Filled(q)') - Bit(i \in Filled(q))
          BY <3>3, <4>1, OneMoves
        <5> QED BY <3>3, <5>1 DEF Bit
      <4>3. Cardinality(Arriving(q)') = Cardinality(Arriving(q)) + Bit(mark)
        BY <3>4, <3>5, <4>1, OneMoves, AllFinite DEF Bit
      <4>4. Cardinality(Leaving(q)') = Cardinality(Leaving(q)) + Bit(~ mark)
        BY <3>4, <3>5, <4>1, OneMoves, AllFinite DEF Bit
      <4> QED BY <4>2, <4>3, <4>4
    <3>7. Due(q)' = Due(q) BY <3>6, AllFinite DEF Due, Bit
    <3> QED BY <2>2, <2>3, <3>7
  <2> QED BY <2>4, <2>5
<1>7. CountBalanced' BY <1>6 DEF CountBalanced
<1> QED BY <1>7

(* A call counts its slot, and is no longer between.                          *)
LEMMA SlotCounted ==
  ASSUME IInv, NEW t \in Threads, SendCount(t) \/ ReceiveCount(t)
  PROVE  CountBalanced'
<1> DEFINE r == loc[t].queue
           n == loc[t].read
           d == IF pc[t] = "sendCount" THEN 1 ELSE -1
<1>1. Shape /\ CountBalanced /\ table \in [Queues -> Queue] BY DEF IInv, Shape
<1>2. /\ r \in Queues /\ n \in Nat /\ Fits("idle", Idle) /\ Go(t, "idle", Idle)
  BY <1>1, WorksAloud
<1>3. table[r] \in Queue BY <1>1, <1>2
<1>4. /\ table' = [table EXCEPT ![r].curmsgs = (n + d) % Word]
      /\ Collision(t, table[r].curmsgs # n)
  <2>1. n - 1 = n + (-1) BY <1>2
  <2> QED BY <2>1 DEF SendCount, ReceiveCount, Mq
<1>5. pc[t] = (IF d = 1 THEN "sendCount" ELSE "receiveCount") /\ d \in {1, -1}
  BY DEF SendCount, ReceiveCount
<1> HIDE DEF d
<1>6. ASSUME NEW q \in Queues \ raced' PROVE (Due(q)' - table'[q].curmsgs) % Word = 0
  <2>1. q \notin raced BY <1>6, <1>4 DEF Collision
  <2>2. \A j \in Places : table'[q].slots[j].used = table[q].slots[j].used
    BY <1>1, <1>3, <1>4 DEF Queue
  <2>3. Filled(q)' = Filled(q) BY <2>2 DEF Filled
  <2>4. (Due(q) - table[q].curmsgs) % Word = 0 BY <1>1, <2>1 DEF CountBalanced
  <2>5. /\ t \notin Arriving(q)' /\ t \notin Leaving(q)'
        /\ \A u : u # t => /\ u \in Arriving(q)' <=> u \in Arriving(q)
                           /\ u \in Leaving(q)' <=> u \in Leaving(q)
    BY <1>1, <1>2, Between
  <2>6. CASE q # r
    <3>1. t \notin Arriving(q) /\ t \notin Leaving(q) BY <2>6 DEF Arriving, Leaving
    <3>2. Arriving(q)' = Arriving(q) /\ Leaving(q)' = Leaving(q) BY <2>5, <3>1
    <3>3. table'[q].curmsgs = table[q].curmsgs BY <1>1, <1>4, <2>6
    <3> QED BY <2>3, <2>4, <3>2, <3>3 DEF Due
  <2>7. CASE q = r
    <3>1. table[q].curmsgs = n BY <1>2, <1>4, <1>6, <2>7 DEF Collision
    <3>2. table'[q].curmsgs = (n + d) % Word BY <1>1, <1>3, <1>4, <2>7 DEF Queue
    <3>3. t \in Arriving(q) <=> d = 1
      BY <1>5, <2>7 DEF Arriving
    <3>4. t \in Leaving(q) <=> d = -1
      BY <1>5, <2>7 DEF Leaving
    <3>5. /\ Cardinality(Arriving(q)') = Cardinality(Arriving(q)) - Bit(d = 1)
          /\ Cardinality(Leaving(q)') = Cardinality(Leaving(q)) - Bit(d = -1)
      <4>1. IsFiniteSet(Arriving(q)) /\ IsFiniteSet(Leaving(q)) BY AllFinite
      <4>2. Cardinality(Arriving(q)') = Cardinality(Arriving(q)) - Bit(d = 1)
        BY <2>5, <3>3, <4>1, OneMoves, AllFinite DEF Bit
      <4>3. Cardinality(Leaving(q)') = Cardinality(Leaving(q)) - Bit(d = -1)
        BY <2>5, <3>4, <4>1, OneMoves, AllFinite DEF Bit
      <4> QED BY <4>2, <4>3
    <3>6. Due(q)' = Due(q) + d /\ Due(q) \in Int
      BY <1>5, <2>3, <3>5, AllFinite DEF Due, Bit
    <3>7. Word \in Nat \ {0} BY SizeAssumption
    <3> QED BY <1>2, <1>5, <2>4, <3>1, <3>2, <3>6, <3>7, CountWrapped
  <2> QED BY <2>6, <2>7
<1>7. CountBalanced' BY <1>6 DEF CountBalanced
<1> QED BY <1>7

(* A queue that is made anew has no messages; a call at work in its entry     *)
(* then counts for the old one.                                               *)
LEMMA QueueMade ==
  ASSUME IInv, NEW t \in Threads, CreateFill(t)
  PROVE  CountBalanced'
<1> DEFINE r == loc[t].queue
<1>1. Shape /\ CountBalanced /\ table \in [Queues -> Queue] BY DEF IInv, Shape
<1>2. PICK step, l : Quietly(t, step, l) BY <1>1, WorksQuietly
<1>3. r \in Queues BY <1>1 DEF Shape, Fits, CreateFill
<1>4. \A q \in Queues : Arriving(q)' = Arriving(q) /\ Leaving(q)' = Leaving(q)
  BY <1>1, <1>2, QuietBetween
<1>5. PICK b, name, k :
        table' = [table EXCEPT ![r] = [Unused EXCEPT !.used = b, !.name = name, !.maxmsg = k]]
  BY DEF CreateFill
<1>6. ASSUME NEW q \in Queues \ raced' PROVE (Due(q)' - table'[q].curmsgs) % Word = 0
  <2>1. CASE q # r
    <3>1. q \notin raced BY <1>6, <2>1 DEF CreateFill
    <3>2. table'[q] = table[q] BY <1>1, <1>5, <2>1
    <3>3. Filled(q)' = Filled(q) BY <3>2 DEF Filled
    <3>4. (Due(q) - table[q].curmsgs) % Word = 0 BY <1>1, <3>1 DEF CountBalanced
    <3> QED BY <1>4, <3>2, <3>3, <3>4 DEF Due
  <2>2. CASE q = r
    <3>1. Arriving(q) = {} /\ Leaving(q) = {} BY <1>3, <1>6, <2>2 DEF CreateFill
    <3>2. table'[q] = [Unused EXCEPT !.used = b, !.name = name, !.maxmsg = k]
      BY <1>1, <1>3, <1>5, <2>2
    <3>3. table'[q].curmsgs = 0 /\ \A i \in Places : ~ table'[q].slots[i].used
      BY <3>2 DEF Unused, NoSlot
    <3>4. Filled(q)' = {} BY <3>3 DEF Filled
    <3>5. Due(q)' = 0 BY <1>4, <3>1, <3>4, FS_EmptySet DEF Due
    <3>6. 0 % Word = 0
      <4>1. Word \in Nat \ {0} /\ Word * 0 = 0 BY SizeAssumption
      <4> QED BY <4>1, Multiple
    <3> QED BY <3>3, <3>5, <3>6
  <2> QED BY <2>1, <2>2
<1>7. CountBalanced' BY <1>6 DEF CountBalanced
<1> QED BY <1>7

-----------------------------------------------------------------------------
LEMMA IInvInit == Init => IInv
<1> SUFFICES ASSUME Init PROVE IInv OBVIOUS
<1>1. Unused \in Queue
  <2>1. NoSlot \in Slot BY DEF NoSlot, Slot
  <2>2. [i \in Places |-> NoSlot] \in [Places -> Slot] BY <2>1
  <2> QED BY <2>2 DEF Unused, Queue
<1>2. Shape BY <1>1, IdleFits DEF Init, Shape, Fits
<1>3. ASSUME NEW q \in Queues PROVE (Due(q) - table[q].curmsgs) % Word = 0
  <2>1. table[q] = Unused BY DEF Init
  <2>2. Filled(q) = {} BY <2>1 DEF Filled, Unused, NoSlot
  <2>3. Arriving(q) = {} /\ Leaving(q) = {} BY DEF Init, Arriving, Leaving
  <2>4. Due(q) = 0 /\ table[q].curmsgs = 0 BY <2>1, <2>2, <2>3, FS_EmptySet DEF Due, Unused
  <2>5. Word \in Nat \ {0} /\ Word * 0 = 0 BY SizeAssumption
  <2> QED BY <2>4, <2>5, Multiple
<1> QED BY <1>2, <1>3 DEF IInv, CountBalanced

(* A step that is quiet keeps what the variables hold when it writes types.   *)
LEMMA ShapeMoves ==
  ASSUME Shape, NEW t \in Threads, NEW step, NEW l, Fits(step, l), Go(t, step, l),
         table' \in [Queues -> Queue], lives' \in [Queues -> Nat], bound' \subseteq Queues
  PROVE  Shape'
BY Moves DEF Shape

LEMMA IInvNext == IInv /\ [Next]_vars => IInv'
<1> SUFFICES ASSUME IInv, [Next]_vars PROVE IInv' OBVIOUS
<1>0. Shape /\ CountBalanced /\ bound \subseteq Queues /\ table \in [Queues -> Queue]
      /\ lives \in [Queues -> Nat]
  BY DEF IInv, Shape
<1>1. ASSUME NEW t \in Threads, NEW step, NEW l, Quietly(t, step, l),
             table' \in [Queues -> Queue], lives' \in [Queues -> Nat], bound' \subseteq Queues,
             raced' = raced,
             \A q \in Queues : Filled(q)' = Filled(q) /\ table'[q].curmsgs = table[q].curmsgs
      PROVE  IInv'
  <2>1. Shape' BY <1>0, <1>1, ShapeMoves DEF Quietly
  <2>2. CountBalanced' BY <1>0, <1>1, QuietBetween, DueAlone
  <2> QED BY <2>1, <2>2 DEF IInv
<1>2. ASSUME pc' = pc, loc' = loc, table' \in [Queues -> Queue], lives' \in [Queues -> Nat],
             bound' = bound, raced' = raced,
             \A q \in Queues : Filled(q)' = Filled(q) /\ table'[q].curmsgs = table[q].curmsgs
      PROVE  IInv'
  <2>1. Shape' BY <1>2 DEF IInv, Shape
  <2>2. \A q \in Queues : Arriving(q)' = Arriving(q) /\ Leaving(q)' = Leaving(q)
    BY <1>2 DEF Arriving, Leaving
  <2>3. CountBalanced' BY <1>0, <1>2, <2>2, DueAlone
  <2> QED BY <2>1, <2>3 DEF IInv
<1>3. CASE UNCHANGED vars \/ Tick
  <2>1. UNCHANGED <<table, bound, pc, loc, lives, raced>> BY <1>3 DEF vars, Tick, ghosts
  <2> QED BY <1>0, <1>2, <2>1 DEF Filled
<1>4. ASSUME NEW t \in Threads, Call(t) PROVE IInv'
  <2>1. CASE \/ \E name \in Names, limit \in Limits, nonblock \in BOOLEAN :
                  CallOpen(t, name, limit, nonblock)
             \/ \E q \in Queues, at \in {NoDeadline, MaxTime}, fits \in BOOLEAN :
                  CallReceive(t, q, at, fits) \/ \E m \in Msgs : CallSend(t, q, m, at, fits)
    <3>1. /\ UNCHANGED <<table, lives, bound, raced>>
          /\ \E step, l : Quietly(t, step, l)
      BY <1>0, <2>1, EntersQuietly
    <3> QED BY <1>0, <1>1, <3>1, SlotsAlone
  <2>2. CASE \/ \E name \in Names : CallUnlink(t, name)
             \/ \E q \in Queues, nonblock \in BOOLEAN : CallSetattr(t, q, nonblock)
    <3>1. UNCHANGED <<pc, loc, bound, raced>> BY <2>2 DEF CallUnlink, CallSetattr, ghosts
    <3>2. table' \in [Queues -> Queue] /\ lives' \in [Queues -> Nat]
      BY <1>0, <2>2, EntriesTyped
    <3>3. \A q \in Queues : Filled(q)' = Filled(q) /\ table'[q].curmsgs = table[q].curmsgs
      BY <1>0, <2>2, SlotsAlone
    <3> QED BY <1>2, <3>1, <3>2, <3>3
  <2> QED BY <1>4, <2>1, <2>2 DEF Call
<1>5. ASSUME NEW t \in Threads, Work(t) PROVE IInv'
  <2>1. CASE \/ CreateScan(t) \/ SendScan(t) \/ SendSeqRead(t) \/ SendCountRead(t)
             \/ ReceiveScan(t) \/ ReceiveCopy(t) \/ ReceiveCountRead(t)
    <3>1. /\ UNCHANGED <<table, lives, bound, raced>>
          /\ \E step, l : Quietly(t, step, l)
      BY <1>0, <2>1, ReadsQuietly
    <3> QED BY <1>0, <1>1, <3>1, SlotsAlone
  <2>2. CASE Again(t) \/ Delay(t) \/ SendTry(t) \/ ReceiveTry(t) \/ OpenBind(t)
    <3>1. \E step, l : Quietly(t, step, l) BY <1>0, <2>2, WorksQuietly
    <3>2. UNCHANGED <<table, lives, raced>>
      BY <2>2 DEF Again, Delay, SendTry, ReceiveTry, OpenBind, ghosts
    <3>3. bound' \subseteq Queues
      <4>1. CASE OpenBind(t)
        <5>1. loc[t].queue \in Queues BY <1>0, <4>1 DEF OpenBind, Shape, Fits
        <5> QED BY <1>0, <4>1, <5>1 DEF OpenBind
      <4>2. CASE Again(t) \/ Delay(t) \/ SendTry(t) \/ ReceiveTry(t)
        BY <1>0, <4>2 DEF Again, Delay, SendTry, ReceiveTry
      <4> QED BY <2>2, <4>1, <4>2
    <3> QED BY <1>0, <1>1, <3>1, <3>2, <3>3, SlotsAlone
  <2>3. CASE CreateMark(t) \/ OpenFlags(t) \/ OpenDesc(t)
    <3>1. \E step, l : Quietly(t, step, l) BY <1>0, <2>3, WorksQuietly
    <3>2. UNCHANGED <<bound, raced>> BY <2>3 DEF CreateMark, OpenFlags, OpenDesc, ghosts
    <3>3. table' \in [Queues -> Queue] /\ lives' \in [Queues -> Nat]
      BY <1>0, <2>3, EntriesTyped
    <3> QED BY <1>0, <1>1, <2>3, <3>1, <3>2, <3>3, SlotsAlone
  <2>4. CASE SendSeq(t) \/ SendBody(t)
    <3>1. \E step, l : Quietly(t, step, l) BY <1>0, <2>4, WorksQuietly
    <3>2. UNCHANGED <<bound, raced, lives>> BY <2>4 DEF SendSeq, SendBody, ghosts
    <3>3. table' \in [Queues -> Queue] BY <1>0, <2>4, SlotsTyped
    <3> QED BY <1>0, <1>1, <2>4, <3>1, <3>2, <3>3, SlotsAlone
  <2>5. CASE CreateFill(t)
    <3>1. \E step, l : Quietly(t, step, l) BY <1>0, <2>5, WorksQuietly
    <3>2. bound' = bound BY <2>5 DEF CreateFill
    <3>3. table' \in [Queues -> Queue] /\ lives' \in [Queues -> Nat]
      BY <1>0, <2>5, EntriesTyped
    <3>4. Shape' BY <1>0, <3>1, <3>2, <3>3, ShapeMoves DEF Quietly
    <3> QED BY <2>5, <3>4, QueueMade DEF IInv
  <2>6. CASE SendMark(t) \/ ReceiveClear(t) \/ SendCount(t) \/ ReceiveCount(t)
    <3>1. /\ \E step, l : Fits(step, l) /\ Go(t, step, l)
          /\ bound' = bound /\ lives' = lives
      BY <1>0, <2>6, WorksAloud
    <3>2. table' \in [Queues -> Queue] BY <1>0, <2>6, SlotsTyped
    <3>3. Shape' BY <1>0, <3>1, <3>2, ShapeMoves
    <3>4. CountBalanced' BY <2>6, SlotTaken, SlotCounted
    <3> QED BY <3>3, <3>4 DEF IInv
  <2> QED BY <1>5, <2>1, <2>2, <2>3, <2>4, <2>5, <2>6 DEF Work
<1> QED BY <1>3, <1>4, <1>5 DEF Next

(* Whatever the threads call, with nothing locked and their bodies overlapping*)
(* as they will: until two calls have collided on a queue, its slots, its     *)
(* count and the calls between the two agree.                                 *)
THEOREM CountsDriftOnlyByCollision == Spec => []CountBalanced
<1>1. IInv => CountBalanced BY DEF IInv
<1> QED BY IInvInit, IInvNext, <1>1, PTL DEF Spec
=============================================================================
