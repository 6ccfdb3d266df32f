---------------------------- MODULE Threads_proofs ----------------------------
(* Threads, for any number of them and of slots.  When calls of pthread_create*)
(* do not overlap, every thread runs the function it was made for, as the     *)
(* descriptor it was made with, and nobody gives back memory it still uses.   *)
(* When exits do not overtake creations either, the counts of libc and of the *)
(* runtime, the slots of clone and the numbers of threads are exact.          *)
EXTENDS Threads, FiniteSetTheorems, TLAPS

(* The shape of the variables the argument is about; the counters are not.    *)
Shape ==
  /\ pc \in [Thread -> Pcs]
  /\ obj \in [Thread -> Thread \cup {None}]
  /\ slot \in [Thread -> 1..NSlots + 1]
  /\ busy \in [Slot -> BOOLEAN]
  /\ ctx \in [Slot -> [entry : Thread \cup {None}, tls : Thread \cup {None}]]
  /\ self \in [Thread -> Thread \cup {None}]
  /\ fn \in [Thread -> Thread \cup {None}]
  /\ ctid \in [Thread -> Thread \cup {None, Spare}]

Settled == {"run"} \cup Creating \cup Joining \cup Leaving
Filling == {"entry", "tls", "spawn"}

OneCreator ==
  \A u, v \in Thread : pc[u] \in Creating /\ pc[v] \in Creating => u = v

(* A creator knows a descriptor whose thread does not exist yet.              *)
CreatorsTarget ==
  \A t \in Thread :
    /\ pc[t] \in Creating => obj[t] \in Thread
    /\ pc[t] \in Creating \ {"ptid"} => pc[obj[t]] = "none"

(* What a creator has written so far is in the slot it has marked.            *)
CreatorsSlot ==
  \A t \in Thread :
    /\ pc[t] \in {"mark"} \cup Filling => slot[t] \in Slot
    /\ pc[t] = "mark" => ~busy[slot[t]]
    /\ pc[t] \in Filling => busy[slot[t]]
    /\ pc[t] \in {"tls", "spawn"} => ctx[slot[t]].entry = obj[t]
    /\ pc[t] = "spawn" => ctx[slot[t]].tls = obj[t]

(* A thread that starts finds itself in its slot.                             *)
StartersSlot ==
  \A t \in Thread :
    pc[t] \in Booting =>
      /\ slot[t] \in Slot /\ busy[slot[t]]
      /\ ctx[slot[t]].entry = t /\ ctx[slot[t]].tls = t

OneHolder ==
  \A u, v \in Thread :
    pc[u] \in Filling \cup Booting /\ pc[v] \in Filling \cup Booting
      /\ slot[u] = slot[v] => u = v

(* What a thread has read so far names itself.                                *)
KnowsItself ==
  \A t \in Thread :
    /\ pc[t] \in {"count", "tid", "take", "release"} \cup Settled => self[t] = t
    /\ pc[t] \in {"take", "release"} \cup Settled => ctid[t] \in {t, Spare}
    /\ pc[t] \in {"release"} \cup Settled => fn[t] = t

(* What changes when threads move: everything but the shape.                  *)
Links ==
  /\ OneCreator /\ CreatorsTarget /\ CreatorsSlot
  /\ StartersSlot /\ OneHolder /\ KnowsItself

IInv == Shape /\ Links

USE DEF Slot, Pcs, Creating, Starting, Booting, Joining, Cleared, Leaving,
        Settled, Filling

(* The creator: it alone writes slots, and only one that no thread holds.     *)
LEMMA CloneKeeps ==
  ASSUME ThreadsAssumption, IInv,
         NEW t \in Thread, Clone(t) \/ SpawnFails(t)
  PROVE  IInv'
<1> USE DEF IInv, Shape, Goto, At, idV, callv, cloneV
<1>1. CASE Scan(t)
  <2>1. CASE slot[t] \notin Slot
    <3>1. /\ pc' = [pc EXCEPT ![t] = "run"] /\ obj' = [obj EXCEPT ![t] = None]
          /\ UNCHANGED <<slot, busy, ctx, self, fn, ctid>>
      BY <1>1, <2>1 DEF Scan, GiveUp
    <3>2. Shape' BY <3>1
    <3>3. Links' BY <1>1, <3>1 DEF Scan, Links, OneCreator, CreatorsTarget, CreatorsSlot,
              StartersSlot, OneHolder, KnowsItself
    <3> QED BY <3>2, <3>3
  <2>2. CASE slot[t] \in Slot /\ busy[slot[t]]
    <3>1. /\ slot' = [slot EXCEPT ![t] = @ + 1]
          /\ UNCHANGED <<pc, obj, busy, ctx, self, fn, ctid>>
      BY <1>1, <2>2 DEF Scan
    <3>2. Shape' BY <2>2, <3>1 DEF ThreadsAssumption
    <3>3. Links' BY <1>1, <3>1 DEF Scan, Links, OneCreator, CreatorsTarget, CreatorsSlot,
              StartersSlot, OneHolder, KnowsItself
    <3> QED BY <3>2, <3>3
  <2>3. CASE slot[t] \in Slot /\ ~busy[slot[t]]
    <3>1. /\ pc' = [pc EXCEPT ![t] = "mark"]
          /\ UNCHANGED <<slot, obj, busy, ctx, self, fn, ctid>>
      BY <1>1, <2>3 DEF Scan
    <3>2. Shape' BY <3>1
    <3>3. Links' BY <1>1, <2>3, <3>1 DEF Scan, Links, OneCreator, CreatorsTarget, CreatorsSlot,
              StartersSlot, OneHolder, KnowsItself
    <3> QED BY <3>2, <3>3
  <2> QED BY <2>1, <2>2, <2>3
<1>2. CASE Mark(t)
  <2>1. Shape' BY <1>2 DEF Mark
  <2>2. Links'
    BY <1>2 DEF Mark, Links, OneCreator, CreatorsTarget, CreatorsSlot,
          StartersSlot, OneHolder, KnowsItself
  <2> QED BY <2>1, <2>2
<1>3. CASE FillEntry(t)
  <2>1. /\ slot[t] \in Slot /\ obj[t] \in Thread
        /\ ctx[slot[t]] \in [entry : Thread \cup {None}, tls : Thread \cup {None}]
    BY <1>3 DEF FillEntry, CreatorsSlot, CreatorsTarget, Links
  <2>2. ctx' \in [Slot -> [entry : Thread \cup {None}, tls : Thread \cup {None}]]
    BY <1>3, <2>1 DEF FillEntry
  <2>3. Shape' BY <1>3, <2>2 DEF FillEntry
  <2>4. Links'
    BY <1>3, <2>1 DEF FillEntry, Links, OneCreator, CreatorsTarget, CreatorsSlot,
          StartersSlot, OneHolder, KnowsItself
  <2> QED BY <2>3, <2>4
<1>4. CASE FillTls(t)
  <2>1. /\ slot[t] \in Slot /\ obj[t] \in Thread
        /\ ctx[slot[t]] \in [entry : Thread \cup {None}, tls : Thread \cup {None}]
    BY <1>4 DEF FillTls, CreatorsSlot, CreatorsTarget, Links
  <2>2. ctx' \in [Slot -> [entry : Thread \cup {None}, tls : Thread \cup {None}]]
    BY <1>4, <2>1 DEF FillTls
  <2>3. Shape' BY <1>4, <2>2 DEF FillTls
  <2>4. Links'
    BY <1>4, <2>1 DEF FillTls, Links, OneCreator, CreatorsTarget, CreatorsSlot,
          StartersSlot, OneHolder, KnowsItself
  <2> QED BY <2>3, <2>4
<1>5. CASE Spawn(t)
  <2>0. pc[t] = "spawn" BY <1>5 DEF Spawn
  <2>1. /\ obj[t] \in Thread /\ pc[obj[t]] = "none" /\ obj[t] # t
        /\ slot[t] \in Slot
    BY <1>5 DEF Spawn, CreatorsTarget, CreatorsSlot, Links
  <2>2. /\ pc' = [pc EXCEPT ![t] = "ptid", ![obj[t]] = "tlca"]
        /\ slot' = [slot EXCEPT ![obj[t]] = slot[t]]
        /\ UNCHANGED <<obj, busy, ctx, self, fn, ctid>>
    BY <1>5 DEF Spawn
  <2>3. Shape' BY <2>1, <2>2
  <2>4. Links'
    <3>1. OneCreator' BY <2>0, <2>1, <2>2 DEF Links, OneCreator
    <3>2. CreatorsTarget' BY <2>0, <2>1, <2>2 DEF Links, CreatorsTarget, OneCreator
    <3>3. CreatorsSlot' BY <2>0, <2>1, <2>2 DEF Links, CreatorsSlot, CreatorsTarget, OneCreator, OneHolder
    <3>4. StartersSlot' BY <2>0, <2>1, <2>2 DEF Links, StartersSlot, CreatorsSlot, CreatorsTarget, OneHolder
    <3> DEFINE holds(u) == pc[u] \in Filling \cup Booting
    <3>5. /\ pc'[t] = "ptid" /\ slot'[obj[t]] = slot[t]
          /\ \A u \in Thread \ {t, obj[t]} : pc'[u] = pc[u] /\ slot'[u] = slot[u]
      BY <2>1, <2>2
    <3>6. holds(t) /\ \A u, v \in Thread : holds(u) /\ holds(v) /\ slot[u] = slot[v] => u = v
      BY <2>0 DEF Links, OneHolder
    <3>7. \A u \in Thread \ {t} : holds(u) => slot[u] # slot[t] BY <3>6
    <3>8. OneHolder'
      <4> SUFFICES ASSUME NEW u \in Thread, NEW v \in Thread, holds(u)', holds(v)',
                          slot'[u] = slot'[v], u # v
                   PROVE  FALSE
        BY DEF OneHolder
      <4>1. u # t /\ v # t BY <3>5
      <4>2. CASE u = obj[t] BY <4>1, <4>2, <3>5, <3>7
      <4>3. CASE v = obj[t] BY <4>1, <4>3, <3>5, <3>7
      <4>4. CASE u # obj[t] /\ v # obj[t] BY <4>1, <4>4, <3>5, <3>6
      <4> QED BY <4>2, <4>3, <4>4
    <3>9. KnowsItself' BY <2>0, <2>1, <2>2 DEF Links, KnowsItself, CreatorsTarget
    <3> QED BY <3>1, <3>2, <3>3, <3>4, <3>8, <3>9 DEF Links
  <2> QED BY <2>3, <2>4
<1>6. CASE Ptid(t)
  <2>1. Shape' BY <1>6 DEF Ptid
  <2>2. Links'
    BY <1>6 DEF Ptid, Links, OneCreator, CreatorsTarget, CreatorsSlot,
          StartersSlot, OneHolder, KnowsItself
  <2> QED BY <2>1, <2>2
<1>7. CASE SpawnFails(t)
  <2>1. Shape' BY <1>7 DEF SpawnFails, GiveUp, CreatorsSlot, CreatorsTarget, Links
  <2>2. Links'
    BY <1>7 DEF SpawnFails, GiveUp, Links, OneCreator, CreatorsTarget, CreatorsSlot,
          StartersSlot, OneHolder, KnowsItself
  <2> QED BY <2>1, <2>2
<1> QED BY <1>1, <1>2, <1>3, <1>4, <1>5, <1>6, <1>7 DEF Clone

(* The new thread: it reads its own slot until it releases it.                *)
LEMMA ThunkKeeps ==
  ASSUME ThreadsAssumption, IInv,
         NEW t \in Thread, Thunk(t)
  PROVE  IInv'
<1> USE DEF IInv, Shape, Goto, At, idV, callv, cloneV
<1>1. CASE TlcaInit(t)
  <2>1. Shape' BY <1>1 DEF TlcaInit, StartersSlot, Links
  <2>2. Links'
    BY <1>1 DEF TlcaInit, Links, OneCreator, CreatorsTarget, CreatorsSlot,
          StartersSlot, OneHolder, KnowsItself
  <2> QED BY <2>1, <2>2
<1>2. CASE Count(t)
  <2>1. Shape' BY <1>2 DEF Count
  <2>2. Links'
    BY <1>2 DEF Count, Links, OneCreator, CreatorsTarget, CreatorsSlot,
          StartersSlot, OneHolder, KnowsItself
  <2> QED BY <2>1, <2>2
<1>3. CASE SetTid(t)
  <2>1. Shape' BY <1>3 DEF SetTid, StartersSlot, Links
  <2>2. Links'
    BY <1>3 DEF SetTid, Links, OneCreator, CreatorsTarget, CreatorsSlot,
          StartersSlot, OneHolder, KnowsItself
  <2> QED BY <2>1, <2>2
<1>4. CASE Take(t)
  <2>1. Shape' BY <1>4 DEF Take, StartersSlot, Links
  <2>2. Links'
    BY <1>4 DEF Take, Links, OneCreator, CreatorsTarget, CreatorsSlot,
          StartersSlot, OneHolder, KnowsItself
  <2> QED BY <2>1, <2>2
<1>5. CASE Release(t)
  <2>1. Shape' BY <1>5 DEF Release
  <2>2. Links'
    BY <1>5 DEF Release, Links, OneCreator, CreatorsTarget, CreatorsSlot,
          StartersSlot, OneHolder, KnowsItself
  <2> QED BY <2>1, <2>2
<1> QED BY <1>1, <1>2, <1>3, <1>4, <1>5 DEF Thunk

(* An exiting thread changes its own place, and at most moves its exit word.  *)
LEMMA ExitKeeps ==
  ASSUME ThreadsAssumption, IInv,
         NEW t \in Thread, Leave(t) \/ ExitGroup(t) \/ Clear(t) \/ Post(t) \/ Epilog(t)
           \/ Exit(t) \/ CallExit(t)
  PROVE  IInv'
<1> USE DEF IInv, Shape, Goto, At, idV, callv, cloneV
<1>1. CASE Leave(t)
  <2>1. CASE minus1 = 0
    <3>1. pc' = [pc EXCEPT ![t] = "exit"] /\ UNCHANGED <<obj, slot, busy, ctx, self, fn, ctid>>
      BY <1>1, <2>1 DEF Leave
    <3>2. Shape' BY <3>1
    <3>3. Links' BY <1>1, <3>1 DEF Leave, Links, OneCreator, CreatorsTarget, CreatorsSlot,
              StartersSlot, OneHolder, KnowsItself
    <3> QED BY <3>2, <3>3
  <2>2. CASE minus1 # 0
    <3>1. /\ pc' = [pc EXCEPT ![t] = "clear"]
          /\ ctid' \in {ctid, [ctid EXCEPT ![t] = Spare]}
          /\ UNCHANGED <<obj, slot, busy, ctx, self, fn>>
      BY <1>1, <2>2 DEF Leave
    <3>2. Shape' BY <3>1
    <3>3. Links' BY <1>1, <3>1 DEF Leave, Links, OneCreator, CreatorsTarget, CreatorsSlot,
              StartersSlot, OneHolder, KnowsItself
    <3> QED BY <3>2, <3>3
  <2> QED BY <2>1, <2>2
<1>2. CASE ExitGroup(t)
  <2>1. Shape' BY <1>2 DEF ExitGroup
  <2>2. Links'
    BY <1>2 DEF ExitGroup, Links, OneCreator, CreatorsTarget, CreatorsSlot,
          StartersSlot, OneHolder, KnowsItself
  <2> QED BY <2>1, <2>2
<1>3. CASE Clear(t)
  <2>1. Shape' BY <1>3 DEF Clear
  <2>2. Links'
    BY <1>3 DEF Clear, Links, OneCreator, CreatorsTarget, CreatorsSlot,
          StartersSlot, OneHolder, KnowsItself
  <2> QED BY <2>1, <2>2
<1>4. CASE Post(t)
  <2>1. Shape' BY <1>4 DEF Post
  <2>2. Links'
    BY <1>4 DEF Post, Links, OneCreator, CreatorsTarget, CreatorsSlot,
          StartersSlot, OneHolder, KnowsItself
  <2> QED BY <2>1, <2>2
<1>5. CASE Epilog(t)
  <2>1. Shape' BY <1>5 DEF Epilog
  <2>2. Links'
    BY <1>5 DEF Epilog, Links, OneCreator, CreatorsTarget, CreatorsSlot,
          StartersSlot, OneHolder, KnowsItself
  <2> QED BY <2>1, <2>2
<1>6. CASE Exit(t)
  <2>1. Shape' BY <1>6 DEF Exit
  <2>2. Links'
    BY <1>6 DEF Exit, Links, OneCreator, CreatorsTarget, CreatorsSlot,
          StartersSlot, OneHolder, KnowsItself
  <2> QED BY <2>1, <2>2
<1>7. CASE CallExit(t)
  <2>1. Shape' BY <1>7 DEF CallExit
  <2>2. Links'
    BY <1>7 DEF CallExit, Links, OneCreator, CreatorsTarget, CreatorsSlot,
          StartersSlot, OneHolder, KnowsItself
  <2> QED BY <2>1, <2>2
<1> QED BY <1>1, <1>2, <1>3, <1>4, <1>5, <1>6, <1>7

(* Waking moves at most one sleeper back to its loop.                         *)
LEMMA WokenMoves ==
  ASSUME NEW pcs \in [Thread -> Pcs], NEW w,
         \A u \in Thread : pc[u] = "sleep" => pcs[u] = "sleep"
  PROVE  /\ Woken(pcs, w) \in [Thread -> Pcs]
         /\ \A u \in Thread :
              \/ Woken(pcs, w)[u] = pcs[u]
              \/ pcs[u] = "sleep" /\ Woken(pcs, w)[u] = "check"
<1>1. CASE Sleepers(w) = {} BY <1>1 DEF Woken
<1>2. CASE Sleepers(w) # {}
  <2> DEFINE v == CHOOSE u \in Sleepers(w) : TRUE
  <2>1. v \in Sleepers(w) BY <1>2
  <2>2. v \in Thread /\ pcs[v] = "sleep" BY <2>1 DEF Sleepers
  <2>3. Woken(pcs, w) = [pcs EXCEPT ![v] = "check"] BY <1>2 DEF Woken
  <2> QED BY <2>2, <2>3
<1> QED BY <1>1, <1>2

LEMMA WakingKeeps ==
  ASSUME ThreadsAssumption, IInv,
         (\E t \in Thread : Wake(t)) \/ Threadexit
  PROVE  IInv'
<1> USE DEF IInv, Shape
<1>1. ASSUME NEW t \in Thread, Wake(t) PROVE IInv'
  <2> DEFINE pcs == [pc EXCEPT ![t] = "post"]
  <2>1. /\ pcs \in [Thread -> Pcs] /\ pc[t] = "wake" /\ pc' = Woken(pcs, ctid[t])
        /\ UNCHANGED <<obj, slot, busy, ctx, self, fn, ctid>>
    BY <1>1 DEF Wake, At, callv, cloneV, idV
  <2>2. \A u \in Thread : pc[u] = "sleep" => pcs[u] = "sleep" BY <2>1
  <2>3. pcs[t] = "post" /\ \A u \in Thread \ {t} : pcs[u] = pc[u] BY <2>1
  <2> HIDE DEF pcs
  <2>4. /\ pc' \in [Thread -> Pcs]
        /\ \A u \in Thread : pc'[u] = pcs[u] \/ (pcs[u] = "sleep" /\ pc'[u] = "check")
    BY <2>1, <2>2, WokenMoves
  <2>5. Shape' BY <2>1, <2>4
  <2>6. \A u \in Thread :
          pc'[u] = pc[u] \/ (pc[u] \in {"wake", "sleep"} /\ pc'[u] \in {"post", "check"})
    BY <2>1, <2>4, <2>3
  <2>7. \A u \in Thread :
          pc[u] \in Creating \cup Booting \cup {"none"}
            \/ pc'[u] \in Creating \cup Booting \cup {"none"} => pc'[u] = pc[u]
    BY <2>6
  <2>8. Links'
    <3>1. OneCreator' BY <2>1, <2>7 DEF Links, OneCreator
    <3>2. CreatorsTarget' BY <2>1, <2>7 DEF Links, CreatorsTarget
    <3>3. CreatorsSlot' BY <2>1, <2>7 DEF Links, CreatorsSlot
    <3>4. StartersSlot' BY <2>1, <2>7 DEF Links, StartersSlot
    <3>5. OneHolder' BY <2>1, <2>7 DEF Links, OneHolder
    <3>6. KnowsItself' BY <2>1, <2>6 DEF Links, KnowsItself
    <3> QED BY <3>1, <3>2, <3>3, <3>4, <3>5, <3>6 DEF Links
  <2> QED BY <2>5, <2>8
<1>2. CASE Threadexit
  <2>1. /\ pc' = Woken(pc, ctid[Head(inbox)])
        /\ UNCHANGED <<obj, slot, busy, ctx, self, fn, ctid>>
    BY <1>2 DEF Threadexit, callv, cloneV, idV
  <2>2. /\ pc' \in [Thread -> Pcs]
        /\ \A u \in Thread : pc'[u] = pc[u] \/ (pc[u] = "sleep" /\ pc'[u] = "check")
    BY <2>1, WokenMoves
  <2>3. Shape' BY <2>1, <2>2
  <2>4. Links'
    <3>1. OneCreator' BY <2>1, <2>2 DEF Links, OneCreator
    <3>2. CreatorsTarget' BY <2>1, <2>2 DEF Links, CreatorsTarget
    <3>3. CreatorsSlot' BY <2>1, <2>2 DEF Links, CreatorsSlot
    <3>4. StartersSlot' BY <2>1, <2>2 DEF Links, StartersSlot
    <3>5. OneHolder' BY <2>1, <2>2 DEF Links, OneHolder
    <3>6. KnowsItself' BY <2>1, <2>2 DEF Links, KnowsItself
    <3> QED BY <3>1, <3>2, <3>3, <3>4, <3>5, <3>6 DEF Links
  <2> QED BY <2>3, <2>4
<1> QED BY <1>1, <1>2

(* Calls begin and joiners wait; only here is it needed that creations do not *)
(* overlap.                                                                   *)
LEMMA CallsKeep ==
  ASSUME ThreadsAssumption, IInv,
         "serial" \in Discipline, NEW t \in Thread, NEW p \in Thread, NEW d \in BOOLEAN,
         Create(t, p, d) \/ Join(t, p) \/ Detach(t, p) \/ Joins(t)
  PROVE  IInv'
<1> USE DEF IInv, Shape, Goto, At, idV, callv, cloneV
<1>1. CASE Create(t, p, d)
  <2>1. Shape' BY <1>1 DEF Create, ThreadsAssumption
  <2>2. Links'
    BY <1>1 DEF Create, Links, OneCreator, CreatorsTarget, CreatorsSlot,
          StartersSlot, OneHolder, KnowsItself
  <2> QED BY <2>1, <2>2
<1>2. CASE Join(t, p)
  <2>1. Shape' BY <1>2 DEF Join
  <2>2. Links'
    BY <1>2 DEF Join, Links, OneCreator, CreatorsTarget, CreatorsSlot,
          StartersSlot, OneHolder, KnowsItself
  <2> QED BY <2>1, <2>2
<1>3. CASE Detach(t, p)
  <2>1. pc[t] = "run" /\ UNCHANGED <<slot, busy, ctx, self, fn, ctid>>
    BY <1>3 DEF Detach
  <2>2. CASE pc' = pc /\ obj' = obj
    <3>1. Shape' BY <2>1, <2>2
    <3>2. Links' BY <2>1, <2>2 DEF Links, OneCreator, CreatorsTarget, CreatorsSlot,
            StartersSlot, OneHolder, KnowsItself
    <3> QED BY <3>1, <3>2
  <2>3. CASE /\ pc' = [pc EXCEPT ![t] = "check"]
             /\ obj' = [obj EXCEPT ![t] = p]
    <3>1. Shape' BY <2>1, <2>3
    <3>2. Links' BY <2>1, <2>3 DEF Links, OneCreator, CreatorsTarget, CreatorsSlot,
            StartersSlot, OneHolder, KnowsItself
    <3> QED BY <3>1, <3>2
  <2> QED BY <1>3, <2>2, <2>3 DEF Detach
<1>4. CASE Check(t)
  <2>1. Shape' BY <1>4 DEF Check
  <2>2. Links'
    BY <1>4 DEF Check, Links, OneCreator, CreatorsTarget, CreatorsSlot,
          StartersSlot, OneHolder, KnowsItself
  <2> QED BY <2>1, <2>2
<1>5. CASE Wait(t)
  <2>1. Shape' BY <1>5 DEF Wait
  <2>2. Links'
    BY <1>5 DEF Wait, Links, OneCreator, CreatorsTarget, CreatorsSlot,
          StartersSlot, OneHolder, KnowsItself
  <2> QED BY <2>1, <2>2
<1>6. CASE Reap(t)
  <2>1. Shape' BY <1>6 DEF Reap
  <2>2. Links'
    BY <1>6 DEF Reap, Links, OneCreator, CreatorsTarget, CreatorsSlot,
          StartersSlot, OneHolder, KnowsItself
  <2> QED BY <2>1, <2>2
<1> QED BY <1>1, <1>2, <1>3, <1>4, <1>5, <1>6 DEF Joins

-----------------------------------------------------------------------------
LEMMA InitLinks == ThreadsAssumption /\ Init => IInv
<1> SUFFICES ASSUME ThreadsAssumption, Init PROVE IInv OBVIOUS
<1>1. Shape BY DEF Shape, Init, ThreadsAssumption
<1>2. Links BY DEF Init, Links, OneCreator, CreatorsTarget, CreatorsSlot,
          StartersSlot, OneHolder, KnowsItself
<1> QED BY <1>1, <1>2 DEF IInv

LEMMA NextLinks ==
  ASSUME ThreadsAssumption, "serial" \in Discipline, IInv, [Next]_vars
  PROVE  IInv'
<1>1. CASE UNCHANGED vars
  BY <1>1 DEF vars, callv, cloneV, idV, IInv, Shape, Links, OneCreator, CreatorsTarget, CreatorsSlot,
          StartersSlot, OneHolder, KnowsItself
<1>2. ASSUME NEW t \in Thread,
             \/ Clone(t) \/ SpawnFails(t) \/ Thunk(t) \/ PsxExit(t) \/ Joins(t)
             \/ Exit(t) \/ CallExit(t)
      PROVE  IInv'
  <2>1. CASE Clone(t) \/ SpawnFails(t) BY <2>1, CloneKeeps
  <2>2. CASE Thunk(t) BY <2>2, ThunkKeeps
  <2>3. CASE Leave(t) \/ ExitGroup(t) \/ Clear(t) \/ Post(t) \/ Epilog(t)
             \/ Exit(t) \/ CallExit(t)
    BY <2>3, ExitKeeps
  <2>4. CASE Wake(t) BY <2>4, WakingKeeps
  <2>5. CASE Joins(t) BY <2>5, CallsKeep
  <2> QED BY <1>2, <2>1, <2>2, <2>3, <2>4, <2>5 DEF PsxExit
<1>3. ASSUME NEW t \in Thread, NEW p \in Thread, NEW d \in BOOLEAN,
             Create(t, p, d) \/ Join(t, p) \/ Detach(t, p)
      PROVE  IInv'
  BY <1>3, CallsKeep
<1>4. CASE Threadexit BY <1>4, WakingKeeps
<1> QED BY <1>1, <1>2, <1>3, <1>4 DEF Next

(* Every thread runs its own function as its own descriptor, and its exit     *)
(* clears its own number: what _clone.c:120-122 means to ensure by copying    *)
(* before it releases the slot, once calls of pthread_create do not overlap.  *)
THEOREM OwnStart == "serial" \in Discipline /\ Spec => []StartsAsCreated
<1>1. IInv => StartsAsCreated
  BY DEF IInv, Shape, Links, KnowsItself, StartsAsCreated
<1>2. ThreadsAssumption BY ThreadsAssumption
<1>3. SUFFICES ASSUME "serial" \in Discipline PROVE Spec => []StartsAsCreated
  OBVIOUS
<1>4. Init => IInv BY <1>2, InitLinks
<1>5. IInv /\ [Next]_vars => IInv' BY <1>2, <1>3, NextLinks
<1> QED BY <1>1, <1>4, <1>5, PTL DEF Spec

-----------------------------------------------------------------------------
(* From here on: what the counts and the numbers of threads say.              *)

(* Numbers and memory.                                                        *)

(* A descriptor that somebody may join is of a thread that was made, and its  *)
(* number is cleared by that thread's own exit only.                          *)
Named(p) == p \in known \/ \E u \in Thread : pc[u] \in Joining /\ obj[u] = p

NumbersHold ==
  /\ \A u \in Thread : pc[u] \in Joining => obj[u] \in Thread
  /\ \A u \in Thread : pc[u] = "ptid" => pc[obj[u]] # "none"
  /\ \A p \in Thread :
       Named(p) => pc[p] # "none" /\ (tid[p] = None => pc[p] \in Cleared)
  /\ \A u \in Thread : pc[u] = "reap" => pc[obj[u]] \in Cleared

MemoryHolds ==
  /\ ReapsOnlyTheDead
  /\ \A u \in Thread : pc[u] \in Creating \ {"ptid"} => obj[u] \in mapped

-----------------------------------------------------------------------------
(* The daemon's mail and count.                                               *)

MailHolds ==
  /\ \A i \in 1 .. Len(inbox) : pc[inbox[i]] \in {"epilog", "gone"} /\ inbox[i] \in tlca
  /\ \A i, j \in 1 .. Len(inbox) : inbox[i] = inbox[j] => i = j
  /\ \A t \in tlca : pc[t] \notin {"none", "tlca"}
  /\ TlcaOutlivesThread

Counted == {t \in tlca : pc[t] # "count"}

-----------------------------------------------------------------------------
(* libc's count.                                                              *)

(* Those that have not left, and those whose creation has begun.              *)
Coming == {p \in Thread : \E u \in Thread : pc[u] \in Creating \ {"ptid"} /\ obj[u] = p}
Alive == {t \in Thread : pc[t] \notin {"none", "clear"} \cup Cleared} \cup Coming

MinusOneExact == minus1 + 1 = Cardinality(Alive)

(* Whoever made a thread that has not been counted is there.                  *)
MakersStay ==
  /\ \A u \in Thread : pc[u] \in Creating \ {"ptid"} => maker[obj[u]] = u
  /\ \A p \in Thread :
       pc[p] \in Starting =>
         /\ maker[p] \in Thread
         /\ pc[maker[p]] \notin {"none", "leave", "clear"} \cup Starting \cup Cleared

-----------------------------------------------------------------------------
(* Slots and cleared numbers.                                                 *)

BusyIsHeld ==
  \A s \in Slot :
    busy[s] => \E u \in Thread : pc[u] \in Filling \cup Booting /\ slot[u] = s

ClearedForGood ==
  /\ \A u \in Thread :
       pc[u] = "ptid" => pc[obj[u]] \notin {"none", "leave", "clear"} \cup Cleared
  /\ \A t \in Thread : ctid[t] = Spare => pc[t] \in Leaving /\ t \in detached
  /\ \A t \in known : t \notin detached /\ pc[t] # "none"
  /\ NumberStaysCleared


(* Waking somebody moves the one that wakes and at most one sleeper.          *)
LEMMA WakeEffect ==
  ASSUME IInv, (\E t \in Thread : Wake(t)) \/ Threadexit
  PROVE  /\ pc' \in [Thread -> Pcs]
         /\ \A u \in Thread :
              \/ pc'[u] = pc[u]
              \/ pc[u] = "sleep" /\ pc'[u] = "check"
              \/ pc[u] = "wake" /\ pc'[u] = "post"
         /\ Threadexit => \A u \in Thread : pc'[u] = "post" <=> pc[u] = "post"
         /\ UNCHANGED <<obj, slot, busy, ctx, self, fn, ctid, tid, muslV>>
<1> USE DEF IInv, Shape
<1>1. ASSUME NEW t \in Thread, Wake(t)
      PROVE  /\ pc' \in [Thread -> Pcs]
             /\ \A u \in Thread :
                  \/ pc'[u] = pc[u]
                  \/ pc[u] = "sleep" /\ pc'[u] = "check"
                  \/ pc[u] = "wake" /\ pc'[u] = "post"
  <2> DEFINE pcs == [pc EXCEPT ![t] = "post"]
  <2>1. pcs \in [Thread -> Pcs] /\ pc[t] = "wake" /\ pc' = Woken(pcs, ctid[t])
    BY <1>1 DEF Wake, At
  <2>2. \A u \in Thread : pc[u] = "sleep" => pcs[u] = "sleep" BY <2>1
  <2>3. pcs[t] = "post" /\ \A u \in Thread \ {t} : pcs[u] = pc[u] BY <2>1
  <2> HIDE DEF pcs, Shape, IInv, Pcs
  <2>4. /\ pc' \in [Thread -> Pcs]
        /\ \A u \in Thread : pc'[u] = pcs[u] \/ (pcs[u] = "sleep" /\ pc'[u] = "check")
    BY <2>1, <2>2, WokenMoves
  <2>5. \A u \in Thread \ {t} : pc'[u] = pc[u] \/ (pc[u] = "sleep" /\ pc'[u] = "check")
    BY <2>3, <2>4
  <2>6. pc'[t] = "post" BY <2>3, <2>4
  <2> QED BY <2>1, <2>4, <2>5, <2>6
<1>2. ASSUME Threadexit
      PROVE  /\ pc' \in [Thread -> Pcs]
             /\ \A u \in Thread : pc'[u] = pc[u] \/ (pc[u] = "sleep" /\ pc'[u] = "check")
  <2>1. pc' = Woken(pc, ctid[Head(inbox)]) BY <1>2 DEF Threadexit
  <2> QED BY <2>1, WokenMoves
<1>3. UNCHANGED <<obj, slot, busy, ctx, self, fn, ctid, tid, muslV>>
  BY DEF Wake, Threadexit, callv, cloneV, idV
<1> QED BY <1>1, <1>2, <1>3

-----------------------------------------------------------------------------
(* What the argument about numbers and memory is about.                       *)
NumberShape ==
  /\ tid \in [Thread -> Thread \cup {None}]
  /\ mapped \subseteq Thread /\ known \subseteq Thread

(* The creator: pthread_create hands the descriptor out with its number in it.*)
LEMMA CloneNumbers ==
  ASSUME ThreadsAssumption, IInv, NumberShape, NumbersHold, MemoryHolds,
         NEW t \in Thread, Clone(t) \/ SpawnFails(t)
  PROVE  NumbersHold' /\ MemoryHolds'
<1> USE DEF IInv, Shape, Goto, At, NumberShape, MemoryHolds, ReapsOnlyTheDead
<1>0. /\ \A u, v \in Thread : pc[u] \in Creating /\ pc[v] \in Creating => u = v
      /\ pc[t] \in Creating => obj[t] \in Thread
      /\ pc[t] \in Creating \ {"ptid"} => pc[obj[t]] = "none"
  BY DEF Links, OneCreator, CreatorsTarget
<1>1. CASE \/ Mark(t) \/ FillEntry(t) \/ FillTls(t)
           \/ Scan(t) /\ slot[t] \in Slot
  <2>1. /\ pc' \in {pc, [pc EXCEPT ![t] = "mark"], [pc EXCEPT ![t] = "entry"],
                    [pc EXCEPT ![t] = "tls"], [pc EXCEPT ![t] = "spawn"]}
        /\ pc[t] \in Creating \ {"ptid"}
        /\ UNCHANGED <<obj, tid, mapped, known>>
    BY <1>1 DEF Mark, FillEntry, FillTls, Scan, callv, muslV
  <2>2. /\ pc'[t] \in Creating \ {"ptid"}
        /\ \A u \in Thread \ {t} : pc'[u] = pc[u]
    BY <2>1
  <2>3. NumbersHold'
    <3>1. \A p \in Thread : Named(p)' => Named(p) BY <2>1, <2>2 DEF Named
    <3>2. \A u \in Thread :
            /\ pc'[u] \in Joining \cup {"none", "ptid"} => pc'[u] = pc[u]
            /\ pc[u] \in Cleared => pc'[u] \in Cleared
      BY <2>1, <2>2
    <3>3. \A u \in Thread : pc[u] # "none" => pc'[u] # "none" BY <2>1, <2>2
    <3>4. \A p \in Thread :
            Named(p)' => pc'[p] # "none" /\ (tid'[p] = None => pc'[p] \in Cleared)
      BY <2>1, <3>1, <3>2, <3>3 DEF NumbersHold
    <3>5. \A u \in Thread : pc'[u] \in Joining => obj'[u] \in Thread
      BY <2>1, <3>2 DEF NumbersHold
    <3>6. \A u \in Thread : pc'[u] = "ptid" => pc'[obj'[u]] # "none"
      BY <2>1, <3>2, <3>3 DEF NumbersHold, Links, CreatorsTarget
    <3>7. \A u \in Thread : pc'[u] = "reap" => pc'[obj'[u]] \in Cleared
      BY <2>1, <3>2 DEF NumbersHold
    <3> QED BY <3>4, <3>5, <3>6, <3>7 DEF NumbersHold
  <2>4. MemoryHolds' BY <2>1, <2>2
  <2> QED BY <2>3, <2>4
<1>2. CASE SpawnFails(t) \/ (Scan(t) /\ slot[t] \notin Slot)
  <2>1. /\ pc' = [pc EXCEPT ![t] = "run"] /\ pc[t] \in Creating \ {"ptid"}
        /\ mapped' = mapped \ {obj[t]} /\ obj' = [obj EXCEPT ![t] = None]
        /\ UNCHANGED <<tid, known>>
    BY <1>2 DEF SpawnFails, Scan, GiveUp
  <2>2. /\ pc'[t] = "run" /\ obj'[t] = None
        /\ \A u \in Thread \ {t} : pc'[u] = pc[u] /\ obj'[u] = obj[u]
    BY <2>1
  <2>3. NumbersHold'
    <3>1. \A p \in Thread : Named(p)' => Named(p) BY <2>1, <2>2 DEF Named
    <3> QED BY <2>1, <2>2, <3>1 DEF NumbersHold
  <2>4. MemoryHolds' BY <1>0, <2>1
  <2> QED BY <2>3, <2>4
<1>3. CASE Spawn(t)
  <2>1. /\ pc' = [pc EXCEPT ![t] = "ptid", ![obj[t]] = "tlca"] /\ pc[t] = "spawn"
        /\ UNCHANGED <<obj, tid, mapped, known>>
    BY <1>3 DEF Spawn, muslV
  <2>2. NumbersHold'
    <3>1. /\ obj[t] \in Thread /\ pc[obj[t]] = "none"
          /\ pc'[t] = "ptid" /\ pc'[obj[t]] = "tlca"
          /\ \A u \in Thread \ {t, obj[t]} : pc'[u] = pc[u]
      BY <1>0, <2>1
    <3>2. pc[t] \notin Joining /\ pc[obj[t]] \notin Joining
          /\ pc'[t] \notin Joining /\ pc'[obj[t]] \notin Joining
      BY <2>1, <3>1
    <3>3. \A u \in Thread : pc'[u] \in Joining <=> pc[u] \in Joining
      BY <3>1, <3>2
    <3>4. \A p \in Thread : Named(p)' <=> Named(p)
      <4>1. UNCHANGED <<obj, known>> BY <2>1
      <4> HIDE DEF Joining, IInv, Shape
      <4> QED BY <3>3, <4>1 DEF Named
    <3>5. \A u \in Thread : pc[u] # "none" => pc'[u] # "none" BY <2>1, <3>1
    <3>6. pc'[t] \notin Cleared /\ pc'[obj[t]] \notin Cleared
          /\ \A u \in Thread : pc[u] \in Cleared => pc'[u] \in Cleared
      BY <2>1, <3>1
    <3>7. UNCHANGED <<obj, tid>> BY <2>1
    <3>8. \A u \in Thread : pc'[u] \in Joining => obj'[u] \in Thread
      BY <3>3, <3>7 DEF NumbersHold
    <3>9. \A u \in Thread : pc'[u] = "ptid" => pc'[obj'[u]] # "none"
      <4>1. ASSUME NEW u \in Thread, pc'[u] = "ptid", u # t PROVE pc'[obj[u]] # "none"
        <5>1. pc[u] = "ptid" BY <3>1, <4>1
        <5>2. obj[u] \in Thread BY <5>1 DEF Links, CreatorsTarget
        <5>3. pc[obj[u]] # "none" BY <5>1 DEF NumbersHold
        <5> QED BY <3>5, <5>2, <5>3
      <4>2. pc'[obj[t]] # "none" BY <3>1
      <4> QED BY <3>7, <4>1, <4>2
    <3>10. \A p \in Thread :
             Named(p)' => pc'[p] # "none" /\ (tid'[p] = None => pc'[p] \in Cleared)
      BY <3>4, <3>5, <3>6, <3>7 DEF NumbersHold
    <3>11. \A u \in Thread : pc'[u] = "reap" => pc[u] = "reap" BY <3>1
    <3>12. \A u \in Thread : pc'[u] = "reap" => pc'[obj'[u]] \in Cleared
      BY <3>6, <3>7, <3>8, <3>11 DEF NumbersHold
    <3> QED BY <3>8, <3>9, <3>10, <3>12 DEF NumbersHold
  <2>3. MemoryHolds'
    <3>1. /\ obj[t] \in mapped /\ pc'[t] = "ptid" /\ pc'[obj[t]] = "tlca"
          /\ \A u \in Thread \ {t, obj[t]} : pc'[u] = pc[u]
      BY <1>0, <2>1
    <3> QED BY <1>0, <2>1, <3>1
  <2> QED BY <2>2, <2>3
<1>4. CASE Ptid(t)
  <2>1. /\ pc' = [pc EXCEPT ![t] = "run"] /\ pc[t] = "ptid"
        /\ tid' = [tid EXCEPT ![obj[t]] = obj[t]]
        /\ known' = (known \cup {obj[t]}) \ detached
        /\ obj' = [obj EXCEPT ![t] = None]
        /\ UNCHANGED mapped
    BY <1>4 DEF Ptid
  <2>2. NumbersHold' BY <1>0, <2>1 DEF NumbersHold, Named, ThreadsAssumption
  <2>3. MemoryHolds' BY <1>0, <2>1
  <2> QED BY <2>2, <2>3
<1> QED BY <1>1, <1>2, <1>3, <1>4 DEF Clone

(* A thread that starts or exits clears no number but its own.                *)
LEMMA RunNumbers ==
  ASSUME ThreadsAssumption, IInv, NumberShape, NumbersHold, MemoryHolds,
         NEW t \in Thread,
         Thunk(t) \/ PsxExit(t) \/ Exit(t) \/ CallExit(t) \/ Threadexit
  PROVE  NumbersHold' /\ MemoryHolds'
<1> USE DEF IInv, Shape, Goto, At, NumberShape, MemoryHolds, ReapsOnlyTheDead
<1>1. CASE \/ Thunk(t) \/ Leave(t) \/ ExitGroup(t) \/ Clear(t) \/ Post(t) \/ Epilog(t)
           \/ Exit(t) \/ CallExit(t)
  <2>1. /\ \/ pc' = pc
           \/ \E l \in Pcs \ Creating :
                /\ pc' = [pc EXCEPT ![t] = l] /\ l \notin Joining \cup {"none"}
                /\ l \in Cleared <=> pc[t] \in Cleared \cup {"clear"}
                /\ pc[t] \notin Creating \cup Joining \cup {"none"}
        /\ UNCHANGED <<obj, mapped, known>>
        /\ tid' = tid \/ (tid' = [tid EXCEPT ![t] = None] /\ pc[t] = "clear" /\ pc'[t] = "wake")
    <3>1. CASE Clear(t)
      <4>1. ctid[t] \in {t, Spare} BY <3>1 DEF Clear, Links, KnowsItself
      <4>2. pc[t] = "clear" /\ pc' = [pc EXCEPT ![t] = "wake"] /\ pc'[t] = "wake"
        BY <3>1 DEF Clear
      <4>3. tid' = tid \/ tid' = [tid EXCEPT ![t] = None]
        BY <3>1, <4>1 DEF Clear, ThreadsAssumption
      <4>4. UNCHANGED <<obj, mapped, known>> BY <3>1 DEF Clear, callv, muslV
      <4> QED BY <4>2, <4>3, <4>4
    <3>2. CASE Thunk(t)
      BY <3>2 DEF Thunk, TlcaInit, Count, SetTid, Take, Release, callv, muslV
    <3>3. CASE Leave(t) \/ ExitGroup(t) \/ Post(t) \/ Epilog(t) \/ Exit(t) \/ CallExit(t)
      BY <3>3 DEF Leave, ExitGroup, Post, Epilog, Exit, CallExit, callv, muslV
    <3> QED BY <1>1, <3>1, <3>2, <3>3
  <2>2. /\ \A u \in Thread :
             /\ pc'[u] \in Joining \cup Creating \cup {"none"}
                  \/ pc[u] \in Joining \cup Creating \cup {"none"} => pc'[u] = pc[u]
             /\ pc[u] \in Cleared => pc'[u] \in Cleared
             /\ pc'[u] \in Cleared => pc[u] \in Cleared \cup {"clear"}
             /\ tid'[u] # tid[u] => pc'[u] \in Cleared
    BY <2>1
  <2>3. NumbersHold'
    <3>1. \A u \in Thread : pc'[u] \in Joining => obj'[u] \in Thread
      BY <2>1, <2>2 DEF NumbersHold
    <3>2. \A u \in Thread : pc'[u] = "ptid" => pc'[obj'[u]] # "none"
      BY <2>1, <2>2 DEF NumbersHold, Links, CreatorsTarget
    <3>3. \A p \in Thread : Named(p)' => Named(p) BY <2>1, <2>2 DEF Named
    <3>4. \A p \in Thread :
            Named(p)' => pc'[p] # "none" /\ (tid'[p] = None => pc'[p] \in Cleared)
      BY <2>2, <3>3 DEF NumbersHold
    <3>5. \A u \in Thread : pc'[u] = "reap" => pc'[obj'[u]] \in Cleared
      BY <2>1, <2>2 DEF NumbersHold
    <3> QED BY <3>1, <3>2, <3>4, <3>5 DEF NumbersHold
  <2>4. MemoryHolds' BY <2>1, <2>2
  <2> QED BY <2>3, <2>4
<1>2. CASE Wake(t) \/ Threadexit
  <2>1. /\ \A u \in Thread :
              \/ pc'[u] = pc[u]
              \/ pc[u] = "sleep" /\ pc'[u] = "check"
              \/ pc[u] = "wake" /\ pc'[u] = "post"
        /\ UNCHANGED <<obj, tid, mapped, known>>
    BY <1>2, WakeEffect DEF muslV
  <2>2. \A u \in Thread :
          /\ pc'[u] \in Joining <=> pc[u] \in Joining
          /\ pc'[u] \in Cleared <=> pc[u] \in Cleared
          /\ \A l \in Creating \cup {"none", "reap"} : pc'[u] = l <=> pc[u] = l
    BY <2>1
  <2>3. NumbersHold'
    <3>1. \A u \in Thread : pc'[u] \in Joining => obj'[u] \in Thread
      BY <2>1, <2>2 DEF NumbersHold
    <3>2. \A u \in Thread : pc'[u] = "ptid" => pc'[obj'[u]] # "none"
      BY <2>1, <2>2 DEF NumbersHold, Links, CreatorsTarget
    <3>3. \A p \in Thread : Named(p)' => Named(p) BY <2>1, <2>2 DEF Named
    <3>4. \A p \in Thread :
            Named(p)' => pc'[p] # "none" /\ (tid'[p] = None => pc'[p] \in Cleared)
      BY <2>1, <2>2, <3>3 DEF NumbersHold
    <3>5. \A u \in Thread : pc'[u] = "reap" => pc'[obj'[u]] \in Cleared
      BY <2>1, <2>2 DEF NumbersHold
    <3> QED BY <3>1, <3>2, <3>4, <3>5 DEF NumbersHold
  <2>4. MemoryHolds' BY <2>1, <2>2
  <2> QED BY <2>3, <2>4
<1> QED BY <1>1, <1>2 DEF PsxExit

(* A joiner gives memory back only after it saw the number cleared.           *)
LEMMA JoinNumbers ==
  ASSUME ThreadsAssumption, IInv, NumberShape, NumbersHold, MemoryHolds,
         "serial" \in Discipline, NEW t \in Thread, NEW p \in Thread, NEW d \in BOOLEAN,
         Create(t, p, d) \/ Join(t, p) \/ Detach(t, p) \/ Joins(t)
  PROVE  NumbersHold' /\ MemoryHolds'
<1> USE DEF IInv, Shape, Goto, At, NumberShape, MemoryHolds, ReapsOnlyTheDead
<1>1. CASE Create(t, p, d)
  <2>1. /\ pc' = [pc EXCEPT ![t] = "scan"] /\ pc[t] = "run" /\ pc[p] = "none"
        /\ obj' = [obj EXCEPT ![t] = p] /\ tid' = [tid EXCEPT ![p] = None]
        /\ mapped' = mapped \cup {p} /\ UNCHANGED known
    BY <1>1 DEF Create
  <2>2. /\ pc'[t] = "scan" /\ obj'[t] = p
        /\ \A u \in Thread \ {t} : pc'[u] = pc[u] /\ obj'[u] = obj[u]
        /\ \A u \in Thread \ {p} : tid'[u] = tid[u]
    BY <2>1
  <2>3. NumbersHold'
    <3>1. \A q \in Thread : Named(q)' => Named(q) /\ q # p
      BY <2>1, <2>2 DEF Named, NumbersHold
    <3>2. \A u \in Thread : pc'[u] \in Joining \cup {"ptid"} => u # t BY <2>2
    <3>3. \A q \in Thread : pc[q] # "none" => pc'[q] # "none" BY <2>2
    <3>4. \A q \in Thread : pc[q] \in Cleared => pc'[q] \in Cleared BY <2>1, <2>2
    <3> QED BY <2>1, <2>2, <3>1, <3>2, <3>3, <3>4 DEF NumbersHold, Links, CreatorsTarget
  <2>4. MemoryHolds'
    <3>1. ReapsOnlyTheDead' BY <2>1, <2>2
    <3> QED BY <2>1, <2>2, <3>1
  <2> QED BY <2>3, <2>4
<1>2. CASE Join(t, p) \/ Detach(t, p)
  <2>1. /\ pc[t] = "run" /\ p \in known /\ known' = known \ {p}
        /\ \/ pc' = pc /\ obj' = obj
           \/ pc' = [pc EXCEPT ![t] = "check"] /\ obj' = [obj EXCEPT ![t] = p]
        /\ UNCHANGED <<tid, mapped>>
    BY <1>2 DEF Join, Detach
  <2>2. /\ \A u \in Thread \ {t} : pc'[u] = pc[u] /\ obj'[u] = obj[u]
        /\ pc'[t] \in {"run", "check"} /\ (pc'[t] = "check" => obj'[t] = p)
    BY <2>1
  <2>3. NumbersHold'
    <3>1. \A q \in Thread : Named(q)' => Named(q) BY <2>1, <2>2 DEF Named
    <3>2. \A u \in Thread :
            /\ pc'[u] = "none" <=> pc[u] = "none"
            /\ pc'[u] \in Cleared <=> pc[u] \in Cleared
      BY <2>1, <2>2
    <3>3. \A q \in Thread :
            Named(q)' => pc'[q] # "none" /\ (tid'[q] = None => pc'[q] \in Cleared)
      BY <2>1, <3>1, <3>2 DEF NumbersHold
    <3>4. \A u \in Thread : pc'[u] \in Joining => obj'[u] \in Thread
      BY <2>2 DEF NumbersHold
    <3>5. \A u \in Thread : pc'[u] = "ptid" => pc'[obj'[u]] # "none"
      BY <2>2, <3>2 DEF NumbersHold, Links, CreatorsTarget
    <3>6. \A u \in Thread : pc'[u] = "reap" => pc'[obj'[u]] \in Cleared
      BY <2>2, <3>2 DEF NumbersHold
    <3> QED BY <3>3, <3>4, <3>5, <3>6 DEF NumbersHold
  <2>4. MemoryHolds'
    <3>1. ReapsOnlyTheDead' BY <2>1, <2>2
    <3>2. \A u \in Thread : pc'[u] \in Creating \ {"ptid"} => obj'[u] \in mapped'
      BY <2>1, <2>2
    <3> QED BY <3>1, <3>2
  <2> QED BY <2>3, <2>4
<1>3. CASE Check(t) \/ Wait(t)
  <2>1. /\ UNCHANGED <<obj, tid, mapped, known>>
        /\ pc[t] \in {"check", "wait"}
        /\ \E l \in Joining : /\ pc' = [pc EXCEPT ![t] = l]
                              /\ l = "reap" => tid[obj[t]] = None
    BY <1>3 DEF Check, Wait, callv, muslV
  <2>2. NumbersHold' BY <2>1 DEF NumbersHold, Named
  <2>3. MemoryHolds' BY <2>1
  <2> QED BY <2>2, <2>3
<1>4. CASE Reap(t)
  <2>1. /\ pc[t] = "reap" /\ pc' = [pc EXCEPT ![t] = "run"]
        /\ mapped' = mapped \ {obj[t]} /\ obj' = [obj EXCEPT ![t] = None]
        /\ UNCHANGED <<tid, known>>
    BY <1>4 DEF Reap
  <2>2. NumbersHold' BY <2>1 DEF NumbersHold, Named
  <2>3. MemoryHolds'
    BY <2>1 DEF NumbersHold, Links, CreatorsTarget
  <2> QED BY <2>2, <2>3
<1> QED BY <1>1, <1>2, <1>3, <1>4 DEF Joins

-----------------------------------------------------------------------------
MailShape ==
  /\ tlca \subseteq Thread /\ pthreads \in Nat /\ inbox \in Seq(Thread)
  /\ process \in {"up", "exited", "terminated"}

(* Steps that neither the daemon nor its count is about.                      *)
Apart ==
  /\ UNCHANGED <<tlca, pthreads, inbox>>
  /\ process' \in {process, "exited"} /\ process = "up"
  /\ \A u \in Thread :
       /\ pc[u] \in {"epilog", "gone"} <=> pc'[u] \in {"epilog", "gone"}
       /\ \A l \in {"none", "tlca", "count"} : pc'[u] = l <=> pc[u] = l

LEMMA MostAreApart ==
  ASSUME ThreadsAssumption, IInv, NEW t \in Thread, NEW p \in Thread, NEW d \in BOOLEAN,
         \/ Scan(t) \/ Mark(t) \/ FillEntry(t) \/ FillTls(t) \/ SpawnFails(t) \/ Ptid(t)
         \/ SetTid(t) \/ Take(t) \/ Release(t)
         \/ Leave(t) \/ ExitGroup(t) \/ Clear(t) \/ Wake(t) \/ Epilog(t)
         \/ Exit(t) \/ CallExit(t) \/ Joins(t)
         \/ Create(t, p, d) \/ Join(t, p) \/ Detach(t, p)
  PROVE  Apart
<1> USE DEF IInv, Shape, Goto, At
<1>1. CASE Wake(t)
  <2>1. \A u \in Thread :
          \/ pc'[u] = pc[u]
          \/ pc[u] = "sleep" /\ pc'[u] = "check"
          \/ pc[u] = "wake" /\ pc'[u] = "post"
    BY <1>1, WakeEffect
  <2> QED BY <1>1, <2>1 DEF Wake, Apart, psxV
<1>2. CASE \/ Scan(t) \/ Mark(t) \/ FillEntry(t) \/ FillTls(t) \/ SpawnFails(t) \/ Ptid(t)
           \/ SetTid(t) \/ Take(t) \/ Release(t)
  <2>1. UNCHANGED psxV /\ process = "up"
    BY <1>2 DEF Scan, Mark, FillEntry, FillTls, SpawnFails, GiveUp, Ptid, SetTid, Take, Release
  <2>2. pc' = pc \/ \E l \in {"mark", "entry", "tls", "spawn", "run", "take", "release"} :
                       /\ pc' = [pc EXCEPT ![t] = l]
                       /\ pc[t] \in Creating \cup {"tid", "take", "release"}
    BY <1>2 DEF Scan, Mark, FillEntry, FillTls, SpawnFails, GiveUp, Ptid, SetTid, Take, Release
  <2> QED BY <2>1, <2>2 DEF Apart, psxV
<1>3. CASE \/ Leave(t) \/ ExitGroup(t) \/ Clear(t) \/ Epilog(t) \/ Exit(t) \/ CallExit(t)
  <2>1. /\ UNCHANGED <<tlca, pthreads, inbox>> /\ process' \in {process, "exited"}
        /\ process = "up"
    BY <1>3 DEF Leave, ExitGroup, Clear, Epilog, Exit, CallExit, psxV
  <2>2. \/ pc' = pc
        \/ /\ pc[t] = "epilog" /\ pc' = [pc EXCEPT ![t] = "gone"]
        \/ \E l \in {"exit", "clear", "wake", "leave"} :
             /\ pc' = [pc EXCEPT ![t] = l] /\ pc[t] \in {"leave", "clear", "run"}
    BY <1>3 DEF Leave, ExitGroup, Clear, Epilog, Exit, CallExit
  <2> QED BY <2>1, <2>2 DEF Apart
<1>4. CASE Joins(t) \/ Create(t, p, d) \/ Join(t, p) \/ Detach(t, p)
  <2>1. UNCHANGED psxV /\ process = "up"
    BY <1>4 DEF Joins, Check, Wait, Reap, Create, Join, Detach
  <2>2. pc' = pc \/ \E l \in {"scan", "run"} \cup Joining :
                       /\ pc' = [pc EXCEPT ![t] = l] /\ pc[t] \in {"run"} \cup Joining
    BY <1>4 DEF Joins, Check, Wait, Reap, Create, Join, Detach
  <2> QED BY <2>1, <2>2 DEF Apart, psxV
<1> QED BY <1>1, <1>2, <1>3, <1>4

LEMMA ThreadSets ==
  ASSUME ThreadsAssumption, NEW S, S \subseteq Thread
  PROVE  IsFiniteSet(S) /\ Cardinality(S) \in Nat
BY FS_Subset, FS_CardinalityType DEF ThreadsAssumption

LEMMA MailNext ==
  ASSUME ThreadsAssumption, IInv, MailShape, MailHolds, CountBalance, [Next]_vars
  PROVE  MailShape' /\ MailHolds' /\ CountBalance'
<1> USE DEF IInv, Shape, MailShape
<1> DEFINE Goal == MailShape' /\ MailHolds' /\ CountBalance'
<1>0. CountBalance <=> (process # "terminated" => pthreads = Cardinality(Counted))
  BY DEF CountBalance, Counted
<1>1. CASE Apart
  <2>1. MailHolds' BY <1>1 DEF Apart, MailHolds, TlcaOutlivesThread
  <2>2. Counted' = Counted BY <1>1 DEF Apart, Counted
  <2>3. CountBalance' BY <1>0, <1>1, <2>2 DEF Apart, CountBalance, Counted
  <2> QED BY <1>1, <2>1, <2>3 DEF Apart
<1>2. ASSUME NEW t \in Thread, Spawn(t) PROVE Goal
  <2>1. /\ pc[t] = "spawn" /\ obj[t] \in Thread /\ pc[obj[t]] = "none"
        /\ pc' = [pc EXCEPT ![t] = "ptid", ![obj[t]] = "tlca"]
        /\ UNCHANGED <<tlca, pthreads, inbox, process>>
    BY <1>2 DEF Spawn, At, psxV, Links, CreatorsTarget
  <2>2. /\ pc'[t] = "ptid" /\ pc'[obj[t]] = "tlca"
        /\ \A u \in Thread \ {t, obj[t]} : pc'[u] = pc[u]
    BY <2>1
  <2>3. obj[t] \notin tlca /\ \A i \in 1 .. Len(inbox) : inbox[i] \notin {t, obj[t]}
    BY <2>1 DEF MailHolds
  <2>4. MailHolds'
    <3>1. \A i \in 1 .. Len(inbox) : inbox[i] \in Thread OBVIOUS
    <3>2. TlcaOutlivesThread' BY <2>1, <2>2 DEF MailHolds, TlcaOutlivesThread
    <3> QED BY <2>1, <2>2, <2>3, <3>1, <3>2 DEF MailHolds
  <2>5. Counted' = Counted BY <2>1, <2>2, <2>3 DEF Counted
  <2>6. CountBalance' BY <1>0, <2>1, <2>5 DEF CountBalance, Counted
  <2> QED BY <2>1, <2>4, <2>6
<1>3. ASSUME NEW t \in Thread, TlcaInit(t) PROVE Goal
  <2>1. /\ pc[t] = "tlca" /\ pc' = [pc EXCEPT ![t] = "count"] /\ tlca' = tlca \cup {t}
        /\ UNCHANGED <<pthreads, inbox, process>>
    BY <1>3 DEF TlcaInit, At, Goto
  <2>2. t \notin tlca /\ \A i \in 1 .. Len(inbox) : inbox[i] # t BY <2>1 DEF MailHolds
  <2>3. MailHolds'
    <3>1. \A i \in 1 .. Len(inbox) : inbox[i] \in Thread OBVIOUS
    <3>2. TlcaOutlivesThread' BY <2>1 DEF MailHolds, TlcaOutlivesThread
    <3> QED BY <2>1, <2>2, <3>1, <3>2 DEF MailHolds
  <2>4. Counted' = Counted BY <2>1, <2>2 DEF Counted
  <2>5. CountBalance' BY <1>0, <2>1, <2>4 DEF CountBalance, Counted
  <2> QED BY <2>1, <2>3, <2>5
<1>4. ASSUME NEW t \in Thread, Count(t) PROVE Goal
  <2>1. /\ pc[t] = "count" /\ pc' = [pc EXCEPT ![t] = "tid"] /\ pthreads' = pthreads + 1
        /\ process = "up" /\ UNCHANGED <<tlca, inbox, process>>
    BY <1>4 DEF Count, At, Goto
  <2>2. t \in tlca /\ \A i \in 1 .. Len(inbox) : inbox[i] # t
    BY <2>1 DEF MailHolds, TlcaOutlivesThread
  <2>3. MailHolds'
    <3>1. \A i \in 1 .. Len(inbox) : inbox[i] \in Thread OBVIOUS
    <3>2. TlcaOutlivesThread' BY <2>1 DEF MailHolds, TlcaOutlivesThread
    <3> QED BY <2>1, <2>2, <3>1, <3>2 DEF MailHolds
  <2>4. Counted' = Counted \cup {t} /\ t \notin Counted BY <2>1, <2>2 DEF Counted
  <2>5. IsFiniteSet(Counted) BY ThreadSets DEF Counted
  <2>6. Cardinality(Counted') = Cardinality(Counted) + 1 BY <2>4, <2>5, FS_AddElement
  <2>7. CountBalance' BY <1>0, <2>1, <2>6 DEF CountBalance, Counted
  <2> QED BY <2>1, <2>3, <2>7
<1>5. ASSUME NEW t \in Thread, Post(t) PROVE Goal
  <2>1. /\ pc[t] = "post" /\ pc' = [pc EXCEPT ![t] = "epilog"] /\ inbox' = Append(inbox, t)
        /\ UNCHANGED <<tlca, pthreads, process>>
    BY <1>5 DEF Post, At, Goto
  <2>2. t \in tlca /\ \A i \in 1 .. Len(inbox) : inbox[i] # t
    BY <2>1 DEF MailHolds, TlcaOutlivesThread
  <2>3. /\ Len(inbox') = Len(inbox) + 1 /\ inbox' \in Seq(Thread)
        /\ inbox'[Len(inbox) + 1] = t
        /\ \A i \in 1 .. Len(inbox) : inbox'[i] = inbox[i]
    BY <2>1
  <2>4. \A u \in Thread \ {t} : pc'[u] = pc[u] BY <2>1
  <2>5. pc'[t] = "epilog" BY <2>1
  <2>6. MailHolds'
    <3>1. \A i \in 1 .. Len(inbox) : inbox[i] \in Thread OBVIOUS
    <3>2. \A i \in 1 .. Len(inbox') :
            pc'[inbox'[i]] \in {"epilog", "gone"} /\ inbox'[i] \in tlca'
      BY <2>1, <2>2, <2>3, <2>4, <2>5, <3>1 DEF MailHolds
    <3>3. ASSUME NEW i \in 1 .. Len(inbox'), NEW j \in 1 .. Len(inbox'),
                 inbox'[i] = inbox'[j]
          PROVE  i = j
      <4>1. \A k \in 1 .. Len(inbox') : k \in 1 .. Len(inbox) \/ k = Len(inbox) + 1
        BY <2>3
      <4>2. CASE i \in 1 .. Len(inbox) /\ j \in 1 .. Len(inbox)
        BY <2>3, <3>3, <4>2 DEF MailHolds
      <4>3. CASE i \notin 1 .. Len(inbox) \/ j \notin 1 .. Len(inbox)
        BY <2>2, <2>3, <3>3, <4>1, <4>3
      <4> QED BY <4>2, <4>3
    <3>4. TlcaOutlivesThread' BY <2>1 DEF MailHolds, TlcaOutlivesThread
    <3> QED BY <2>1, <3>2, <3>3, <3>4 DEF MailHolds
  <2>7. Counted' = Counted BY <2>1 DEF Counted
  <2>8. CountBalance' BY <1>0, <2>1, <2>7 DEF CountBalance, Counted
  <2> QED BY <2>1, <2>3, <2>6, <2>8
<1>6. CASE Threadexit
  <2>1. PICK h : h = Head(inbox) OBVIOUS
  <2>2. /\ process = "up" /\ inbox # <<>> /\ inbox' = Tail(inbox) /\ pthreads' = pthreads - 1
        /\ \/ pthreads = 1 /\ process' = "terminated" /\ tlca' = tlca
           \/ pthreads # 1 /\ process' = process /\ tlca' = tlca \ {h}
    BY <1>6, <2>1 DEF Threadexit
  <2>3. \A u \in Thread : pc'[u] = pc[u] \/ (pc[u] = "sleep" /\ pc'[u] = "check")
    BY <1>6, WakeEffect
  <2>4. /\ Len(inbox) \in Nat \ {0} /\ h = inbox[1] /\ Len(inbox') = Len(inbox) - 1
        /\ inbox' \in Seq(Thread)
        /\ \A i \in 1 .. Len(inbox') : i + 1 \in 1 .. Len(inbox) /\ inbox'[i] = inbox[i + 1]
    BY <2>1, <2>2
  <2>5. h \in tlca /\ pc[h] \in {"epilog", "gone"} /\ h \in Thread
    BY <2>4 DEF MailHolds
  <2>6. \A i \in 1 .. Len(inbox') : inbox'[i] # h
    <3> TAKE i \in 1 .. Len(inbox')
    <3>1. 1 \in 1 .. Len(inbox) /\ i + 1 \in 1 .. Len(inbox) /\ i + 1 # 1 BY <2>4
    <3>2. inbox[i + 1] # inbox[1] BY <3>1 DEF MailHolds
    <3> QED BY <2>4, <3>2
  <2>7. MailHolds'
    <3>1. \A i \in 1 .. Len(inbox') :
            pc'[inbox'[i]] \in {"epilog", "gone"} /\ inbox'[i] \in tlca'
      <4> TAKE i \in 1 .. Len(inbox')
      <4>1. PICK u : u = inbox[i + 1] OBVIOUS
      <4>2. pc[u] \in {"epilog", "gone"} /\ u \in tlca /\ u # h /\ inbox'[i] = u
        BY <2>4, <2>6, <4>1 DEF MailHolds
      <4> QED BY <2>2, <2>3, <4>2
    <3>2. \A i, j \in 1 .. Len(inbox') : inbox'[i] = inbox'[j] => i = j
      <4> TAKE i, j \in 1 .. Len(inbox')
      <4>1. inbox[i + 1] = inbox[j + 1] => i + 1 = j + 1 BY <2>4 DEF MailHolds
      <4>2. i \in Nat /\ j \in Nat OBVIOUS
      <4>3. inbox'[i] = inbox[i + 1] /\ inbox'[j] = inbox[j + 1] BY <2>4
      <4> QED BY <4>1, <4>2, <4>3
    <3>3. TlcaOutlivesThread'
      <4> SUFFICES ASSUME NEW u \in Thread, pc'[u] \notin {"none", "tlca", "epilog", "gone"}
                   PROVE  u \in tlca'
        BY DEF TlcaOutlivesThread
      <4>1. pc[u] \notin {"none", "tlca", "epilog", "gone"} BY <2>3
      <4>2. u \in tlca /\ u # h BY <2>5, <4>1 DEF MailHolds, TlcaOutlivesThread
      <4> QED BY <2>2, <4>2
    <3>4. \A u \in tlca' : pc'[u] \notin {"none", "tlca"} BY <2>2, <2>3 DEF MailHolds
    <3> QED BY <3>1, <3>2, <3>3, <3>4 DEF MailHolds
  <2>8. IsFiniteSet(Counted) /\ Cardinality(Counted) \in Nat BY ThreadSets DEF Counted
  <2>9. h \in Counted BY <2>5 DEF Counted
  <2>10. pthreads = Cardinality(Counted) /\ pthreads # 0
    BY <1>0, <2>2, <2>8, <2>9, FS_EmptySet
  <2>11. CountBalance'
    <3>1. CASE process' = "terminated" BY <3>1 DEF CountBalance
    <3>2. CASE process' # "terminated"
      <4>1. Counted' = Counted \ {h} BY <2>2, <2>3, <2>5, <3>2 DEF Counted
      <4>2. Cardinality(Counted') = Cardinality(Counted) - 1
        BY <2>8, <2>9, <4>1, FS_RemoveElement
      <4> QED BY <2>2, <2>10, <4>2 DEF CountBalance, Counted
    <3> QED BY <3>1, <3>2
  <2>12. MailShape' BY <2>2, <2>4, <2>10
  <2> QED BY <2>7, <2>11, <2>12
<1>7. CASE UNCHANGED vars
  BY <1>7 DEF vars, psxV, MailHolds, TlcaOutlivesThread, CountBalance
<1>8. ASSUME NEW t \in Thread,
             \/ Clone(t) \/ SpawnFails(t) \/ Thunk(t) \/ PsxExit(t) \/ Joins(t)
             \/ Exit(t) \/ CallExit(t)
      PROVE  Goal
  BY <1>1, <1>2, <1>3, <1>4, <1>5, <1>8, MostAreApart DEF Clone, Thunk, PsxExit
<1>9. ASSUME NEW t \in Thread, NEW p \in Thread, NEW d \in BOOLEAN,
             Create(t, p, d) \/ Join(t, p) \/ Detach(t, p)
      PROVE  Goal
  BY <1>1, <1>9, MostAreApart
<1> QED BY <1>6, <1>7, <1>8, <1>9 DEF Next

-----------------------------------------------------------------------------
Away == {"none", "leave", "clear"} \cup Starting \cup Cleared
Begun == Creating \ {"ptid"}

(* Steps that libc's count is not about.                                      *)
Steady ==
  /\ UNCHANGED <<minus1, maker>>
  /\ \A u \in Thread :
       /\ pc'[u] \in {"none", "clear"} \cup Cleared <=> pc[u] \in {"none", "clear"} \cup Cleared
       /\ pc'[u] \in Begun <=> pc[u] \in Begun
       /\ pc[u] \in Begun => obj'[u] = obj[u]
       /\ pc'[u] \in Starting => pc[u] \in Starting

MakersLeaveNot ==
  \A u \in Thread : pc'[u] \in Away => pc[u] \in Away

LEMMA MostAreSteady ==
  ASSUME ThreadsAssumption, IInv, NEW t \in Thread, NEW p \in Thread,
         \/ Scan(t) /\ slot[t] \in Slot
         \/ Mark(t) \/ FillEntry(t) \/ FillTls(t) \/ Ptid(t) \/ Thunk(t)
         \/ Leave(t) /\ minus1 = 0
         \/ ExitGroup(t) \/ Clear(t) \/ Wake(t) \/ Post(t) \/ Epilog(t)
         \/ CallExit(t) \/ Joins(t) \/ Join(t, p) \/ Detach(t, p) \/ Threadexit
  PROVE  Steady /\ MakersLeaveNot
<1> USE DEF IInv, Shape, Goto, At, Away, Begun
<1>1. CASE Wake(t) \/ Threadexit
  <2>1. /\ \A u \in Thread :
             \/ pc'[u] = pc[u]
             \/ pc[u] = "sleep" /\ pc'[u] = "check"
             \/ pc[u] = "wake" /\ pc'[u] = "post"
        /\ UNCHANGED <<obj, minus1, maker>>
    BY <1>1, WakeEffect DEF muslV
  <2> QED BY <2>1 DEF Steady, MakersLeaveNot
<1>2. CASE \/ Scan(t) /\ slot[t] \in Slot
           \/ Mark(t) \/ FillEntry(t) \/ FillTls(t)
  <2>1. UNCHANGED <<minus1, maker, obj>>
    BY <1>2 DEF Scan, Mark, FillEntry, FillTls, muslV, callv
  <2>2. /\ pc' = pc \/ \E l \in {"mark", "entry", "tls", "spawn"} : pc' = [pc EXCEPT ![t] = l]
        /\ pc[t] \in Begun
    BY <1>2 DEF Scan, Mark, FillEntry, FillTls
  <2> QED BY <2>1, <2>2 DEF Steady, MakersLeaveNot
<1>3. CASE Ptid(t) \/ Thunk(t)
  <2>1. UNCHANGED <<minus1, maker>> /\ \A u \in Thread \ {t} : obj'[u] = obj[u]
    BY <1>3 DEF Ptid, Thunk, TlcaInit, Count, SetTid, Take, Release, muslV, callv
  <2>2. \/ /\ pc[t] \in {"ptid", "tid", "take", "release"}
           /\ \E l \in {"run", "take", "release"} : pc' = [pc EXCEPT ![t] = l]
        \/ /\ pc[t] = "tlca" /\ pc' = [pc EXCEPT ![t] = "count"]
        \/ /\ pc[t] = "count" /\ pc' = [pc EXCEPT ![t] = "tid"]
    BY <1>3 DEF Ptid, Thunk, TlcaInit, Count, SetTid, Take, Release
  <2> QED BY <2>1, <2>2 DEF Steady, MakersLeaveNot
<1>4. CASE \/ Leave(t) /\ minus1 = 0
           \/ ExitGroup(t) \/ Clear(t) \/ Post(t) \/ Epilog(t) \/ CallExit(t)
  <2>1. UNCHANGED <<minus1, maker, obj>>
    BY <1>4 DEF Leave, ExitGroup, Clear, Post, Epilog, CallExit, muslV, callv
  <2>2. \/ pc' = pc
        \/ /\ pc[t] \in {"run", "leave"} /\ pc' = [pc EXCEPT ![t] = "exit"]
        \/ /\ pc[t] \in {"clear"} \cup Cleared
           /\ \E l \in Cleared : pc' = [pc EXCEPT ![t] = l]
    BY <1>4 DEF Leave, ExitGroup, Clear, Post, Epilog, CallExit
  <2> QED BY <2>1, <2>2 DEF Steady, MakersLeaveNot
<1>5. CASE Joins(t) \/ Join(t, p) \/ Detach(t, p)
  <2>1. UNCHANGED <<minus1, maker>> /\ \A u \in Thread \ {t} : obj'[u] = obj[u]
    BY <1>5 DEF Joins, Check, Wait, Reap, Join, Detach, muslV, callv
  <2>2. pc[t] \in {"run"} \cup Joining
        /\ (pc' = pc \/ \E l \in {"run"} \cup Joining : pc' = [pc EXCEPT ![t] = l])
    BY <1>5 DEF Joins, Check, Wait, Reap, Join, Detach
  <2> QED BY <2>1, <2>2 DEF Steady, MakersLeaveNot
<1> QED BY <1>1, <1>2, <1>3, <1>4, <1>5

(* libc's count is one less than the threads that have not left.              *)
LEMMA MinusOneNext ==
  ASSUME ThreadsAssumption, "serial" \in Discipline, IInv, minus1 \in Nat, MinusOneExact,
         [Next]_vars
  PROVE  minus1' \in Nat /\ MinusOneExact'
<1> USE DEF IInv, Shape
<1> DEFINE Goal == minus1' \in Nat /\ MinusOneExact'
<1>0. /\ Coming = {p \in Thread : \E u \in Thread : pc[u] \in Begun /\ obj[u] = p}
      /\ IsFiniteSet(Alive) /\ Cardinality(Alive) \in Nat
  BY ThreadSets DEF Coming, Begun, Alive
<1>1. CASE Steady
  <2>1. Coming' = Coming BY <1>1 DEF Steady, Coming, Begun
  <2>2. Alive' = Alive BY <1>1, <2>1 DEF Steady, Alive
  <2> QED BY <1>1, <2>2 DEF Steady, MinusOneExact
<1>2. ASSUME NEW t \in Thread, SpawnFails(t) \/ (Scan(t) /\ slot[t] \notin Slot) PROVE Goal
  <2>1. /\ pc[t] \in Begun /\ pc' = [pc EXCEPT ![t] = "run"] /\ minus1' = minus1 - 1
        /\ obj' = [obj EXCEPT ![t] = None]
    BY <1>2 DEF SpawnFails, Scan, GiveUp, At, Goto, Begun
  <2>2. /\ obj[t] \in Thread /\ pc[obj[t]] = "none"
        /\ \A u \in Thread : pc[u] \in Begun => u = t
    BY <2>1 DEF Links, CreatorsTarget, OneCreator, Begun
  <2>3. Coming = {obj[t]} /\ Coming' = {} BY <2>1, <2>2 DEF Coming, Begun
  <2>4. Alive' = Alive \ {obj[t]} /\ obj[t] \in Alive /\ t \in Alive \ {obj[t]}
    BY <2>1, <2>2, <2>3 DEF Alive, Begun
  <2>5. /\ IsFiniteSet(Alive') /\ Cardinality(Alive') = Cardinality(Alive) - 1
    BY <1>0, <2>4, FS_RemoveElement
  <2>6. Cardinality(Alive') # 0 BY <2>4, <2>5, FS_EmptySet
  <2> QED BY <1>0, <2>1, <2>5, <2>6 DEF MinusOneExact
<1>3. ASSUME NEW t \in Thread, Spawn(t) PROVE Goal
  <2>1. /\ pc[t] = "spawn" /\ pc' = [pc EXCEPT ![t] = "ptid", ![obj[t]] = "tlca"]
        /\ UNCHANGED <<minus1, obj>>
    BY <1>3 DEF Spawn, At, muslV
  <2>2. /\ obj[t] \in Thread /\ pc[obj[t]] = "none"
        /\ \A u \in Thread : pc[u] \in Begun => u = t
    BY <2>1 DEF Links, CreatorsTarget, OneCreator, Begun
  <2>3. Coming = {obj[t]} /\ Coming' = {}
    <3>1. \A u \in Thread : pc'[u] \notin Begun BY <2>1, <2>2 DEF Begun
    <3>2. Coming' = {} BY <3>1 DEF Coming, Begun
    <3>3. Coming = {obj[t]} BY <2>1, <2>2 DEF Coming, Begun
    <3> QED BY <3>2, <3>3
  <2>4. Alive' = Alive BY <2>1, <2>2, <2>3 DEF Alive
  <2> QED BY <2>1, <2>4 DEF MinusOneExact
<1>4. ASSUME NEW t \in Thread, Leave(t), minus1 # 0 PROVE Goal
  <2>1. /\ pc[t] = "leave" /\ pc' = [pc EXCEPT ![t] = "clear"] /\ minus1' = minus1 - 1
        /\ obj' = obj
    BY <1>4 DEF Leave, At, Goto, callv
  <2>2. Coming' = Coming BY <2>1 DEF Coming
  <2>3. t \notin Coming BY <2>1 DEF Coming, Links, CreatorsTarget
  <2>4. Alive' = Alive \ {t} /\ t \in Alive BY <2>1, <2>2, <2>3 DEF Alive
  <2>5. Cardinality(Alive') = Cardinality(Alive) - 1 BY <1>0, <2>4, FS_RemoveElement
  <2> QED BY <1>0, <1>4, <2>1, <2>5 DEF MinusOneExact
<1>5. ASSUME NEW t \in Thread, Exit(t) PROVE Goal
  <2>1. pc[t] = "run" /\ pc' = [pc EXCEPT ![t] = "leave"] /\ UNCHANGED <<minus1, obj>>
    BY <1>5 DEF Exit, At, Goto, muslV, callv
  <2>2. Coming' = Coming BY <2>1 DEF Coming
  <2>3. Alive' = Alive BY <2>1, <2>2 DEF Alive
  <2> QED BY <2>1, <2>3 DEF MinusOneExact
<1>6. ASSUME NEW t \in Thread, NEW p \in Thread, NEW d \in BOOLEAN, Create(t, p, d) PROVE Goal
  <2>1. /\ pc[t] = "run" /\ pc[p] = "none" /\ pc' = [pc EXCEPT ![t] = "scan"]
        /\ obj' = [obj EXCEPT ![t] = p] /\ minus1' = minus1 + 1
        /\ \A u \in Thread : pc[u] \notin Creating
    BY <1>6 DEF Create, At, Goto
  <2>2. Coming = {} /\ Coming' = {p} BY <2>1 DEF Coming
  <2>3. Alive' = Alive \cup {p} /\ p \notin Alive BY <2>1, <2>2 DEF Alive
  <2>4. Cardinality(Alive') = Cardinality(Alive) + 1 BY <1>0, <2>3, FS_AddElement
  <2> QED BY <1>0, <2>1, <2>4 DEF MinusOneExact
<1>7. CASE UNCHANGED vars
  BY <1>1, <1>7 DEF vars, callv, muslV, Steady
<1>8. ASSUME NEW t \in Thread,
             \/ Clone(t) \/ SpawnFails(t) \/ Thunk(t) \/ PsxExit(t) \/ Joins(t)
             \/ Exit(t) \/ CallExit(t)
      PROVE  Goal
  BY <1>1, <1>2, <1>3, <1>4, <1>5, <1>8, MostAreSteady DEF Clone, PsxExit
<1>9. ASSUME NEW t \in Thread, NEW p \in Thread, NEW d \in BOOLEAN,
             Create(t, p, d) \/ Join(t, p) \/ Detach(t, p)
      PROVE  Goal
  BY <1>1, <1>6, <1>9, MostAreSteady
<1>10. CASE Threadexit
  <2>1. \E t \in Thread : TRUE BY DEF ThreadsAssumption
  <2> QED BY <1>1, <1>10, <2>1, MostAreSteady
<1> QED BY <1>7, <1>8, <1>9, <1>10 DEF Next

(* Whoever made a thread meets it before it leaves.                           *)
LEMMA MakersNext ==
  ASSUME ThreadsAssumption, "serial" \in Discipline, "meet" \in Discipline, IInv,
         maker \in [Thread -> Thread \cup {None}], MakersStay, [Next]_vars
  PROVE  MakersStay'
<1> USE DEF IInv, Shape, Begun, Away
<1>1. CASE Steady /\ MakersLeaveNot
  <2>1. \A u \in Thread : pc'[u] \in Begun => maker'[obj'[u]] = u
    BY <1>1 DEF Steady, MakersStay
  <2>2. \A p \in Thread :
          pc'[p] \in Starting => maker'[p] \in Thread /\ pc'[maker'[p]] \notin Away
    BY <1>1 DEF Steady, MakersLeaveNot, MakersStay
  <2> QED BY <2>1, <2>2 DEF MakersStay
<1>2. ASSUME NEW t \in Thread, SpawnFails(t) \/ (Scan(t) /\ slot[t] \notin Slot)
      PROVE  MakersStay'
  <2>1. /\ pc[t] \in Begun /\ pc' = [pc EXCEPT ![t] = "run"]
        /\ maker' = [maker EXCEPT ![obj[t]] = None]
    BY <1>2 DEF SpawnFails, Scan, GiveUp, At, Goto
  <2>2. /\ obj[t] \in Thread /\ pc[obj[t]] = "none"
        /\ \A u \in Thread : pc[u] \in Begun => u = t
    BY <2>1 DEF Links, CreatorsTarget, OneCreator
  <2>3. /\ \A u \in Thread \ {t} : pc'[u] = pc[u]
        /\ \A u \in Thread \ {obj[t]} : maker'[u] = maker[u]
        /\ pc'[t] = "run"
    BY <2>1, <2>2
  <2>4. \A u \in Thread : pc'[u] \notin Begun BY <2>2, <2>3
  <2>5. \A p \in Thread :
          pc'[p] \in Starting => maker'[p] \in Thread /\ pc'[maker'[p]] \notin Away
    <3>1. \A p \in Thread :
            pc[p] \in Starting => maker[p] \in Thread /\ pc[maker[p]] \notin Away
      BY DEF MakersStay
    <3>2. \A u \in Thread : pc[u] \notin Away => pc'[u] \notin Away BY <2>2, <2>3
    <3>3. \A p \in Thread : pc'[p] \in Starting => pc[p] \in Starting /\ p # obj[t]
      BY <2>2, <2>3
    <3> QED BY <2>3, <3>1, <3>2, <3>3
  <2> QED BY <2>4, <2>5 DEF MakersStay
<1>3. ASSUME NEW t \in Thread, Spawn(t) PROVE MakersStay'
  <2>1. /\ pc[t] = "spawn" /\ pc' = [pc EXCEPT ![t] = "ptid", ![obj[t]] = "tlca"]
        /\ maker' = maker
    BY <1>3 DEF Spawn, At, muslV
  <2>2. /\ obj[t] \in Thread /\ pc[obj[t]] = "none" /\ maker[obj[t]] = t
        /\ \A u \in Thread : pc[u] \in Begun => u = t
    BY <2>1 DEF Links, CreatorsTarget, OneCreator, MakersStay
  <2>3. /\ \A u \in Thread \ {t, obj[t]} : pc'[u] = pc[u]
        /\ pc'[t] = "ptid" /\ pc'[obj[t]] = "tlca"
    BY <2>1, <2>2
  <2>4. \A u \in Thread : pc'[u] \notin Begun BY <2>2, <2>3
  <2>5. \A p \in Thread :
          pc'[p] \in Starting => maker'[p] \in Thread /\ pc'[maker'[p]] \notin Away
    <3>1. \A p \in Thread :
            pc[p] \in Starting => maker[p] \in Thread /\ pc[maker[p]] \notin Away
      BY DEF MakersStay
    <3>2. \A u \in Thread : pc[u] \notin Away => pc'[u] \notin Away
      BY <2>1, <2>2, <2>3
    <3>3. \A p \in Thread : pc'[p] \in Starting => pc[p] \in Starting \/ p = obj[t]
      BY <2>1, <2>2, <2>3
    <3> TAKE p \in Thread
    <3> HAVE pc'[p] \in Starting
    <3>4. CASE p = obj[t] BY <2>1, <2>2, <2>3, <3>4
    <3>5. CASE p # obj[t] BY <2>1, <3>1, <3>2, <3>3, <3>5
    <3> QED BY <3>4, <3>5
  <2> QED BY <2>4, <2>5 DEF MakersStay
<1>4. ASSUME NEW t \in Thread, Leave(t), minus1 # 0 PROVE MakersStay'
  <2>1. pc[t] = "leave" /\ pc' = [pc EXCEPT ![t] = "clear"] /\ UNCHANGED <<obj, maker>>
    BY <1>4 DEF Leave, At, Goto, callv
  <2>2. \A u \in Thread \ {t} : pc'[u] = pc[u] BY <2>1
  <2>3. pc'[t] = "clear" BY <2>1
  <2>4. \A u \in Thread : pc'[u] \in Begun => maker'[obj'[u]] = u
    BY <2>1, <2>2, <2>3 DEF MakersStay
  <2>5. \A p \in Thread :
          pc'[p] \in Starting => maker'[p] \in Thread /\ pc'[maker'[p]] \notin Away
    BY <2>1, <2>2, <2>3 DEF MakersStay
  <2> QED BY <2>4, <2>5 DEF MakersStay
<1>5. ASSUME NEW t \in Thread, Exit(t) PROVE MakersStay'
  <2>1. /\ pc[t] = "run" /\ pc' = [pc EXCEPT ![t] = "leave"] /\ UNCHANGED <<obj, maker>>
        /\ \A p \in Thread : maker[p] = t => pc[p] \notin Starting
    BY <1>5 DEF Exit, MayExit, At, Goto, muslV, callv
  <2>2. \A u \in Thread \ {t} : pc'[u] = pc[u] BY <2>1
  <2>3. pc'[t] = "leave" BY <2>1
  <2>4. \A u \in Thread : pc'[u] \in Begun => maker'[obj'[u]] = u
    BY <2>1, <2>2, <2>3 DEF MakersStay
  <2>5. \A p \in Thread :
          pc'[p] \in Starting => maker'[p] \in Thread /\ pc'[maker'[p]] \notin Away
    BY <2>1, <2>2, <2>3 DEF MakersStay
  <2> QED BY <2>4, <2>5 DEF MakersStay
<1>6. ASSUME NEW t \in Thread, NEW p \in Thread, NEW d \in BOOLEAN, Create(t, p, d)
      PROVE  MakersStay'
  <2>1. /\ pc[t] = "run" /\ pc[p] = "none" /\ pc' = [pc EXCEPT ![t] = "scan"]
        /\ obj' = [obj EXCEPT ![t] = p] /\ maker' = [maker EXCEPT ![p] = t]
        /\ \A u \in Thread : pc[u] \notin Creating
    BY <1>6 DEF Create, At, Goto
  <2>2. /\ \A u \in Thread \ {t} : pc'[u] = pc[u]
        /\ \A u \in Thread \ {p} : maker'[u] = maker[u]
        /\ pc'[t] = "scan" /\ obj'[t] = p /\ maker'[p] = t
    BY <2>1
  <2>3. \A u \in Thread : pc'[u] \in Begun => maker'[obj'[u]] = u BY <2>1, <2>2
  <2>4. \A q \in Thread :
          pc'[q] \in Starting => maker'[q] \in Thread /\ pc'[maker'[q]] \notin Away
    BY <2>1, <2>2 DEF MakersStay
  <2> QED BY <2>3, <2>4 DEF MakersStay
<1>7. CASE UNCHANGED vars
  BY <1>7 DEF vars, callv, muslV, MakersStay
<1>8. ASSUME NEW t \in Thread,
             \/ Clone(t) \/ SpawnFails(t) \/ Thunk(t) \/ PsxExit(t) \/ Joins(t)
             \/ Exit(t) \/ CallExit(t)
      PROVE  MakersStay'
  BY <1>1, <1>2, <1>3, <1>4, <1>5, <1>8, MostAreSteady DEF Clone, PsxExit
<1>9. ASSUME NEW t \in Thread, NEW p \in Thread, NEW d \in BOOLEAN,
             Create(t, p, d) \/ Join(t, p) \/ Detach(t, p)
      PROVE  MakersStay'
  BY <1>1, <1>6, <1>9, MostAreSteady
<1>10. CASE Threadexit
  <2>1. \E t \in Thread : TRUE BY DEF ThreadsAssumption
  <2> QED BY <1>1, <1>10, <2>1, MostAreSteady
<1> QED BY <1>7, <1>8, <1>9, <1>10 DEF Next

(* Somebody has not left, and has been counted itself or was made by one that *)
(* has been and is there: the thread whose exit is handled is not the last.   *)
LEMMA DaemonSees ==
  ASSUME ThreadsAssumption, IInv, MailShape, MailHolds, CountBalance, MinusOneExact,
         minus1 \in Nat, MakersStay, process # "terminated", [Next]_vars
  PROVE  process' # "terminated"
<1> USE DEF IInv, Shape, MailShape
<1>1. CASE Threadexit
  <2>1. CASE pthreads # 1 BY <1>1, <2>1 DEF Threadexit
  <2>2. CASE pthreads = 1
    <3>1. PICK h : h = Head(inbox) OBVIOUS
    <3>2. h \in tlca /\ pc[h] \in {"epilog", "gone"}
      <4>1. Len(inbox) \in Nat \ {0} /\ h = inbox[1] BY <1>1, <3>1 DEF Threadexit
      <4> QED BY <4>1 DEF MailHolds
    <3>3. IsFiniteSet(Counted) /\ Cardinality(Counted) = 1
      BY <2>2, ThreadSets DEF CountBalance, Counted
    <3>4. h \in Counted BY <3>2 DEF Counted
    <3>5. \A u \in Counted : u = h
      <4>1. PICK x : Counted = {x} BY <3>3, FS_Singleton
      <4> QED BY <3>4, <4>1
    <3>6. \A u \in Thread :
            pc[u] \notin {"none", "tlca", "count", "epilog", "gone"} => FALSE
      BY <3>2, <3>5 DEF Counted, MailHolds, TlcaOutlivesThread
    <3>7. PICK u \in Alive : TRUE
      <4>1. IsFiniteSet(Alive) /\ Cardinality(Alive) # 0
        BY ThreadSets DEF MinusOneExact, Alive, Coming
      <4> QED BY <4>1, FS_EmptySet
    <3>8. CASE u \in Coming
      <4>1. PICK c \in Thread : pc[c] \in Creating BY <3>8 DEF Coming
      <4> QED BY <3>6, <4>1
    <3>9. CASE pc[u] \in Starting
      <4>1. u \in Thread BY DEF Alive, Coming
      <4>2. /\ maker[u] \in Thread
            /\ pc[maker[u]] \notin {"none", "leave", "clear"} \cup Starting \cup Cleared
        BY <3>9, <4>1 DEF MakersStay
      <4> QED BY <3>6, <4>2
    <3>10. CASE u \notin Coming /\ pc[u] \notin Starting
      <4>1. u \in Thread /\ pc[u] \notin {"none", "clear"} \cup Cleared BY <3>10 DEF Alive
      <4> QED BY <3>6, <3>10, <4>1
    <3> QED BY <3>8, <3>9, <3>10
  <2> QED BY <2>1, <2>2
<1>2. CASE UNCHANGED vars BY <1>2 DEF vars, psxV
<1>3. ASSUME NEW t \in Thread,
             \/ Clone(t) \/ SpawnFails(t) \/ Thunk(t) \/ PsxExit(t) \/ Joins(t)
             \/ Exit(t) \/ CallExit(t)
      PROVE  process' # "terminated"
  <2>1. CASE Spawn(t) \/ TlcaInit(t) \/ Count(t) \/ Post(t)
    BY <2>1 DEF Spawn, TlcaInit, Count, Post, psxV
  <2>2. CASE Apart BY <2>2 DEF Apart
  <2> QED BY <1>3, <2>1, <2>2, MostAreApart DEF Clone, Thunk, PsxExit
<1>4. ASSUME NEW t \in Thread, NEW p \in Thread, NEW d \in BOOLEAN,
             Create(t, p, d) \/ Join(t, p) \/ Detach(t, p)
      PROVE  process' # "terminated"
  <2>1. Apart BY <1>4, MostAreApart
  <2> QED BY <2>1 DEF Apart
<1> QED BY <1>1, <1>2, <1>3, <1>4 DEF Next

-----------------------------------------------------------------------------
Holding == Filling \cup Booting

(* Steps that no slot is about.                                               *)
LEMMA SlotsApart ==
  ASSUME ThreadsAssumption, IInv, NEW t \in Thread, NEW p \in Thread, NEW d \in BOOLEAN,
         \/ Scan(t) \/ Ptid(t)
         \/ Leave(t) \/ ExitGroup(t) \/ Clear(t) \/ Wake(t) \/ Post(t) \/ Epilog(t)
         \/ Exit(t) \/ CallExit(t) \/ Joins(t) \/ Threadexit
         \/ Create(t, p, d) \/ Join(t, p) \/ Detach(t, p)
  PROVE  /\ busy' = busy
         /\ \A u \in Thread : pc[u] \in Holding =>
                pc'[u] \in Holding /\ slot'[u] = slot[u]
<1> USE DEF IInv, Shape, Goto, At, Holding
<1>1. CASE Wake(t) \/ Threadexit
  <2>1. \A u \in Thread :
          \/ pc'[u] = pc[u]
          \/ pc[u] = "sleep" /\ pc'[u] = "check"
          \/ pc[u] = "wake" /\ pc'[u] = "post"
    BY <1>1, WakeEffect
  <2>2. UNCHANGED <<slot, busy>> BY <1>1, WakeEffect
  <2> QED BY <2>1, <2>2
<1>2. CASE \/ Scan(t) \/ Ptid(t)
           \/ Leave(t) \/ ExitGroup(t) \/ Clear(t) \/ Post(t) \/ Epilog(t)
           \/ Exit(t) \/ CallExit(t)
  <2>1. busy' = busy /\ \A u \in Thread \ {t} : slot'[u] = slot[u]
    BY <1>2 DEF Scan, GiveUp, Ptid, Leave, ExitGroup, Clear, Post, Epilog, Exit, CallExit,
                callv, cloneV
  <2>2. /\ pc[t] \in {"scan", "ptid", "run"} \cup Leaving
        /\ pc' = pc \/ \E l \in Pcs : pc' = [pc EXCEPT ![t] = l]
    BY <1>2 DEF Scan, GiveUp, Ptid, Leave, ExitGroup, Clear, Post, Epilog, Exit, CallExit
  <2> QED BY <2>1, <2>2
<1>3. CASE Joins(t) \/ Create(t, p, d) \/ Join(t, p) \/ Detach(t, p)
  <2>1. busy' = busy /\ \A u \in Thread \ {t} : slot'[u] = slot[u]
    BY <1>3 DEF Joins, Check, Wait, Reap, Create, Join, Detach, callv, cloneV
  <2>2. /\ pc[t] \in {"run"} \cup Joining
        /\ pc' = pc \/ \E l \in Pcs : pc' = [pc EXCEPT ![t] = l]
    BY <1>3 DEF Joins, Check, Wait, Reap, Create, Join, Detach
  <2> QED BY <2>1, <2>2
<1> QED BY <1>1, <1>2, <1>3

(* A slot is busy only while somebody fills it or reads it.                   *)
LEMMA BusyNext ==
  ASSUME ThreadsAssumption, IInv, BusyIsHeld, [Next]_vars
  PROVE  BusyIsHeld'
<1> USE DEF IInv, Shape, Holding
<1>0. \A s \in Slot : busy[s] => \E u \in Thread : pc[u] \in Holding /\ slot[u] = s
  BY DEF BusyIsHeld
<1>1. CASE /\ busy' = busy
           /\ \A u \in Thread : pc[u] \in Holding => pc'[u] \in Holding /\ slot'[u] = slot[u]
  BY <1>0, <1>1 DEF BusyIsHeld
<1>2. ASSUME NEW t \in Thread, Mark(t) PROVE BusyIsHeld'
  <2>1. /\ pc[t] = "mark" /\ pc' = [pc EXCEPT ![t] = "entry"] /\ slot[t] \in Slot
        /\ busy' = [busy EXCEPT ![slot[t]] = TRUE] /\ slot' = slot
    BY <1>2 DEF Mark, At, Goto, callv, Links, CreatorsSlot
  <2>2. pc'[t] \in Holding /\ \A u \in Thread : pc[u] \in Holding => pc'[u] \in Holding
    BY <2>1
  <2> QED BY <1>0, <2>1, <2>2 DEF BusyIsHeld
<1>3. ASSUME NEW t \in Thread, FillEntry(t) \/ FillTls(t) PROVE BusyIsHeld'
  <2>1. /\ UNCHANGED <<slot, busy>>
        /\ pc' = [pc EXCEPT ![t] = "tls"] \/ pc' = [pc EXCEPT ![t] = "spawn"]
    BY <1>3 DEF FillEntry, FillTls, Goto, callv
  <2> QED BY <1>1, <2>1
<1>4. ASSUME NEW t \in Thread, Spawn(t) PROVE BusyIsHeld'
  <2>1. /\ pc[t] = "spawn" /\ pc' = [pc EXCEPT ![t] = "ptid", ![obj[t]] = "tlca"]
        /\ slot' = [slot EXCEPT ![obj[t]] = slot[t]] /\ busy' = busy
        /\ obj[t] \in Thread /\ pc[obj[t]] = "none"
    BY <1>4 DEF Spawn, At, cloneV, Links, CreatorsTarget
  <2>2. /\ pc'[obj[t]] \in Holding /\ slot'[obj[t]] = slot[t]
        /\ \A u \in Thread \ {t, obj[t]} : pc'[u] = pc[u] /\ slot'[u] = slot[u]
    BY <2>1
  <2>3. ASSUME NEW s \in Slot, busy[s]
        PROVE  \E u \in Thread : pc'[u] \in Holding /\ slot'[u] = s
    <3>1. PICK u \in Thread : pc[u] \in Holding /\ slot[u] = s BY <1>0, <2>3
    <3>2. CASE u = t BY <2>1, <2>2, <3>1, <3>2
    <3>3. CASE u # t
      <4>1. u # obj[t] BY <2>1, <3>1
      <4> QED BY <2>2, <3>1, <3>3, <4>1
    <3> QED BY <3>2, <3>3
  <2> QED BY <2>1, <2>3 DEF BusyIsHeld
<1>5. ASSUME NEW t \in Thread, SpawnFails(t) \/ Release(t) PROVE BusyIsHeld'
  <2>1. /\ pc[t] \in Holding /\ pc' = [pc EXCEPT ![t] = "run"] /\ slot' = slot
        /\ slot[t] \in Slot /\ busy' = [busy EXCEPT ![slot[t]] = FALSE]
    BY <1>5 DEF SpawnFails, GiveUp, Release, At, Goto, callv, Links, CreatorsSlot,
                StartersSlot
  <2>2. ASSUME NEW s \in Slot, busy'[s]
        PROVE  \E u \in Thread : pc'[u] \in Holding /\ slot'[u] = s
    <3>1. busy[s] /\ s # slot[t] BY <2>1, <2>2
    <3>2. PICK u \in Thread : pc[u] \in Holding /\ slot[u] = s BY <1>0, <3>1
    <3> QED BY <2>1, <3>1, <3>2
  <2> QED BY <2>2 DEF BusyIsHeld
<1>6. ASSUME NEW t \in Thread, TlcaInit(t) \/ Count(t) \/ SetTid(t) \/ Take(t)
      PROVE  BusyIsHeld'
  <2>1. /\ UNCHANGED <<slot, busy>>
        /\ \E l \in Booting : pc' = [pc EXCEPT ![t] = l]
    BY <1>6 DEF TlcaInit, Count, SetTid, Take, Goto, callv, cloneV
  <2> QED BY <1>1, <2>1
<1>7. CASE UNCHANGED vars BY <1>1, <1>7 DEF vars, callv, cloneV
<1>8. ASSUME NEW t \in Thread,
             \/ Clone(t) \/ SpawnFails(t) \/ Thunk(t) \/ PsxExit(t) \/ Joins(t)
             \/ Exit(t) \/ CallExit(t)
      PROVE  BusyIsHeld'
  BY <1>1, <1>2, <1>3, <1>4, <1>5, <1>6, <1>8, SlotsApart DEF Clone, Thunk, PsxExit
<1>9. ASSUME NEW t \in Thread, NEW p \in Thread, NEW d \in BOOLEAN,
             Create(t, p, d) \/ Join(t, p) \/ Detach(t, p)
      PROVE  BusyIsHeld'
  BY <1>1, <1>9, SlotsApart
<1>10. CASE Threadexit
  <2>1. \E t \in Thread : TRUE BY DEF ThreadsAssumption
  <2> QED BY <1>1, <1>10, <2>1, SlotsApart
<1> QED BY <1>7, <1>8, <1>9, <1>10 DEF Next
-----------------------------------------------------------------------------
OwnShape ==
  /\ tid \in [Thread -> Thread \cup {None}]
  /\ maker \in [Thread -> Thread \cup {None}]
  /\ mapped \subseteq Thread /\ detached \subseteq Thread /\ known \subseteq Thread

LEMMA OwnShapeNext ==
  ASSUME ThreadsAssumption, IInv, OwnShape, [Next]_vars
  PROVE  OwnShape'
<1> USE DEF IInv, Shape, OwnShape
<1>1. ASSUME NEW t \in Thread,
             \/ Clone(t) \/ SpawnFails(t) \/ Thunk(t) \/ PsxExit(t) \/ Joins(t)
             \/ Exit(t) \/ CallExit(t)
      PROVE  OwnShape'
  <2>1. CASE Scan(t) \/ SpawnFails(t)
    BY <2>1 DEF Scan, SpawnFails, GiveUp, muslV
  <2>2. CASE Ptid(t)
    <3>1. obj[t] \in Thread BY <2>2 DEF Ptid, At, Links, CreatorsTarget
    <3> QED BY <2>2, <3>1 DEF Ptid
  <2>3. CASE Clear(t) BY <2>3 DEF Clear, muslV
  <2>4. CASE Reap(t) BY <2>4 DEF Reap
  <2>5. CASE UNCHANGED <<tid, maker, mapped, detached, known>> BY <2>5
  <2>6. CASE Mark(t) \/ FillEntry(t) \/ FillTls(t) \/ Spawn(t) \/ Thunk(t)
    BY <2>5, <2>6 DEF Mark, FillEntry, FillTls, Spawn, Thunk, TlcaInit, Count, SetTid,
                      Take, Release, muslV
  <2>7. CASE Leave(t) \/ ExitGroup(t) \/ Wake(t) \/ Post(t) \/ Epilog(t)
    BY <2>5, <2>7 DEF Leave, ExitGroup, Wake, Post, Epilog, muslV
  <2>8. CASE Exit(t) \/ CallExit(t) \/ Check(t) \/ Wait(t)
    BY <2>5, <2>8 DEF Exit, CallExit, Check, Wait, muslV
  <2> QED BY <1>1, <2>1, <2>2, <2>3, <2>4, <2>6, <2>7, <2>8 DEF Clone, PsxExit, Joins
<1>2. ASSUME NEW t \in Thread, NEW p \in Thread, NEW d \in BOOLEAN,
             Create(t, p, d) \/ Join(t, p) \/ Detach(t, p)
      PROVE  OwnShape'
  <2>1. CASE Create(t, p, d) BY <2>1 DEF Create
  <2>2. CASE Join(t, p) \/ Detach(t, p)
    <3>1. /\ UNCHANGED <<tid, maker, mapped>> /\ known' = known \ {p}
          /\ detached' = detached \/ detached' = detached \cup {p}
      BY <2>2 DEF Join, Detach
    <3> QED BY <3>1
  <2> QED BY <1>2, <2>1, <2>2
<1>3. CASE Threadexit \/ UNCHANGED vars BY <1>3 DEF Threadexit, vars, muslV
<1> QED BY <1>1, <1>2, <1>3 DEF Next

(* Steps after which a number that was cleared for good still is.             *)
Final == {"leave", "clear"} \cup Cleared
Lasting ==
  /\ known' \subseteq known
  /\ \A u \in Thread :
       /\ pc[u] # "none" => (u \in detached' <=> u \in detached)
       /\ ctid'[u] = Spare => ctid[u] = Spare
       /\ tid[u] = None => tid'[u] = None
       /\ pc'[u] = "ptid" => pc[u] = "ptid" /\ obj'[u] = obj[u]
       /\ pc'[u] \in Final => pc[u] \in Final
       /\ pc'[u] \in Cleared => pc[u] \in Cleared
       /\ pc'[u] = "none" => pc[u] = "none"
       /\ pc[u] \in Leaving => pc'[u] \in Leaving

LEMMA MostAreLasting ==
  ASSUME ThreadsAssumption, IInv, OwnShape, NEW t \in Thread, NEW p \in Thread, NEW d \in BOOLEAN,
         \/ Scan(t) \/ Mark(t) \/ FillEntry(t) \/ FillTls(t) \/ SpawnFails(t) \/ Thunk(t)
         \/ ExitGroup(t) \/ Wake(t) \/ Post(t) \/ Epilog(t)
         \/ CallExit(t) \/ Joins(t) \/ Create(t, p, d) \/ Join(t, p) \/ Threadexit
  PROVE  Lasting
<1> USE DEF IInv, Shape, Goto, At, Final
<1>1. CASE Wake(t) \/ Threadexit
  <2>1. /\ \A u \in Thread :
             \/ pc'[u] = pc[u]
             \/ pc[u] = "sleep" /\ pc'[u] = "check"
             \/ pc[u] = "wake" /\ pc'[u] = "post"
        /\ UNCHANGED <<obj, ctid, tid, muslV>>
    BY <1>1, WakeEffect
  <2> QED BY <2>1 DEF Lasting, muslV
<1>2. CASE Scan(t) \/ Mark(t) \/ FillEntry(t) \/ FillTls(t) \/ SpawnFails(t)
  <2>1. pc[t] \in Creating \ {"ptid"} /\ obj[t] \in Thread /\ pc[obj[t]] = "none"
    BY <1>2 DEF Scan, Mark, FillEntry, FillTls, SpawnFails, Links, CreatorsTarget
  <2>2. /\ UNCHANGED <<ctid, tid, known>>
        /\ \/ UNCHANGED <<obj, detached>>
           \/ detached' = detached \ {obj[t]} /\ pc' = [pc EXCEPT ![t] = "run"]
    BY <1>2 DEF Scan, Mark, FillEntry, FillTls, SpawnFails, GiveUp, callv, idV, muslV
  <2>3. pc' = pc \/ \E l \in {"run"} \cup (Creating \ {"ptid"}) : pc' = [pc EXCEPT ![t] = l]
    BY <1>2 DEF Scan, Mark, FillEntry, FillTls, SpawnFails, GiveUp
  <2>4. /\ pc'[t] \in {"run"} \cup (Creating \ {"ptid"})
        /\ \A u \in Thread \ {t} : pc'[u] = pc[u]
    BY <2>1, <2>3
  <2>5. \A u \in Thread \ {t} : obj'[u] = obj[u]
    BY <1>2 DEF Scan, Mark, FillEntry, FillTls, SpawnFails, GiveUp, callv
  <2> QED BY <2>1, <2>2, <2>4, <2>5 DEF Lasting
<1>3. CASE Thunk(t)
  <2>1. /\ UNCHANGED <<obj, tid, known, detached>>
        /\ ctid' = ctid \/ (SetTid(t) /\ ctid' = [ctid EXCEPT ![t] = ctx[slot[t]].tls])
    BY <1>3 DEF Thunk, TlcaInit, Count, SetTid, Take, Release, callv, idV, muslV
  <2>2. SetTid(t) => ctx[slot[t]].tls = t BY DEF SetTid, Links, StartersSlot
  <2>3. \A u \in Thread : ctid'[u] = Spare => ctid[u] = Spare
    BY <2>1, <2>2 DEF ThreadsAssumption
  <2>4. /\ pc[t] \in Booting
        /\ \E l \in {"run"} \cup Booting : pc' = [pc EXCEPT ![t] = l]
    BY <1>3 DEF Thunk, TlcaInit, Count, SetTid, Take, Release
  <2> QED BY <2>1, <2>3, <2>4 DEF Lasting
<1>4. CASE ExitGroup(t) \/ Post(t) \/ Epilog(t) \/ CallExit(t)
  <2>1. UNCHANGED <<obj, ctid, tid, known, detached>>
    BY <1>4 DEF ExitGroup, Post, Epilog, CallExit, callv, idV, muslV
  <2>2. \/ pc' = pc
        \/ pc[t] = "run" /\ pc' = [pc EXCEPT ![t] = "exit"]
        \/ /\ pc[t] \in Cleared
           /\ \E l \in Cleared : pc' = [pc EXCEPT ![t] = l]
    BY <1>4 DEF ExitGroup, Post, Epilog, CallExit
  <2> QED BY <2>1, <2>2 DEF Lasting
<1>5. CASE Joins(t) \/ Join(t, p)
  <2>1. /\ UNCHANGED <<ctid, tid, detached>> /\ known' \subseteq known
        /\ \A u \in Thread \ {t} : obj'[u] = obj[u]
    BY <1>5 DEF Joins, Check, Wait, Reap, Join, callv, idV, muslV
  <2>2. /\ pc[t] \in {"run"} \cup Joining
        /\ \E l \in {"run"} \cup Joining : pc' = [pc EXCEPT ![t] = l]
    BY <1>5 DEF Joins, Check, Wait, Reap, Join
  <2> QED BY <2>1, <2>2 DEF Lasting
<1>6. CASE Create(t, p, d)
  <2>1. /\ pc[t] = "run" /\ pc[p] = "none" /\ pc' = [pc EXCEPT ![t] = "scan"]
        /\ UNCHANGED <<ctid, known>> /\ detached' \in {detached, detached \cup {p}}
        /\ \A u \in Thread \ {t} : obj'[u] = obj[u]
    BY <1>6 DEF Create, idV
  <2>2. \A u \in Thread : tid[u] = None => tid'[u] = None
    BY <1>6, <2>1 DEF Create, OwnShape
  <2> QED BY <2>1, <2>2 DEF Lasting
<1> QED BY <1>1, <1>2, <1>3, <1>4, <1>5, <1>6

(* A number that was cleared, and whose thread somebody may join, is cleared  *)
(* for good: the call that made the thread, and could store the number again, *)
(* has returned before the thread exits.                                      *)
LEMMA ClearedNext ==
  ASSUME ThreadsAssumption, "serial" \in Discipline, "gate" \in Discipline, IInv,
         OwnShape, ClearedForGood, [Next]_vars
  PROVE  ClearedForGood'
<1> USE DEF IInv, Shape, OwnShape, Goto, At, Final
<1>0. /\ \A u \in Thread : pc[u] = "ptid" => pc[obj[u]] \notin {"none"} \cup Final
      /\ \A u \in Thread : ctid[u] = Spare => pc[u] \in Leaving /\ u \in detached
      /\ \A u \in known : u \notin detached /\ pc[u] # "none"
      /\ \A u \in Thread : u \in known /\ pc[u] \in Cleared => tid[u] = None
  BY DEF ClearedForGood, NumberStaysCleared
<1> DEFINE Made == \A u \in Thread : pc[u] = "ptid" => pc[obj[u]] \notin {"none"} \cup Final
           Moved == \A u \in Thread : ctid[u] = Spare => pc[u] \in Leaving /\ u \in detached
           Held == \A u \in known : u \notin detached /\ pc[u] # "none"
           Stays == \A u \in Thread : u \in known /\ pc[u] \in Cleared => tid[u] = None
<1>1. Made' /\ Moved' /\ Held' /\ Stays' => ClearedForGood'
  BY DEF ClearedForGood, NumberStaysCleared
<1>2. CASE Lasting
  <2>1. Made' BY <1>0, <1>2 DEF Lasting, Links, CreatorsTarget
  <2>2. Moved' BY <1>0, <1>2 DEF Lasting
  <2>3. Held' BY <1>0, <1>2 DEF Lasting
  <2>4. Stays' BY <1>0, <1>2 DEF Lasting
  <2> QED BY <1>1, <2>1, <2>2, <2>3, <2>4
<1>3. ASSUME NEW t \in Thread, Spawn(t) PROVE ClearedForGood'
  <2>1. /\ pc[t] = "spawn" /\ pc' = [pc EXCEPT ![t] = "ptid", ![obj[t]] = "tlca"]
        /\ UNCHANGED <<obj, ctid, tid, known, detached>>
        /\ obj[t] \in Thread /\ pc[obj[t]] = "none"
        /\ \A u \in Thread : pc[u] \in Creating => u = t
    BY <1>3 DEF Spawn, Links, OneCreator, CreatorsTarget, idV, muslV
  <2>2. /\ pc'[t] = "ptid" /\ pc'[obj[t]] = "tlca"
        /\ \A u \in Thread \ {t, obj[t]} : pc'[u] = pc[u]
    BY <2>1
  <2>3. Made' BY <2>1, <2>2
  <2>4. Moved' BY <1>0, <2>1, <2>2
  <2>5. Held' BY <1>0, <2>1, <2>2
  <2>6. Stays' BY <1>0, <2>1, <2>2
  <2> QED BY <1>1, <2>3, <2>4, <2>5, <2>6
<1>4. ASSUME NEW t \in Thread, Ptid(t) PROVE ClearedForGood'
  <2>1. /\ pc[t] = "ptid" /\ pc' = [pc EXCEPT ![t] = "run"]
        /\ tid' = [tid EXCEPT ![obj[t]] = obj[t]]
        /\ known' = (known \cup {obj[t]}) \ detached
        /\ obj' = [obj EXCEPT ![t] = None]
        /\ UNCHANGED <<ctid, detached>>
        /\ obj[t] \in Thread /\ pc[obj[t]] \notin {"none"} \cup Final
    BY <1>0, <1>4 DEF Ptid, Links, CreatorsTarget, idV
  <2>2. pc'[t] = "run" /\ \A u \in Thread \ {t} : pc'[u] = pc[u] /\ obj'[u] = obj[u]
    BY <2>1
  <2>3. \A u \in Thread \ {obj[t]} : tid'[u] = tid[u] BY <2>1
  <2>4. Made' BY <1>0, <2>1, <2>2 DEF Links, CreatorsTarget
  <2>5. Moved' BY <1>0, <2>1, <2>2
  <2>6. Held' BY <1>0, <2>1, <2>2
  <2>7. Stays' BY <1>0, <2>1, <2>2, <2>3
  <2> QED BY <1>1, <2>4, <2>5, <2>6, <2>7
<1>5. ASSUME NEW t \in Thread, Leave(t) PROVE ClearedForGood'
  <2>1. /\ pc[t] = "leave"
        /\ pc' = [pc EXCEPT ![t] = "exit"] \/ pc' = [pc EXCEPT ![t] = "clear"]
        /\ ctid' = ctid \/ (ctid' = [ctid EXCEPT ![t] = Spare] /\ self[t] \in detached)
        /\ UNCHANGED <<obj, tid, known, detached>>
    BY <1>5 DEF Leave, callv
  <2>2. pc'[t] \in {"exit", "clear"} /\ \A u \in Thread \ {t} : pc'[u] = pc[u]
    BY <2>1
  <2>3. self[t] = t BY <2>1 DEF Links, KnowsItself
  <2>4. Made' BY <1>0, <2>1, <2>2 DEF Links, CreatorsTarget
  <2>5. Moved'
    <3>1. \A u \in Thread \ {t} : ctid'[u] = ctid[u] BY <2>1
    <3>2. ctid'[t] = Spare => t \in detached BY <1>0, <2>1, <2>3
    <3> QED BY <1>0, <2>1, <2>2, <3>1, <3>2
  <2>6. Held' BY <1>0, <2>1, <2>2
  <2>7. Stays' BY <1>0, <2>1, <2>2
  <2> QED BY <1>1, <2>4, <2>5, <2>6, <2>7
<1>6. ASSUME NEW t \in Thread, Clear(t) PROVE ClearedForGood'
  <2>1. /\ pc[t] = "clear" /\ pc' = [pc EXCEPT ![t] = "wake"]
        /\ tid' = IF ctid[t] \in Thread THEN [tid EXCEPT ![ctid[t]] = None] ELSE tid
        /\ UNCHANGED <<obj, ctid, known, detached>>
    BY <1>6 DEF Clear, callv, idV, muslV
  <2>2. pc'[t] = "wake" /\ \A u \in Thread \ {t} : pc'[u] = pc[u]
    BY <2>1
  <2>3. ctid[t] \in {t, Spare} BY <2>1 DEF Links, KnowsItself
  <2>4. t \in known => tid'[t] = None
    BY <1>0, <2>1, <2>3
  <2>5. \A u \in Thread \ {t} : tid'[u] = tid[u]
    BY <2>1, <2>3 DEF ThreadsAssumption
  <2>6. Made' BY <1>0, <2>1, <2>2 DEF Links, CreatorsTarget
  <2>7. Moved' BY <1>0, <2>1, <2>2
  <2>8. Held' BY <1>0, <2>1, <2>2
  <2>9. Stays' BY <1>0, <2>1, <2>2, <2>4, <2>5
  <2> QED BY <1>1, <2>6, <2>7, <2>8, <2>9
<1>7. ASSUME NEW t \in Thread, Exit(t) PROVE ClearedForGood'
  <2>1. /\ pc[t] = "run" /\ pc' = [pc EXCEPT ![t] = "leave"]
        /\ \A u \in Thread : obj[u] = t => pc[u] \notin Creating
        /\ UNCHANGED <<obj, ctid, tid, known, detached>>
    BY <1>7 DEF Exit, MayExit, callv, idV, muslV
  <2>2. pc'[t] = "leave" /\ \A u \in Thread \ {t} : pc'[u] = pc[u] BY <2>1
  <2>3. Made' BY <1>0, <2>1, <2>2 DEF Links, CreatorsTarget
  <2>4. Moved' BY <1>0, <2>1, <2>2
  <2>5. Held' BY <1>0, <2>1, <2>2
  <2>6. Stays' BY <1>0, <2>1, <2>2
  <2> QED BY <1>1, <2>3, <2>4, <2>5, <2>6
<1>8. ASSUME NEW t \in Thread, NEW p \in Thread, Detach(t, p) PROVE ClearedForGood'
  <2>1. /\ pc[t] = "run" /\ p \in known /\ known' = known \ {p}
        /\ \/ /\ pc' = [pc EXCEPT ![t] = "check"] /\ obj' = [obj EXCEPT ![t] = p]
              /\ detached' = detached
           \/ detached' = detached \cup {p} /\ UNCHANGED <<pc, obj>>
        /\ UNCHANGED <<ctid, tid>>
    BY <1>8 DEF Detach, idV
  <2>2. /\ pc'[t] \in {"run", "check"}
        /\ \A u \in Thread \ {t} : pc'[u] = pc[u] /\ obj'[u] = obj[u]
    BY <2>1
  <2>3. Made' BY <1>0, <2>1, <2>2 DEF Links, CreatorsTarget
  <2>4. Moved'
    <3>1. \A u \in Thread : ctid[u] = Spare => pc'[u] = pc[u] BY <1>0, <2>1, <2>2
    <3>2. \A u \in Thread : u \in detached => u \in detached' BY <2>1
    <3> QED BY <1>0, <2>1, <3>1, <3>2
  <2>5. Held' BY <1>0, <2>1, <2>2
  <2>6. Stays' BY <1>0, <2>1, <2>2
  <2> QED BY <1>1, <2>3, <2>4, <2>5, <2>6
<1>9. CASE UNCHANGED vars
  BY <1>9 DEF vars, callv, idV, muslV, ClearedForGood, NumberStaysCleared
<1>10. ASSUME NEW t \in Thread,
              \/ Clone(t) \/ SpawnFails(t) \/ Thunk(t) \/ PsxExit(t) \/ Joins(t)
              \/ Exit(t) \/ CallExit(t)
       PROVE  ClearedForGood'
  <2>1. PICK d \in BOOLEAN : d = TRUE OBVIOUS
  <2>2. CASE \/ Scan(t) \/ Mark(t) \/ FillEntry(t) \/ FillTls(t) \/ SpawnFails(t) \/ Thunk(t)
             \/ ExitGroup(t) \/ Wake(t) \/ Post(t) \/ Epilog(t)
             \/ CallExit(t) \/ Joins(t)
    <3>1. Lasting BY <2>1, <2>2, MostAreLasting
    <3> QED BY <1>2, <3>1
  <2> QED BY <1>3, <1>4, <1>5, <1>6, <1>7, <1>10, <2>2 DEF Clone, PsxExit
<1>11. ASSUME NEW t \in Thread, NEW p \in Thread, NEW d \in BOOLEAN,
              Create(t, p, d) \/ Join(t, p) \/ Detach(t, p)
       PROVE  ClearedForGood'
  <2>1. CASE Create(t, p, d) \/ Join(t, p)
    <3>1. Lasting BY <2>1, MostAreLasting
    <3> QED BY <1>2, <3>1
  <2> QED BY <1>8, <1>11, <2>1
<1>12. CASE Threadexit
  <2>1. PICK t \in Thread : TRUE BY DEF ThreadsAssumption
  <2>2. PICK d \in BOOLEAN : d = TRUE OBVIOUS
  <2>3. Lasting BY <1>12, <2>1, <2>2, MostAreLasting
  <2> QED BY <1>2, <2>3
<1> QED BY <1>9, <1>10, <1>11, <1>12 DEF Next

-----------------------------------------------------------------------------
(* What holds as long as calls of pthread_create do not overlap.              *)
Counts ==
  /\ IInv /\ OwnShape /\ NumbersHold /\ MemoryHolds
  /\ MailShape /\ MailHolds /\ CountBalance
  /\ minus1 \in Nat /\ MinusOneExact /\ BusyIsHeld

LEMMA InitCounts ==
  ASSUME ThreadsAssumption, Init
  PROVE  Counts /\ MakersStay /\ ClearedForGood /\ process # "terminated"
<1> USE DEF Init, ThreadsAssumption
<1>1. IInv BY InitLinks
<1>2. OwnShape BY DEF OwnShape
<1>3. NumbersHold BY DEF NumbersHold, Named
<1>4. MemoryHolds BY DEF MemoryHolds, ReapsOnlyTheDead
<1>5. MailShape BY DEF MailShape
<1>6. MailHolds BY DEF MailHolds, TlcaOutlivesThread
<1>7. CountBalance
  <2>1. {t \in tlca : pc[t] # "count"} = {Main} OBVIOUS
  <2>2. Cardinality({Main}) = 1 BY FS_Singleton
  <2> QED BY <2>1, <2>2 DEF CountBalance
<1>8. MinusOneExact
  <2>1. Coming = {} BY DEF Coming
  <2>2. Alive = {Main} BY <2>1 DEF Alive
  <2>3. Cardinality({Main}) = 1 BY FS_Singleton
  <2> QED BY <2>2, <2>3 DEF MinusOneExact
<1>9. BusyIsHeld BY DEF BusyIsHeld
<1>10. MakersStay BY DEF MakersStay
<1>11. ClearedForGood BY DEF ClearedForGood, NumberStaysCleared
<1> QED BY <1>1, <1>2, <1>3, <1>4, <1>5, <1>6, <1>7, <1>8, <1>9, <1>10, <1>11 DEF Counts

LEMMA NextCounts ==
  ASSUME ThreadsAssumption, "serial" \in Discipline, Counts, [Next]_vars
  PROVE  Counts'
<1> USE DEF Counts
<1>0. NumberShape BY DEF OwnShape, NumberShape
<1>1. IInv' BY NextLinks
<1>2. OwnShape' BY OwnShapeNext
<1>3. MailShape' /\ MailHolds' /\ CountBalance' BY MailNext
<1>4. minus1' \in Nat /\ MinusOneExact' BY MinusOneNext
<1>5. BusyIsHeld' BY BusyNext
<1>6. NumbersHold' /\ MemoryHolds'
  <2>1. ASSUME NEW t \in Thread,
               \/ Clone(t) \/ SpawnFails(t) \/ Thunk(t) \/ PsxExit(t) \/ Joins(t)
               \/ Exit(t) \/ CallExit(t)
        PROVE  NumbersHold' /\ MemoryHolds'
    <3>1. CASE Clone(t) \/ SpawnFails(t) BY <1>0, <3>1, CloneNumbers
    <3>2. CASE Thunk(t) \/ PsxExit(t) \/ Exit(t) \/ CallExit(t)
      BY <1>0, <3>2, RunNumbers
    <3>3. CASE Joins(t)
      <4>1. PICK d \in BOOLEAN : d = TRUE OBVIOUS
      <4> QED BY <1>0, <3>3, <4>1, JoinNumbers
    <3> QED BY <2>1, <3>1, <3>2, <3>3
  <2>2. ASSUME NEW t \in Thread, NEW p \in Thread, NEW d \in BOOLEAN,
               Create(t, p, d) \/ Join(t, p) \/ Detach(t, p)
        PROVE  NumbersHold' /\ MemoryHolds'
    BY <1>0, <2>2, JoinNumbers
  <2>3. CASE Threadexit
    <3>1. PICK t \in Thread : TRUE BY DEF ThreadsAssumption
    <3> QED BY <1>0, <2>3, <3>1, RunNumbers
  <2>4. CASE UNCHANGED vars
    BY <2>4 DEF vars, callv, muslV, NumbersHold, Named, MemoryHolds, ReapsOnlyTheDead
  <2> QED BY <2>1, <2>2, <2>3, <2>4 DEF Next
<1> QED BY <1>1, <1>2, <1>3, <1>4, <1>5, <1>6

(* A slot that is busy has one holder, and one that is idle has none.         *)
LEMMA SlotsExact == ThreadsAssumption /\ IInv /\ BusyIsHeld => SlotsBalance
<1> SUFFICES ASSUME ThreadsAssumption, IInv, BusyIsHeld, NEW s \in Slot
             PROVE  Cardinality(Holders(s)) = IF busy[s] THEN 1 ELSE 0
  BY DEF SlotsBalance
<1> USE DEF IInv, Shape, Links
<1>1. \A u \in Thread : u \in Holders(s) <=> pc[u] \in Filling \cup Booting /\ slot[u] = s
  BY DEF Holders
<1>2. \A u \in Holders(s) : u \in Thread BY DEF Holders
<1>3. CASE busy[s]
  <2>1. PICK u \in Thread : u \in Holders(s) BY <1>1, <1>3 DEF BusyIsHeld
  <2>2. \A v \in Holders(s) : v = u BY <1>1, <1>2, <2>1 DEF OneHolder
  <2>3. Holders(s) = {u} BY <2>1, <2>2
  <2> QED BY <1>3, <2>3, FS_Singleton
<1>4. CASE ~busy[s]
  <2>1. \A u \in Thread : pc[u] \in Filling \cup Booting => busy[slot[u]]
    BY DEF CreatorsSlot, StartersSlot
  <2>2. Holders(s) = {} BY <1>1, <1>2, <1>4, <2>1
  <2> QED BY <1>4, <2>2, FS_EmptySet
<1> QED BY <1>3, <1>4

-----------------------------------------------------------------------------
(* Nobody gives back the memory of a thread that still uses it: a joiner its  *)
(* descriptor (pthread_join.c:15, after psx_exit.c:30 cleared the number), or *)
(* the daemon its TLCA (psx_daemon_threadexit.c:36).                          *)
THEOREM MemoryIsSafe == "serial" \in Discipline /\ Spec => []MemoryOutlivesThread
<1>1. Counts => MemoryOutlivesThread
  BY DEF Counts, MemoryHolds, MailHolds, MemoryOutlivesThread
<1>2. ThreadsAssumption BY ThreadsAssumption
<1>3. SUFFICES ASSUME "serial" \in Discipline PROVE Spec => []MemoryOutlivesThread
  OBVIOUS
<1>4. Init => Counts BY <1>2, InitCounts
<1>5. Counts /\ [Next]_vars => Counts' BY <1>2, <1>3, NextCounts
<1> QED BY <1>1, <1>4, <1>5, PTL DEF Spec

(* A thread that exits while one it made has not been counted could be taken  *)
(* for the last (_clone.c:104-107); one that has met them cannot.             *)
THEOREM DaemonIsRight ==
  {"serial", "meet"} \subseteq Discipline /\ Spec => []DaemonSparesTheProcess
<1> DEFINE Inv == Counts /\ MakersStay /\ process # "terminated"
<1>1. Inv => DaemonSparesTheProcess BY DEF DaemonSparesTheProcess
<1>2. ThreadsAssumption BY ThreadsAssumption
<1>3. SUFFICES ASSUME "serial" \in Discipline, "meet" \in Discipline
               PROVE  Spec => []DaemonSparesTheProcess
  OBVIOUS
<1>4. Init => Inv BY <1>2, InitCounts
<1>5. ASSUME Inv, [Next]_vars PROVE Inv'
  <2>1. Counts' BY <1>2, <1>3, <1>5, NextCounts
  <2>2. MakersStay' BY <1>2, <1>3, <1>5, MakersNext DEF Counts, OwnShape
  <2>3. process' # "terminated" BY <1>2, <1>3, <1>5, DaemonSees DEF Counts
  <2> QED BY <2>1, <2>2, <2>3
<1>6. Inv /\ [Next]_vars => Inv' BY <1>5
<1> HIDE DEF Inv
<1> QED BY <1>1, <1>4, <1>6, PTL DEF Spec

(* Slots, counts and numbers are what the threads that run make them, when    *)
(* creations fail (_clone.c:194-199) and threads are joined or detached, once *)
(* a thread does not exit before the call that made it stores its number.     *)
THEOREM CreationBalances ==
  {"serial", "gate"} \subseteq Discipline /\ Spec => []CreationExact
<1> DEFINE Inv == Counts /\ ClearedForGood
<1>1. ThreadsAssumption BY ThreadsAssumption
<1>2. Inv => CreationExact
  <2> SUFFICES ASSUME Inv PROVE CreationExact OBVIOUS
  <2>1. TypeOK BY DEF Counts, TypeOK, IInv, Shape, OwnShape, MailShape
  <2>2. SlotsBalance BY <1>1, SlotsExact DEF Counts
  <2>3. CountBalance /\ NumberStaysCleared BY DEF Counts, ClearedForGood
  <2> QED BY <2>1, <2>2, <2>3 DEF CreationExact
<1>3. SUFFICES ASSUME "serial" \in Discipline, "gate" \in Discipline
               PROVE  Spec => []CreationExact
  OBVIOUS
<1>4. Init => Inv BY <1>1, InitCounts
<1>5. ASSUME Inv, [Next]_vars PROVE Inv'
  <2>1. Counts' BY <1>1, <1>3, <1>5, NextCounts
  <2>2. ClearedForGood' BY <1>1, <1>3, <1>5, ClearedNext DEF Counts
  <2> QED BY <2>1, <2>2
<1>6. Inv /\ [Next]_vars => Inv' BY <1>5
<1> HIDE DEF Inv
<1> QED BY <1>2, <1>4, <1>6, PTL DEF Spec
=============================================================================
