---------------------------- MODULE RwLock_proofs ----------------------------
(* The read-write lock of musl: a writer is alone and the word counts the     *)
(* readers, and nobody sleeps on a lock that is free when those who are awake *)
(* have come back.  For any number of threads and calls.                      *)
EXTENDS RwLock, FiniteSetTheorems, TLAPS

Labels == {"start", "read", "enter", "write", "count", "mark", "doze", "uncount", "giveUp",
           "holds", "ask", "drop", "wake"}
Words == [cnt : 0 .. Full, flag : BOOLEAN]
Locals == [val : Words, busy : Nat]

Shape ==
    /\ word \in [{Lock} -> Words]
    /\ asleep \in [Callers -> {Lock, Awake}] /\ kernel = TRUE
    /\ pc \in [Callers -> Labels] /\ mode \in [Callers -> {"read", "write"}]
    /\ loc \in [Callers -> Locals]

(* What a call has seen, where it is; the flag is on a lock that is held.     *)
Fits ==
    /\ word[Lock].flag => word[Lock].cnt > 0
    /\ \A t \in Callers :
        /\ asleep[t] = Lock => pc[t] = "uncount"
        /\ pc[t] \in {"read", "enter"} => mode[t] = "read"
        /\ pc[t] = "write" => mode[t] = "write"
        /\ pc[t] = "enter" => loc[t].val.cnt < Full - 1
        /\ pc[t] \in {"count", "mark", "doze"} => loc[t].val.cnt > 0

(* rw->_rw_waiters counts those who are about to sleep, sleep or have slept.  *)
Counted == {t \in Callers : pc[t] \in {"mark", "doze", "uncount", "giveUp"}}
WaitersExact == waiters = Cardinality(Counted)

(* Either readers have it, as many as the word says, or one writer.           *)
Readers == Holders("read")
Writers == Holders("write")
Held ==
    \/ Writers = {} /\ word[Lock].cnt = Cardinality(Readers) /\ word[Lock].cnt < Full
    \/ Readers = {} /\ word[Lock].cnt = Full /\ \E w \in Callers : Writers = {w}

(* A thread that is about to leave and found nobody counted has nobody to     *)
(* wake, or the word tells it.                                                *)
LeaversKnow ==
    \A t \in Callers : pc[t] = "drop" /\ loc[t].busy = 0
        => Sleepers(Lock) = {} \/ word[Lock].flag

(* While the lock is free and somebody sleeps, a thread will look at it again *)
(* or wake a sleeper.                                                         *)
Alert(t) ==
    /\ asleep[t] = Awake
    /\ pc[t] \in {"read", "enter", "write", "count", "mark", "doze", "uncount", "wake"}
SomeoneAlert ==
    word[Lock].cnt = 0 /\ Sleepers(Lock) # {} => \E t \in Callers : Alert(t)

IInv == Shape /\ Fits /\ WaitersExact /\ Held /\ LeaversKnow /\ SomeoneAlert

Assumed == FutexAssumption /\ RwLockAssumption /\ IsFiniteSet(Callers)

USE DEF Labels, Words, Locals, Value, Free

-----------------------------------------------------------------------------
LEMMA LockIsNotAwake == Lock # Awake
BY DEF Lock, Awake, The

(* Sizes of the sets of threads.                                              *)
LEMMA FinitePart ==
  ASSUME Assumed, NEW S, S \subseteq Callers
  PROVE  IsFiniteSet(S) /\ Cardinality(S) \in Nat
BY FS_Subset, FS_CardinalityType DEF Assumed

LEMMA OneMore ==
  ASSUME Assumed, NEW S, S \subseteq Callers, NEW t \in Callers \ S
  PROVE  Cardinality(S \cup {t}) = Cardinality(S) + 1
BY FinitePart, FS_AddElement

LEMMA OneLess ==
  ASSUME Assumed, NEW S, S \subseteq Callers, NEW t \in S
  PROVE  Cardinality(S \ {t}) = Cardinality(S) - 1
BY FinitePart, FS_RemoveElement

LEMMA NoneLeft ==
  ASSUME Assumed, NEW S, S \subseteq Callers, Cardinality(S) = 0
  PROVE  S = {}
BY FinitePart, FS_EmptySet

LEMMA WaitersCount ==
  ASSUME Assumed, WaitersExact
  PROVE  waiters \in Nat
BY FinitePart DEF Counted, WaitersExact

(* A sleeper is counted.                                                      *)
LEMMA SleepersCounted ==
  ASSUME Assumed, Shape, Fits, WaitersExact, waiters = 0
  PROVE  Sleepers(Lock) = {}
<1>1. Counted = {}
  BY NoneLeft DEF Counted, WaitersExact
<1> QED
  BY <1>1 DEF Counted, Sleepers, Fits, Shape

(* One who has the lock has it in the word.                                   *)
LEMMA HolderCounts ==
  ASSUME Assumed, Shape, Held, NEW t \in Callers, pc[t] \in {"holds", "ask", "drop"}
  PROVE  /\ mode[t] = "read" => t \in Readers /\ Writers = {}
         /\ mode[t] = "read" => word[Lock].cnt = Cardinality(Readers)
         /\ mode[t] = "read" => word[Lock].cnt > 0 /\ word[Lock].cnt < Full
         /\ mode[t] = "write" => Writers = {t} /\ Readers = {} /\ word[Lock].cnt = Full
         /\ word[Lock].cnt > 0
<1>1. Full \in Nat /\ Full > 2
  BY DEF Assumed, RwLockAssumption
<1>2. CASE mode[t] = "read"
  <2>1. t \in Readers
    BY <1>2 DEF Readers, Holders
  <2>2. Writers = {} /\ word[Lock].cnt = Cardinality(Readers) /\ word[Lock].cnt < Full
    BY <2>1 DEF Held
  <2>3. Cardinality(Readers) \in Nat /\ Cardinality(Readers) # 0
    BY <2>1, NoneLeft, FinitePart DEF Readers, Holders
  <2> QED
    BY <1>2, <2>1, <2>2, <2>3
<1>3. CASE mode[t] = "write"
  <2>1. t \in Writers
    BY <1>3 DEF Writers, Holders
  <2> QED
    BY <1>1, <1>3, <2>1 DEF Held
<1> QED
  BY <1>2, <1>3 DEF Shape

(* The last reader, or the writer, is the only one who has it.                *)
LEMMA OnlyHolder ==
  ASSUME Assumed, Shape, Held, NEW t \in Callers, pc[t] \in {"holds", "ask", "drop"},
         word[Lock].cnt \in {1, Full}
  PROVE  \A u \in Callers : pc[u] \in {"holds", "ask", "drop"} => u = t
<1>1. Full \in Nat /\ Full > 2
  BY DEF Assumed, RwLockAssumption
<1>2. \A u \in Callers : pc[u] \in {"holds", "ask", "drop"} => u \in Readers \cup Writers
  BY DEF Shape, Readers, Writers, Holders
<1>3. CASE mode[t] = "write"
  BY <1>2, <1>3, HolderCounts
<1>4. CASE mode[t] = "read"
  <2>1. t \in Readers /\ Writers = {} /\ Cardinality(Readers) = 1
    BY <1>1, <1>4, HolderCounts
  <2>2. Readers \subseteq Callers
    BY DEF Readers, Holders
  <2>3. Cardinality(Readers \ {t}) = 0
    BY <2>1, <2>2, OneLess
  <2>4. Readers \ {t} = {}
    BY <2>2, <2>3, NoneLeft
  <2> QED
    BY <1>2, <2>1, <2>4
<1> QED
  BY <1>3, <1>4 DEF Shape

-----------------------------------------------------------------------------
(* What the word may be after a step: what it was, one reader more or less, a *)
(* writer, free, or marked.                                                   *)
LEMMA ShapeKept ==
  ASSUME Assumed, Shape, Fits, WaitersExact, Held, NEW t \in Callers,
         Call(t) \/ TimeOut(t) \/ Stray(t) \/ Step(t)
  PROVE  Shape' /\ Fits'
<1> DEFINE v == word[Lock]
<1>t. /\ Full \in Nat /\ Full > 2 /\ waiters \in Nat
      /\ v \in Words /\ v.cnt \in 0 .. Full /\ v.flag \in BOOLEAN
      /\ loc[t].val \in Words /\ loc[t].val.cnt \in 0 .. Full /\ loc[t].val.flag \in BOOLEAN
  BY WaitersCount DEF Shape, Assumed, RwLockAssumption
<1>n. /\ v.cnt \in Int /\ Full \in Int /\ v.cnt <= Full /\ 0 <= v.cnt
      /\ loc[t].val.cnt \in Int
  BY <1>t
<1>l. /\ loc[t] \in Locals /\ loc = [loc EXCEPT ![t] = loc[t]] /\ NoLoc \in Locals
      /\ \A l \in Locals : [loc EXCEPT ![t] = l] \in [Callers -> Locals]
  BY <1>t DEF Shape, NoLoc
<1>s. \A x \in Words : Store(x) =>
        word' \in [{Lock} -> Words] /\ word'[Lock].cnt = x.cnt /\ word'[Lock].flag = x.flag
  BY DEF Shape, Store
<1>m. \A x \in Words, n \in Nat : [val |-> x, busy |-> n] \in Locals
  OBVIOUS
<1> USE LockIsNotAwake DEF Shape, At, Go
<1>1. CASE Call(t)
  BY <1>1 DEF Call, Fits
<1>2. CASE Read(t)
  <2>1. loc' \in [Callers -> Locals]
    BY <1>2, <1>t, <1>l, <1>m DEF Read, Saw
  <2>2. Shape'
    BY <1>2, <2>1 DEF Read
  <2>3. pc'[t] = "enter" => loc'[t].val.cnt < Full - 1
    <3>1. pc'[t] = "enter" => v.cnt # Full /\ v.cnt # Full - 1
      BY <1>2, <1>t DEF Read
    <3>2. pc'[t] = "enter" => loc'[t].val.cnt = v.cnt
      BY <1>2, <1>t, <3>1 DEF Read, Saw
    <3> HIDE DEF v
    <3>3. v.cnt # Full /\ v.cnt # Full - 1 => v.cnt < Full - 1
      BY <1>n
    <3> QED
      BY <3>1, <3>2, <3>3
  <2>4. pc'[t] = "count" => loc'[t].val.cnt > 0
    <3>1. pc'[t] = "count" => v.cnt = Full
      BY <1>2, <1>t DEF Read
    <3>2. pc'[t] = "count" => loc'[t] = [val |-> v, busy |-> 0]
      BY <1>2, <1>t, <3>1 DEF Read, Saw
    <3> QED
      BY <1>t, <3>1, <3>2
  <2>5. pc'[t] \in {"count", "start", "enter"} /\ mode[t] = "read"
        /\ \A u \in Callers : u # t => pc'[u] = pc[u] /\ loc'[u] = loc[u]
    BY <1>2, <1>t DEF Read, Saw, Fits
  <2> QED
    BY <1>2, <2>2, <2>3, <2>4, <2>5 DEF Read, Fits
<1>3. CASE Enter(t)
  <2>1. word' \in [{Lock} -> Words] /\ (word'[Lock].flag => word'[Lock].cnt > 0)
    <3>1. CASE v = loc[t].val
      <4>1. Value(loc[t].val.cnt + 1, loc[t].val.flag) \in Words
        BY <1>3, <1>t DEF Enter, Fits
      <4>2. Store(Value(loc[t].val.cnt + 1, loc[t].val.flag))
        BY <1>3, <3>1 DEF Enter
      <4> QED
        BY <1>t, <1>s, <4>1, <4>2
    <3>2. CASE v # loc[t].val
      BY <1>3, <3>2 DEF Enter, Fits
    <3> QED
      BY <3>1, <3>2
  <2>2. Shape'
    BY <1>3, <1>l, <2>1 DEF Enter, Forget
  <2> QED
    BY <1>3, <2>1, <2>2 DEF Enter, Forget, Fits
<1>4. CASE Write(t)
  <2>1. word' \in [{Lock} -> Words] /\ (word'[Lock].flag => word'[Lock].cnt > 0)
    <3>1. CASE v = Free
      <4>1. Store(Value(Full, FALSE)) /\ Value(Full, FALSE) \in Words
        BY <1>4, <1>t, <3>1 DEF Write
      <4> QED
        BY <1>s, <4>1
    <3>2. CASE v # Free
      BY <1>4, <3>2 DEF Write, Fits
    <3> QED
      BY <3>1, <3>2
  <2>2. loc' \in [Callers -> Locals]
    BY <1>4, <1>t, <1>l, <1>m DEF Write, Saw
  <2>3. Shape'
    BY <1>4, <2>1, <2>2 DEF Write
  <2>4. pc'[t] = "count" => loc'[t].val.cnt > 0
    BY <1>4, <1>t DEF Write, Saw, Fits
  <2>5. pc'[t] \in {"count", "holds"}
        /\ \A u \in Callers : u # t => pc'[u] = pc[u] /\ loc'[u] = loc[u]
    BY <1>4, <1>t DEF Write, Saw
  <2> QED
    BY <1>4, <2>1, <2>3, <2>4, <2>5 DEF Write, Fits
<1>5. CASE Count(t)
  BY <1>5 DEF Count, Fits
<1>6. CASE Mark(t)
  <2>1. word' \in [{Lock} -> Words] /\ (word'[Lock].flag => word'[Lock].cnt > 0)
    <3>1. CASE v = loc[t].val
      <4> DEFINE x == Marked(t)
      <4>1. Store(x)
        BY <1>6, <3>1 DEF Mark
      <4>2. x \in Words /\ x.cnt > 0
        BY <1>6, <1>t DEF Mark, Marked, Fits
      <4> HIDE DEF x
      <4> QED
        BY <1>s, <4>1, <4>2
    <3>2. CASE v # loc[t].val
      BY <1>6, <3>2 DEF Mark, Fits
    <3> QED
      BY <3>1, <3>2
  <2>2. Shape'
    BY <1>6, <2>1 DEF Mark
  <2> QED
    BY <1>6, <2>1, <2>2 DEF Mark, Fits
<1>7. CASE Doze(t)
  BY <1>7, <1>l DEF Doze, FutexWait, Forget, Fits
<1>8. CASE TimeOut(t)
  BY <1>8 DEF TimeOut, Stir, Rouse, Fits
<1>9. CASE Stray(t)
  BY <1>9 DEF Stray, Stir, Rouse, Fits
<1>10. CASE Uncount(t)
  BY <1>10 DEF Uncount, Fits
<1>11. CASE Unlock(t)
  BY <1>11, <1>t, <1>l, <1>m DEF Unlock, Saw, Fits
<1>12. CASE Ask(t)
  BY <1>12, <1>t, <1>l, <1>m DEF Ask, Fits
<1>13. CASE Drop(t)
  <2>1. word' \in [{Lock} -> Words] /\ (word'[Lock].flag => word'[Lock].cnt > 0)
    <3>1. CASE v # loc[t].val
      BY <1>13, <3>1 DEF Drop, Fits
    <3>2. CASE v = loc[t].val /\ v.cnt \notin {1, Full}
      <4> DEFINE x == Value(v.cnt - 1, v.flag)
      <4>1. Store(x)
        BY <1>13, <3>2 DEF Drop
      <4>2. v.cnt > 0
        BY <1>13, HolderCounts DEF Drop
      <4>3. v.cnt - 1 \in 0 .. Full /\ v.cnt - 1 > 0
        BY <1>t, <3>2, <4>2
      <4>4. x \in Words /\ x.cnt > 0
        BY <1>t, <4>3
      <4> HIDE DEF x
      <4> QED
        BY <1>s, <4>1, <4>4
    <3>3. CASE v = loc[t].val /\ v.cnt \in {1, Full}
      <4>1. Store(Free) /\ Free \in Words
        BY <1>13, <1>t, <3>3 DEF Drop
      <4> QED
        BY <1>s, <4>1
    <3> QED
      BY <3>1, <3>2, <3>3
  <2>2. loc' \in [Callers -> Locals]
    BY <1>13, <1>l DEF Drop, Forget
  <2>3. Shape'
    BY <1>13, <2>1, <2>2 DEF Drop
  <2>4. pc'[t] \in {"holds", "start", "wake"}
        /\ \A u \in Callers : u # t => pc'[u] = pc[u] /\ loc'[u] = loc[u]
    BY <1>13 DEF Drop, Forget
  <2> QED
    BY <1>13, <2>1, <2>3, <2>4 DEF Drop, Fits
<1>14. CASE Wake(t)
  <2>1. /\ asleep' \in [Callers -> {Lock, Awake}]
        /\ \A u \in Callers : asleep'[u] = Lock => asleep[u] = Lock
    BY <1>14 DEF Wake, FutexWake, FutexWakeAll, Rouse, Sleepers
  <2> QED
    BY <1>14, <1>l, <2>1 DEF Wake, Forget, Fits
<1> QED
  BY <1>1, <1>2, <1>3, <1>4, <1>5, <1>6, <1>7, <1>8, <1>9, <1>10, <1>11, <1>12, <1>13, <1>14
     DEF Step

-----------------------------------------------------------------------------
(* Only Count and Uncount change how many are counted.                        *)
LEMMA WaitersKept ==
  ASSUME Assumed, Shape, Fits, WaitersExact, Held, NEW t \in Callers,
         Call(t) \/ TimeOut(t) \/ Stray(t) \/ Step(t)
  PROVE  WaitersExact'
<1> USE DEF Shape, At, Go
<1>1. Counted \subseteq Callers
  BY DEF Counted
<1>2. CASE Count(t)
  <2>1. Counted' = Counted \cup {t} /\ t \notin Counted
    BY <1>2 DEF Count, Counted
  <2> QED
    BY <1>1, <1>2, <2>1, OneMore DEF Count, WaitersExact
<1>3. CASE Uncount(t)
  <2>1. Counted' = Counted \ {t} /\ t \in Counted
    BY <1>3 DEF Uncount, Counted
  <2> QED
    BY <1>1, <1>3, <2>1, OneLess DEF Uncount, WaitersExact
<1>4. ASSUME Counted' = Counted, waiters' = waiters
      PROVE  WaitersExact'
  BY <1>4 DEF WaitersExact
<1>5. CASE Call(t) \/ TimeOut(t) \/ Stray(t) \/ Read(t) \/ Enter(t) \/ Write(t)
  <2>1. Counted' = Counted
    BY <1>5 DEF Counted, Call, TimeOut, Stray, Read, Enter, Write
  <2> QED
    BY <1>4, <1>5, <2>1 DEF Call, TimeOut, Stray, Read, Enter, Write
<1>6. CASE Mark(t) \/ Doze(t) \/ Unlock(t) \/ Ask(t) \/ Drop(t) \/ Wake(t)
  <2>1. Counted' = Counted
    BY <1>6 DEF Counted, Mark, Doze, Unlock, Ask, Drop, Wake
  <2> QED
    BY <1>4, <1>6, <2>1 DEF Mark, Doze, Unlock, Ask, Drop, Wake
<1> QED
  BY <1>2, <1>3, <1>5, <1>6 DEF Step

-----------------------------------------------------------------------------
(* Who has the lock changes when a call enters, finds it free, or drops it.   *)
LEMMA HeldKept ==
  ASSUME Assumed, Shape, Fits, WaitersExact, Held, NEW t \in Callers,
         Call(t) \/ TimeOut(t) \/ Stray(t) \/ Step(t)
  PROVE  Held'
<1> USE LockIsNotAwake DEF Shape, At, Go
<1>f. Full \in Nat /\ Full > 2 /\ word[Lock].cnt \in Nat
  BY DEF Assumed, RwLockAssumption
<1>r. Readers \subseteq Callers /\ Writers \subseteq Callers
  BY DEF Readers, Writers, Holders
<1>c. Cardinality(Readers) \in Nat
  BY <1>r, FinitePart
(* A step that moves nobody in or out and leaves the number alone.            *)
<1>0. ASSUME Readers' = Readers, Writers' = Writers, word'[Lock].cnt = word[Lock].cnt
      PROVE  Held'
  BY <1>0 DEF Held
<1>1. CASE Call(t)
  <2>1. Readers' = Readers /\ Writers' = Writers
    BY <1>1 DEF Call, Readers, Writers, Holders
  <2> QED
    BY <1>0, <1>1, <2>1 DEF Call
<1>2. CASE TimeOut(t) \/ Stray(t) \/ Read(t) \/ Count(t) \/ Uncount(t)
  <2>1. Readers' = Readers /\ Writers' = Writers
    BY <1>2 DEF TimeOut, Stray, Read, Count, Uncount, Readers, Writers, Holders
  <2>2. word' = word
    BY <1>2 DEF TimeOut, Stray, Read, Count, Uncount
  <2> QED
    BY <1>0, <2>1, <2>2
<1>3. CASE Doze(t) \/ Unlock(t) \/ Ask(t) \/ Wake(t)
  <2>1. Readers' = Readers /\ Writers' = Writers
    BY <1>3 DEF Doze, Unlock, Ask, Wake, Readers, Writers, Holders
  <2>2. word' = word
    BY <1>3 DEF Doze, Unlock, Ask, Wake
  <2> QED
    BY <1>0, <2>1, <2>2
<1>4. CASE Mark(t)
  <2>1. Readers' = Readers /\ Writers' = Writers
    BY <1>4 DEF Mark, Readers, Writers, Holders
  <2>2. word'[Lock].cnt = word[Lock].cnt
    BY <1>4 DEF Mark, Marked, Store
  <2> QED
    BY <1>0, <2>1, <2>2
(* A reader comes in.                                                         *)
<1>5. CASE Enter(t)
  <2>1. CASE word[Lock] = loc[t].val
    <3>1. Readers' = Readers \cup {t} /\ t \notin Readers /\ Writers' = Writers
      BY <1>5, <2>1 DEF Enter, Fits, Readers, Writers, Holders
    <3>2. word'[Lock].cnt = word[Lock].cnt + 1 /\ word[Lock].cnt < Full - 1
      BY <1>5, <2>1 DEF Enter, Store, Fits
    <3>3. Writers = {} /\ word[Lock].cnt = Cardinality(Readers)
      BY <1>f, <3>2 DEF Held
    <3>4. Cardinality(Readers') = Cardinality(Readers) + 1
      BY <1>r, <3>1, OneMore
    <3> QED
      BY <1>f, <3>1, <3>2, <3>3, <3>4 DEF Held
  <2>2. CASE word[Lock] # loc[t].val
    <3>1. Readers' = Readers /\ Writers' = Writers /\ word' = word
      BY <1>5, <2>2 DEF Enter, Readers, Writers, Holders
    <3> QED
      BY <1>0, <3>1
  <2> QED
    BY <2>1, <2>2
(* A writer comes in.                                                         *)
<1>6. CASE Write(t)
  <2>1. CASE word[Lock] = Free
    <3>1. Readers' = Readers /\ Writers' = Writers \cup {t}
      BY <1>6, <2>1 DEF Write, Fits, Readers, Writers, Holders
    <3>2. word'[Lock].cnt = Full
      BY <1>6, <2>1 DEF Write, Store
    <3>3. Writers = {} /\ Cardinality(Readers) = 0
      BY <1>f, <2>1 DEF Held
    <3>4. Readers = {}
      BY <1>r, <3>3, NoneLeft
    <3>5. Writers' = {t}
      BY <3>1, <3>3
    <3> QED
      BY <3>1, <3>2, <3>4, <3>5 DEF Held
  <2>2. CASE word[Lock] # Free
    <3>1. Readers' = Readers /\ Writers' = Writers /\ word' = word
      BY <1>6, <2>2 DEF Write, Readers, Writers, Holders
    <3> QED
      BY <1>0, <3>1
  <2> QED
    BY <2>1, <2>2
(* One who has it drops it.                                                   *)
<1>7. CASE Drop(t)
  <2>1. CASE word[Lock] # loc[t].val
    <3>1. Readers' = Readers /\ Writers' = Writers /\ word' = word
      BY <1>7, <2>1 DEF Drop, Readers, Writers, Holders
    <3> QED
      BY <1>0, <3>1
  <2>2. CASE word[Lock] = loc[t].val
    <3>1. Readers' = Readers \ {t} /\ Writers' = Writers \ {t}
      BY <1>7, <2>2 DEF Drop, Readers, Writers, Holders
    <3>2. /\ mode[t] = "read" => t \in Readers /\ Writers = {} /\ word[Lock].cnt = Cardinality(Readers)
          /\ mode[t] = "read" => word[Lock].cnt > 0 /\ word[Lock].cnt < Full
          /\ mode[t] = "write" => Writers = {t} /\ Readers = {} /\ word[Lock].cnt = Full
      BY <1>7, HolderCounts DEF Drop
    <3>3. mode[t] = "read" => Cardinality(Readers') = word[Lock].cnt - 1
      BY <1>r, <3>1, <3>2, OneLess
    <3>4. mode[t] = "read" => word'[Lock].cnt = word[Lock].cnt - 1
      <4>1. CASE word[Lock].cnt \notin {1, Full}
        BY <1>7, <2>2, <4>1 DEF Drop, Store
      <4>2. CASE word[Lock].cnt \in {1, Full}
        BY <1>7, <2>2, <3>2, <4>2, <1>f DEF Drop, Store
      <4> QED
        BY <4>1, <4>2
    <3>5. CASE mode[t] = "read"
      BY <1>f, <3>1, <3>2, <3>3, <3>4, <3>5 DEF Held
    <3>6. CASE mode[t] = "write"
      <4>1. word'[Lock].cnt = 0
        BY <1>7, <2>2, <3>2, <3>6 DEF Drop, Store
      <4>2. Readers' = {} /\ Writers' = {}
        BY <3>1, <3>2, <3>6
      <4> QED
        BY <1>f, <4>1, <4>2, FS_EmptySet DEF Held
    <3> QED
      BY <3>5, <3>6
  <2> QED
    BY <2>1, <2>2
<1> QED
  BY <1>1, <1>2, <1>3, <1>4, <1>5, <1>6, <1>7 DEF Step

-----------------------------------------------------------------------------
(* The flag is cleared only by one who leaves nobody behind at the lock.      *)
LEMMA LeaversKnowKept ==
  ASSUME Assumed, Shape, Fits, WaitersExact, Held, LeaversKnow, NEW t \in Callers,
         Call(t) \/ TimeOut(t) \/ Stray(t) \/ Step(t)
  PROVE  LeaversKnow'
<1> USE LockIsNotAwake DEF Shape, At, Go
<1>f. Full \in Nat /\ Full > 2 /\ word[Lock].cnt \in Nat
  BY DEF Assumed, RwLockAssumption
(* Nobody comes to drop, nobody falls asleep and the flag stays.              *)
<1>0. ASSUME \A u \in Callers : pc'[u] = "drop" => pc[u] = "drop" /\ loc'[u] = loc[u],
             Sleepers(Lock)' \subseteq Sleepers(Lock), word[Lock].flag => word'[Lock].flag
      PROVE  LeaversKnow'
  BY <1>0 DEF LeaversKnow
<1>n. ASSUME \A u \in Callers : pc'[u] # "drop"
      PROVE  LeaversKnow'
  BY <1>n DEF LeaversKnow
<1>1. CASE Call(t) \/ TimeOut(t) \/ Stray(t) \/ Count(t) \/ Uncount(t)
  <2>1. \A u \in Callers : pc'[u] = "drop" => pc[u] = "drop" /\ loc'[u] = loc[u]
    BY <1>1, <1>f DEF Call, TimeOut, Stray, Count, Uncount
  <2>2. Sleepers(Lock)' \subseteq Sleepers(Lock) /\ word' = word
    BY <1>1 DEF Call, TimeOut, Stray, Count, Uncount, Stir, Rouse, Sleepers
  <2> QED
    BY <1>0, <2>1, <2>2
<1>2. CASE Read(t) \/ Unlock(t)
  <2>1. \A u \in Callers : pc'[u] = "drop" => pc[u] = "drop" /\ loc'[u] = loc[u]
    BY <1>2 DEF Read, Unlock, Saw
  <2>2. Sleepers(Lock)' \subseteq Sleepers(Lock) /\ word' = word
    BY <1>2 DEF Read, Unlock, Sleepers
  <2> QED
    BY <1>0, <2>1, <2>2
<1>3. CASE Enter(t) \/ Mark(t)
  <2>1. \A u \in Callers : pc'[u] = "drop" => pc[u] = "drop" /\ loc'[u] = loc[u]
    BY <1>3 DEF Enter, Mark, Forget
  <2>2. Sleepers(Lock)' \subseteq Sleepers(Lock)
    BY <1>3 DEF Enter, Mark, Sleepers
  <2>3. word[Lock].flag => word'[Lock].flag
    <3>1. CASE Enter(t)
      <4>1. CASE word[Lock] = loc[t].val
        BY <3>1, <4>1 DEF Enter, Store
      <4>2. CASE word[Lock] # loc[t].val
        BY <3>1, <4>2 DEF Enter
      <4> QED
        BY <4>1, <4>2
    <3>2. CASE Mark(t)
      BY <3>2 DEF Mark, Marked, Store
    <3> QED
      BY <1>3, <3>1, <3>2
  <2> QED
    BY <1>0, <2>1, <2>2, <2>3
<1>4. CASE Wake(t)
  <2>1. \A u \in Callers : pc'[u] = "drop" => pc[u] = "drop" /\ loc'[u] = loc[u]
    BY <1>4 DEF Wake, Forget
  <2>2. Sleepers(Lock)' \subseteq Sleepers(Lock) /\ word' = word
    BY <1>4 DEF Wake, FutexWake, FutexWakeAll, Rouse, Sleepers
  <2> QED
    BY <1>0, <2>1, <2>2
<1>5. CASE Write(t)
  <2>1. CASE word[Lock] = Free
    <3>1. \A u \in Callers : pc[u] # "drop"
      BY <1>f, <2>1, HolderCounts
    <3> QED
      BY <1>5, <1>n, <2>1, <3>1 DEF Write
  <2>2. CASE word[Lock] # Free
    <3>1. \A u \in Callers : pc'[u] = "drop" => pc[u] = "drop" /\ loc'[u] = loc[u]
      BY <1>5, <2>2 DEF Write, Saw
    <3>2. Sleepers(Lock)' \subseteq Sleepers(Lock) /\ word' = word
      BY <1>5, <2>2 DEF Write, Sleepers
    <3> QED
      BY <1>0, <3>1, <3>2
  <2> QED
    BY <2>1, <2>2
<1>6. CASE Doze(t)
  <2>1. CASE word[Lock] = Marked(t)
    <3>1. word'[Lock].flag
      BY <1>6, <2>1 DEF Doze, Marked
    <3> QED
      BY <3>1 DEF LeaversKnow
  <2>2. CASE word[Lock] # Marked(t)
    <3>1. \A u \in Callers : pc'[u] = "drop" => pc[u] = "drop" /\ loc'[u] = loc[u]
      BY <1>6 DEF Doze, Forget
    <3>2. Sleepers(Lock)' \subseteq Sleepers(Lock) /\ word' = word
      BY <1>6, <2>2 DEF Doze, FutexWait, Sleepers
    <3> QED
      BY <1>0, <3>1, <3>2
  <2> QED
    BY <2>1, <2>2
<1>7. CASE Ask(t)
  <2>1. word' = word /\ asleep' = asleep /\ Sleepers(Lock)' = Sleepers(Lock)
    BY <1>7 DEF Ask, Sleepers
  <2>2. \A u \in Callers : u # t /\ pc'[u] = "drop" => pc[u] = "drop" /\ loc'[u] = loc[u]
    BY <1>7 DEF Ask
  <2>3. loc'[t].busy = waiters
    BY <1>7 DEF Ask
  <2> QED
    BY <2>1, <2>2, <2>3, SleepersCounted DEF LeaversKnow
<1>8. CASE Drop(t)
  <2>1. CASE word[Lock] # loc[t].val \/ word[Lock].cnt \notin {1, Full}
    <3>1. \A u \in Callers : pc'[u] = "drop" => pc[u] = "drop" /\ loc'[u] = loc[u]
      BY <1>8, <2>1 DEF Drop, Forget
    <3>2. Sleepers(Lock)' \subseteq Sleepers(Lock)
      BY <1>8 DEF Drop, Sleepers
    <3>3. word[Lock].flag => word'[Lock].flag
      <4>1. CASE word[Lock] # loc[t].val
        BY <1>8, <4>1 DEF Drop
      <4>2. CASE word[Lock] = loc[t].val
        BY <1>8, <2>1, <4>2 DEF Drop, Store
      <4> QED
        BY <4>1, <4>2
    <3> QED
      BY <1>0, <3>1, <3>2, <3>3
  <2>2. CASE word[Lock] = loc[t].val /\ word[Lock].cnt \in {1, Full}
    <3>1. \A u \in Callers : pc[u] = "drop" => u = t
      BY <1>8, <1>f, <2>2, OnlyHolder DEF Drop
    <3>2. pc'[t] # "drop" /\ \A u \in Callers : u # t => pc'[u] = pc[u]
      BY <1>8, <2>2 DEF Drop
    <3> QED
      BY <1>n, <3>1, <3>2
  <2> QED
    BY <2>1, <2>2
<1> QED
  BY <1>1, <1>2, <1>3, <1>4, <1>5, <1>6, <1>7, <1>8 DEF Step

-----------------------------------------------------------------------------
(* Who frees the lock while somebody sleeps goes on to wake, and who is woken *)
(* looks at the lock again.                                                   *)
LEMMA SomeoneAlertKept ==
  ASSUME Assumed, Shape, Fits, WaitersExact, Held, LeaversKnow, SomeoneAlert,
         NEW t \in Callers, Call(t) \/ TimeOut(t) \/ Stray(t) \/ Step(t)
  PROVE  SomeoneAlert'
<1> USE LockIsNotAwake DEF Shape, At, Go
<1>f. Full \in Nat /\ Full > 2 /\ word[Lock].cnt \in Nat
  BY DEF Assumed, RwLockAssumption
<1>t. ASSUME Alert(t)'
      PROVE  SomeoneAlert'
  BY <1>t DEF SomeoneAlert
<1>h. ASSUME word'[Lock].cnt # 0
      PROVE  SomeoneAlert'
  BY <1>h DEF SomeoneAlert
<1>1. CASE Call(t) \/ Count(t) \/ Mark(t) \/ Stray(t)
  BY <1>1, <1>t DEF Call, Count, Mark, Stray, Stir, Rouse, Alert
<1>2. CASE Read(t)
  <2>1. CASE word[Lock].cnt = Full - 1
    BY <1>2, <1>f, <1>h, <2>1 DEF Read
  <2>2. CASE word[Lock].cnt # Full - 1
    BY <1>2, <1>t, <2>2 DEF Read, Alert
  <2> QED
    BY <2>1, <2>2
<1>3. CASE Enter(t)
  <2>1. CASE word[Lock] = loc[t].val
    BY <1>3, <1>f, <1>h, <2>1 DEF Enter, Store
  <2>2. CASE word[Lock] # loc[t].val
    BY <1>3, <1>t, <2>2 DEF Enter, Alert
  <2> QED
    BY <2>1, <2>2
<1>4. CASE Write(t)
  <2>1. CASE word[Lock] = Free
    BY <1>4, <1>f, <1>h, <2>1 DEF Write, Store
  <2>2. CASE word[Lock] # Free
    BY <1>4, <1>t, <2>2 DEF Write, Alert
  <2> QED
    BY <2>1, <2>2
<1>5. CASE Doze(t)
  <2>1. CASE word[Lock] = Marked(t)
    BY <1>5, <1>h, <2>1 DEF Doze, Marked, Fits
  <2>2. CASE word[Lock] # Marked(t)
    BY <1>5, <1>t, <2>2 DEF Doze, FutexWait, Alert
  <2> QED
    BY <2>1, <2>2
<1>6. CASE TimeOut(t)
  <2>1. asleep[t] = Lock /\ word' = word
    BY <1>6 DEF TimeOut, Stir
  <2>2. \A u \in Callers : Alert(u) => Alert(u)'
    BY <1>6, <2>1 DEF TimeOut, Stir, Rouse, Alert
  <2>3. Sleepers(Lock) # {}
    BY <2>1 DEF Sleepers
  <2> QED
    BY <2>1, <2>2, <2>3 DEF SomeoneAlert
<1>7. CASE Uncount(t)
  <2>1. CASE pc[t] = "uncount"
    BY <1>7, <1>t, <2>1 DEF Uncount, Alert
  <2>2. CASE pc[t] = "giveUp"
    <3>1. \A u \in Callers : Alert(u) => Alert(u)'
      BY <1>7, <2>2 DEF Uncount, Alert
    <3>2. word' = word /\ Sleepers(Lock)' = Sleepers(Lock)
      BY <1>7 DEF Uncount, Sleepers
    <3> QED
      BY <3>1, <3>2 DEF SomeoneAlert
  <2> QED
    BY <1>7, <2>1, <2>2 DEF Uncount
<1>8. CASE Unlock(t) \/ Ask(t)
  <2>1. word[Lock].cnt > 0 /\ word' = word
    BY <1>8, HolderCounts DEF Unlock, Ask
  <2> QED
    BY <1>f, <1>h, <2>1
<1>9. CASE Drop(t)
  <2>0. word[Lock].cnt > 0
    BY <1>9, HolderCounts DEF Drop
  <2>1. CASE word[Lock] # loc[t].val
    BY <1>9, <1>h, <2>0, <2>1 DEF Drop
  <2>2. CASE word[Lock] = loc[t].val /\ word[Lock].cnt \notin {1, Full}
    <3>1. word'[Lock].cnt = word[Lock].cnt - 1
      BY <1>9, <2>2 DEF Drop, Store
    <3> QED
      BY <1>f, <1>h, <2>0, <2>2, <3>1
  <2>3. CASE word[Lock] = loc[t].val /\ word[Lock].cnt \in {1, Full}
    <3>1. CASE word[Lock].flag \/ loc[t].busy > 0
      <4>1. Alert(t)'
        BY <1>9, <2>3, <3>1 DEF Drop, Alert
      <4> QED
        BY <1>t, <4>1
    <3>2. CASE ~ word[Lock].flag /\ ~ (loc[t].busy > 0)
      <4>1. loc[t].busy = 0
        BY <3>2
      <4>2. Sleepers(Lock) = {}
        BY <1>9, <3>2, <4>1 DEF Drop, LeaversKnow
      <4>3. Sleepers(Lock)' = {}
        BY <1>9, <4>2 DEF Drop, Sleepers
      <4> QED
        BY <4>3 DEF SomeoneAlert
    <3> QED
      BY <3>1, <3>2
  <2> QED
    BY <2>1, <2>2, <2>3
<1>10. CASE Wake(t)
  <2>1. CASE Sleepers(Lock) = {}
    <3>1. Sleepers(Lock)' = {}
      BY <1>10, <2>1 DEF Wake, FutexWake, FutexWakeAll, Sleepers
    <3> QED
      BY <3>1 DEF SomeoneAlert
  <2>2. CASE loc[t].val.cnt = Full
    <3>1. Sleepers(Lock)' = {}
      BY <1>10, <2>2 DEF Wake, FutexWakeAll, Sleepers
    <3> QED
      BY <3>1 DEF SomeoneAlert
  <2>3. CASE Sleepers(Lock) # {} /\ loc[t].val.cnt # Full
    <3>1. PICK u \in Sleepers(Lock) : Rouse(u)
      BY <1>10, <2>3 DEF Wake, FutexWake
    <3>2. u \in Callers /\ u # t /\ pc[u] = "uncount"
      BY <1>10, <3>1 DEF Wake, Sleepers, Fits
    <3>3. Alert(u)'
      BY <1>10, <3>1, <3>2 DEF Wake, Rouse, Alert
    <3> QED
      BY <3>2, <3>3 DEF SomeoneAlert
  <2> QED
    BY <2>1, <2>2, <2>3
<1> QED
  BY <1>1, <1>2, <1>3, <1>4, <1>5, <1>6, <1>7, <1>8, <1>9, <1>10 DEF Step

-----------------------------------------------------------------------------
LEMMA InitHolds == ASSUME Assumed, Init PROVE IInv
<1> USE DEF Init
<1>1. Full \in Nat /\ Full > 2
  BY DEF Assumed, RwLockAssumption
<1>2. Shape
  BY <1>1, LockIsNotAwake DEF Shape, NoLoc
<1>3. Fits
  BY LockIsNotAwake DEF Fits
<1>4. Counted = {} /\ Readers = {} /\ Writers = {} /\ Sleepers(Lock) = {}
  BY LockIsNotAwake DEF Counted, Readers, Writers, Holders, Sleepers
<1>5. WaitersExact
  BY <1>4, FS_EmptySet DEF WaitersExact
<1>6. Held
  BY <1>1, <1>4, FS_EmptySet DEF Held
<1>7. LeaversKnow /\ SomeoneAlert
  BY <1>4 DEF LeaversKnow, SomeoneAlert
<1> QED
  BY <1>2, <1>3, <1>5, <1>6, <1>7 DEF IInv

LEMMA StepKeeps == ASSUME Assumed, IInv, [Next]_vars PROVE IInv'
<1>1. ASSUME NEW t \in Callers, Call(t) \/ TimeOut(t) \/ Stray(t) \/ Step(t)
      PROVE  IInv'
  BY <1>1, ShapeKept, WaitersKept, HeldKept, LeaversKnowKept, SomeoneAlertKept DEF IInv
<1>2. CASE UNCHANGED vars
  BY <1>2 DEF vars, IInv, Shape, Fits, WaitersExact, Counted, Held, Readers, Writers, Holders,
              LeaversKnow, SomeoneAlert, Alert, Sleepers
<1> QED
  BY <1>1, <1>2 DEF Next

LEMMA Invariance ==
  ASSUME Assumed
  PROVE  Spec => []IInv
<1>1. Init => IInv
  BY InitHolds
<1>2. IInv /\ [Next]_vars => IInv'
  BY StepKeeps
<1> QED
  BY <1>1, <1>2, PTL DEF Spec

-----------------------------------------------------------------------------
(* The word is a number of readers or Full, and no more threads are counted   *)
(* as waiting than there are.                                                 *)
THEOREM LockTypes ==
  ASSUME FutexAssumption, RwLockAssumption, IsFiniteSet(Callers)
  PROVE  Spec => []TypeOK
<1> USE DEF Assumed
<1>1. IInv => TypeOK
  <2> SUFFICES ASSUME IInv
               PROVE  TypeOK
    OBVIOUS
  <2>1. Cardinality(Counted) \in 0 .. Cardinality(Callers)
    BY FS_Subset, FS_CardinalityType DEF Counted, Assumed
  <2> QED
    BY <2>1 DEF TypeOK, IInv, Shape, WaitersExact
<1> QED
  BY <1>1, Invariance, PTL

(* A writer has the lock alone, and the word says exactly who has it: what    *)
(* compare and swap of the whole word is to ensure, whoever marks it, gives   *)
(* up or comes late in between.                                               *)
THEOREM WritersExcludeAll ==
  ASSUME FutexAssumption, RwLockAssumption, IsFiniteSet(Callers)
  PROVE  Spec => [](Exclusive /\ WritersAlone)
<1> USE DEF Assumed
<1>1. IInv => Exclusive /\ WritersAlone
  <2> SUFFICES ASSUME IInv
               PROVE  Exclusive /\ WritersAlone
    OBVIOUS
  <2>1. CASE Writers = {}
    BY <2>1 DEF IInv, Held, Exclusive, WritersAlone, Readers, Writers
  <2>2. CASE Writers # {}
    <3>1. PICK w \in Callers : Writers = {w} /\ Readers = {} /\ word[Lock].cnt = Full
      BY <2>2 DEF IInv, Held
    <3>2. Cardinality({w}) = 1
      BY FS_Singleton
    <3> QED
      BY <3>1, <3>2 DEF Exclusive, WritersAlone, Readers, Writers
  <2> QED
    BY <2>1, <2>2
<1> QED
  BY <1>1, Invariance, PTL

(* When all who are awake have come back, nobody sleeps at the lock: a thread *)
(* that left while others slept has woken one who looks at it again.          *)
THEOREM NobodyLeftAsleep ==
  ASSUME FutexAssumption, RwLockAssumption, IsFiniteSet(Callers)
  PROVE  Spec => []NoneForgotten
<1> USE DEF Assumed
<1>1. IInv => NoneForgotten
  <2> SUFFICES ASSUME IInv, Sleepers(Lock) # {},
                      \A t \in Callers : asleep[t] # Awake \/ pc[t] = "start"
               PROVE  FALSE
    BY DEF NoneForgotten
  <2> USE DEF IInv, Shape
  <2>1. word[Lock].cnt # 0
    BY DEF SomeoneAlert, Alert
  <2>2. PICK t \in Callers : t \in Readers \cup Writers
    <3>1. CASE Writers = {}
      <4>1. Cardinality(Readers) # 0
        BY <2>1, <3>1 DEF Held
      <4> QED
        BY <4>1, FS_EmptySet DEF Readers, Holders
    <3>2. CASE Writers # {}
      BY <3>2 DEF Writers, Holders
    <3> QED
      BY <3>1, <3>2
  <2>3. pc[t] \in {"holds", "ask", "drop"}
    BY <2>2 DEF Readers, Writers, Holders
  <2> QED
    BY <2>3, LockIsNotAwake DEF Fits
<1> QED
  BY <1>1, Invariance, PTL
=============================================================================
