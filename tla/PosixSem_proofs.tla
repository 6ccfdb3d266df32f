--------------------------- MODULE PosixSem_proofs ---------------------------
(* Permits of the semaphores of musl: none is lost or made, for any number of *)
(* threads and calls, and none is left for a sleeper to miss, but by a post   *)
(* that overlaps another.                                                     *)
EXTENDS PosixSem, FiniteSetTheorems, TLAPS

Labels == {"start", "try", "peek", "take", "count", "mark", "doze", "uncount", "giveUp",
           "read", "ask", "add", "wake"}
Values == -1 .. ValueMax
Locals == [val : Values, new : Values, busy : Nat]

Shape ==
    /\ word \in [{Val} -> Values]
    /\ asleep \in [Callers -> {Val, Awake}] /\ kernel = TRUE
    /\ pc \in [Callers -> Labels]
    /\ loc \in [Callers -> Locals]
    /\ taken \in Nat /\ posted \in Nat /\ given \in Nat /\ missed \in BOOLEAN

(* What a call has seen, where it is.                                         *)
Fits ==
    \A t \in Callers :
        /\ asleep[t] = Val => pc[t] = "uncount"
        /\ pc[t] = "peek" => loc[t].val = 1
        /\ pc[t] = "take" =>
              /\ loc[t].val > 0
              /\ loc[t].new \in {-1, loc[t].val - 1}
              /\ loc[t].new = -1 => loc[t].val = 1
        /\ pc[t] = "add" => loc[t].val < ValueMax
        /\ pc[t] \in {"try", "peek", "take", "count", "mark", "doze", "uncount", "giveUp"}
              => t \in Takers
        /\ pc[t] \in {"read", "ask", "add", "wake"} => t \notin Takers

(* sem->__val[1] counts those who are about to sleep, sleep or have slept.    *)
Counted == {t \in Callers : pc[t] \in {"mark", "doze", "uncount", "giveUp"}}
WaitersExact == waiters = Cardinality(Counted)

(* Threads that will look at the semaphore again, or wake one that sleeps.    *)
(* One that goes away with the last permit and knows of nobody is none.       *)
Alert(t) ==
    /\ asleep[t] = Awake
    /\ pc[t] \in {"try", "peek", "take", "count", "mark", "doze", "uncount", "wake"}
    /\ pc[t] = "take" => loc[t].new # 0
Alerts == {t \in Callers : Alert(t)}

(* While somebody sleeps and the value does not say so, there are as many of  *)
(* them as there are permits, and one if there is none.                       *)
Enough ==
    ~ missed /\ Sleepers(Val) # {} /\ word[Val] >= 0
        => Cardinality(Alerts) >= word[Val] /\ Cardinality(Alerts) >= 1

IInv == Shape /\ Fits /\ WaitersExact /\ PermitsConserved /\ Enough

Assumed == FutexAssumption /\ PosixSemAssumption /\ IsFiniteSet(Callers)

USE DEF Values, Labels, Locals

-----------------------------------------------------------------------------
(* The two addresses are not one.                                             *)
LEMMA ValIsNotAwake == Val # Awake
BY DEF Val, Awake, The

LEMMA WaitersCount ==
  ASSUME Assumed, WaitersExact
  PROVE  waiters \in Nat
<1>1. IsFiniteSet(Counted)
  BY FS_Subset DEF Assumed, Counted
<1> QED
  BY <1>1, FS_CardinalityType DEF WaitersExact

(* Types, and where a thread is when it sleeps.                               *)
LEMMA ShapeKept ==
  ASSUME Assumed, Shape, Fits, WaitersExact, NEW t \in Callers,
         Await(t) \/ Post(t) \/ TimeOut(t) \/ Stray(t) \/ Step(t)
  PROVE  Shape' /\ Fits'
<1> DEFINE v == word[Val]
<1>t. /\ v \in Values /\ ValueMax \in Nat \ {0} /\ waiters \in Nat
      /\ loc[t].val \in Values /\ loc[t].new \in Values /\ loc[t].busy \in Nat
      /\ NoLoc \in Locals
      /\ \A l \in Locals :
            [loc EXCEPT ![t] = l] \in [Callers -> Locals]
  BY WaitersCount DEF Shape, Assumed, PosixSemAssumption, NoLoc, Seen
<1>l. loc[t] \in Locals /\ loc = [loc EXCEPT ![t] = loc[t]]
  BY DEF Shape
<1> USE ValIsNotAwake DEF Shape, Fits, At, Go, ghosts, Posters
<1>1. CASE Await(t)
  BY <1>1 DEF Await
<1>2. CASE Try(t)
  <2>1. \E l \in Locals : loc' = [loc EXCEPT ![t] = l]
    <3>1. CASE v <= 0
      BY <1>2, <3>1, <1>l DEF Try
    <3>2. CASE ~ (v <= 0)
      <4>1. Seen(v, v - 1, 0) \in Locals
        BY <1>t, <3>2 DEF Seen
      <4> QED
        BY <1>2, <3>2, <4>1 DEF Try, Local
    <3> QED
      BY <3>1, <3>2
  <2>2. word' \in [{Val} -> Values]
    BY <1>2, <1>t DEF Try, Store
  <2>3. Shape'
    BY <1>2, <1>t, <2>1, <2>2 DEF Try
  <2>4. Fits'
    BY <1>2, <1>t DEF Try, Local, NoLoc, Seen
  <2> QED
    BY <2>3, <2>4
<1>3. CASE Peek(t)
  <2>1. \E l \in Locals : loc' = [loc EXCEPT ![t] = l]
    <3>1. \A n \in {-1, 0} : Seen(loc[t].val, n, 0) \in Locals
      BY <1>t DEF Seen
    <3> QED
      BY <1>3, <3>1 DEF Peek, Local
  <2>2. word' \in [{Val} -> Values]
    BY <1>3, <1>t DEF Peek, Store
  <2>3. Shape'
    BY <1>3, <1>t, <2>1, <2>2 DEF Peek
  <2>4. Fits'
    BY <1>3, <1>t DEF Peek, Local, NoLoc, Seen
  <2> QED
    BY <2>3, <2>4
<1>4. CASE Take(t)
  <2>1. \E l \in Locals : loc' = [loc EXCEPT ![t] = l]
    BY <1>4, <1>t DEF Take, Local, NoLoc, Seen
  <2>2. word' \in [{Val} -> Values]
    BY <1>4, <1>t DEF Take, Store
  <2>3. Shape'
    <3>1. pc' \in [Callers -> Labels] /\ taken' \in Nat
      BY <1>4 DEF Take
    <3>2. UNCHANGED <<asleep, kernel, posted, given, missed>>
      BY <1>4 DEF Take
    <3>3. loc' \in [Callers -> Locals]
      BY <2>1, <1>t
    <3> HIDE DEF Fits, Locals, Labels
    <3> QED
      BY <2>2, <3>1, <3>2, <3>3
  <2>4. Fits'
    BY <1>4, <1>t DEF Take, Local, NoLoc, Seen
  <2> QED
    BY <2>3, <2>4
<1>5. CASE Count(t)
  BY <1>5 DEF Count
<1>6. CASE Mark(t)
  <2>1. \E l \in Locals : loc' = [loc EXCEPT ![t] = l]
    BY <1>6, <1>t DEF Mark, Local, NoLoc, Seen
  <2>2. word' \in [{Val} -> Values]
    BY <1>6, <1>t DEF Mark, Store
  <2>3. Shape'
    BY <1>6, <1>t, <2>1, <2>2 DEF Mark
  <2>4. Fits'
    BY <1>6, <1>t DEF Mark, Local, NoLoc, Seen
  <2> QED
    BY <2>3, <2>4
<1>7. CASE Doze(t)
  BY <1>7 DEF Doze, FutexWait
<1>8. CASE Uncount(t)
  BY <1>8 DEF Uncount
<1>9. CASE TimeOut(t)
  BY <1>9 DEF TimeOut, Stir, Rouse
<1>10. CASE Stray(t)
  BY <1>10 DEF Stray, Stir, Rouse
<1>11. CASE Post(t)
  BY <1>11 DEF Post
<1>12. CASE Read(t)
  <2>1. \E l \in Locals : loc' = [loc EXCEPT ![t] = l]
    BY <1>12, <1>t DEF Read, Local, NoLoc, Seen
  <2>2. word' \in [{Val} -> Values]
    BY <1>12, <1>t DEF Read, Store
  <2>3. Shape'
    BY <1>12, <1>t, <2>1, <2>2 DEF Read
  <2>4. Fits'
    BY <1>12, <1>t DEF Read, Local, NoLoc, Seen
  <2> QED
    BY <2>3, <2>4
<1>13. CASE Ask(t)
  <2>1. \E l \in Locals : loc' = [loc EXCEPT ![t] = l]
    BY <1>13, <1>t DEF Ask, Local, NoLoc, Seen
  <2>2. word' \in [{Val} -> Values]
    BY <1>13, <1>t DEF Ask, Store
  <2>3. Shape'
    BY <1>13, <1>t, <2>1, <2>2 DEF Ask
  <2>4. Fits'
    BY <1>13, <1>t DEF Ask, Local, NoLoc, Seen
  <2> QED
    BY <2>3, <2>4
<1>14. CASE Add(t)
  <2>1. \E l \in Locals : loc' = [loc EXCEPT ![t] = l]
    BY <1>14, <1>t DEF Add, Local, NoLoc, Seen
  <2>2. word' \in [{Val} -> Values]
    BY <1>14, <1>t DEF Add, Store
  <2>3. Shape'
    <3>1. taken' \in Nat /\ posted' \in Nat /\ missed' \in BOOLEAN
      <4>1. CASE word[Val] # loc[t].val
        BY <1>14, <4>1 DEF Add
      <4>2. CASE word[Val] = loc[t].val
        <5>1. posted' = posted + 1 /\ missed' = (missed \/ Overlooks(t)) /\ taken' = taken
          BY <1>14, <4>2 DEF Add
        <5> QED
          BY <5>1
      <4> QED
        BY <4>1, <4>2
    <3>2. pc' \in [Callers -> Labels] /\ UNCHANGED <<asleep, kernel, given>>
      BY <1>14 DEF Add
    <3>3. loc' \in [Callers -> Locals]
      BY <2>1, <1>t
    <3> HIDE DEF Fits, Locals, Labels
    <3> QED
      BY <2>2, <3>1, <3>2, <3>3
  <2>4. Fits'
    BY <1>14, <1>t DEF Add, Local, NoLoc, Seen
  <2> QED
    BY <2>3, <2>4
<1>15. CASE Wake(t)
  BY <1>15 DEF Wake, FutexWake, Rouse, Sleepers
<1> QED
  BY <1>1, <1>2, <1>3, <1>4, <1>5, <1>6, <1>7, <1>8, <1>9, <1>10, <1>11, <1>12, <1>13, <1>14, <1>15 DEF Step

-----------------------------------------------------------------------------
(* Sizes of the sets of threads.                                              *)
LEMMA FinitePart ==
  ASSUME Assumed, NEW S, S \subseteq Callers
  PROVE  IsFiniteSet(S) /\ Cardinality(S) \in Nat
BY FS_Subset, FS_CardinalityType DEF Assumed

LEMMA PartsGrow ==
  ASSUME Assumed, NEW S, NEW T, S \subseteq T, T \subseteq Callers
  PROVE  Cardinality(S) <= Cardinality(T)
BY FinitePart, FS_Subset

LEMMA OneMore ==
  ASSUME Assumed, NEW S, S \subseteq Callers, NEW t \in Callers \ S
  PROVE  Cardinality(S \cup {t}) = Cardinality(S) + 1
BY FinitePart, FS_AddElement

LEMMA OneLess ==
  ASSUME Assumed, NEW S, S \subseteq Callers, NEW t \in S
  PROVE  Cardinality(S \ {t}) = Cardinality(S) - 1
BY FinitePart, FS_RemoveElement

(* Only the two steps that write the counter change who is counted.           *)
LEMMA WaitersKept ==
  ASSUME Assumed, Shape, Fits, WaitersExact, NEW t \in Callers,
         Await(t) \/ Post(t) \/ TimeOut(t) \/ Stray(t) \/ Step(t)
  PROVE  WaitersExact'
<1> USE DEF Shape, Go, At, WaitersExact
<1>1. CASE Count(t)
  <2>1. t \notin Counted /\ Counted' = Counted \cup {t} /\ Counted \subseteq Callers
    BY <1>1 DEF Count, Counted
  <2> QED
    BY <1>1, <2>1, OneMore DEF Count
<1>2. CASE Uncount(t)
  <2>1. t \in Counted /\ Counted' = Counted \ {t} /\ Counted \subseteq Callers
    BY <1>2 DEF Uncount, Counted
  <2> QED
    BY <1>2, <2>1, OneLess DEF Uncount
<1>3. CASE Await(t) \/ Try(t) \/ Peek(t) \/ Take(t) \/ Post(t) \/ Read(t) \/ Ask(t) \/ Add(t) \/ Wake(t)
  <2>1. Counted' = Counted /\ waiters' = waiters
    BY <1>3 DEF Await, Try, Peek, Take, Post, Read, Ask, Add, Wake, Counted, ghosts
  <2> QED
    BY <2>1
<1>4. CASE Mark(t) \/ Doze(t) \/ TimeOut(t) \/ Stray(t)
  <2>1. Counted' = Counted /\ waiters' = waiters
    BY <1>4 DEF Mark, Doze, TimeOut, Stray, Counted, ghosts
  <2> QED
    BY <2>1
<1> QED
  BY <1>1, <1>2, <1>3, <1>4 DEF Step

-----------------------------------------------------------------------------
(* A permit moves in two steps, a take and a post that succeed.               *)
LEMMA PermitsKept ==
  ASSUME Assumed, Shape, Fits, PermitsConserved, NEW t \in Callers,
         Await(t) \/ Post(t) \/ TimeOut(t) \/ Stray(t) \/ Step(t)
  PROVE  PermitsConserved'
<1>t. word[Val] \in Values /\ ValueMax \in Nat /\ loc[t].val \in Values
  BY DEF Shape, Assumed, PosixSemAssumption
<1> USE DEF PermitsConserved, ghosts
<1>1. CASE Take(t) /\ word[Val] = loc[t].val
  <2>1. /\ word'[Val] = loc[t].new /\ taken' = taken + 1 /\ posted' = posted /\ given' = given
        /\ word[Val] > 0 /\ loc[t].new \in {-1, word[Val] - 1} /\ (loc[t].new = -1 => word[Val] = 1)
    BY <1>1 DEF Take, Store, Shape, Fits, At
  <2> QED
    BY <2>1, <1>t DEF Shape
<1>2. CASE Take(t) /\ word[Val] # loc[t].val
  BY <1>2 DEF Take
<1>3. CASE Add(t) /\ word[Val] = loc[t].val
  <2>1. /\ word'[Val] = IF word[Val] < 0 THEN 1 ELSE word[Val] + 1
        /\ taken' = taken /\ posted' = posted + 1 /\ given' = given
    BY <1>3 DEF Add, Store, Shape
  <2> QED
    BY <2>1, <1>t DEF Shape
<1>4. CASE Add(t) /\ word[Val] # loc[t].val
  BY <1>4 DEF Add
<1>5. CASE Mark(t)
  <2>1. word'[Val] = word[Val] \/ (word[Val] = 0 /\ word'[Val] = -1)
    BY <1>5 DEF Mark, Store, Shape
  <2> QED
    BY <1>5, <2>1, <1>t DEF Mark
<1>6. CASE Await(t) \/ Try(t) \/ Peek(t) \/ Post(t) \/ Read(t) \/ Ask(t) \/ Wake(t)
  BY <1>6 DEF Await, Try, Peek, Post, Read, Ask, Wake
<1>7. CASE Count(t) \/ Doze(t) \/ TimeOut(t) \/ Stray(t) \/ Uncount(t)
  BY <1>7 DEF Count, Doze, TimeOut, Stray, Uncount
<1> QED
  BY <1>1, <1>2, <1>3, <1>4, <1>5, <1>6, <1>7 DEF Step

-----------------------------------------------------------------------------
(* A step keeps what is owed to sleepers if nobody falls asleep and nobody    *)
(* who is alert goes away.                                                    *)
LEMMA CalmSteps ==
  ASSUME Assumed, Enough, word'[Val] = word[Val], missed' = missed,
         Sleepers(Val)' \subseteq Sleepers(Val), Alerts \subseteq Alerts', word[Val] \in Int
  PROVE  Enough'
<1>1. Cardinality(Alerts) <= Cardinality(Alerts')
  BY PartsGrow DEF Alerts
<1>2. Cardinality(Alerts) \in Nat /\ Cardinality(Alerts') \in Nat
  BY FinitePart DEF Alerts
<1> QED
  BY <1>1, <1>2 DEF Enough

(* A sleeper is counted.                                                      *)
LEMMA SleepersCounted ==
  ASSUME Assumed, Shape, Fits, WaitersExact, waiters = 0
  PROVE  Sleepers(Val) = {}
<1>1. IsFiniteSet(Counted) /\ Counted = {}
  BY FinitePart, FS_EmptySet DEF Counted, WaitersExact
<1> QED
  BY <1>1 DEF Counted, Sleepers, Fits

LEMMA EnoughKept ==
  ASSUME Assumed, Shape, Fits, WaitersExact, Enough, NEW t \in Callers,
         Await(t) \/ Post(t) \/ TimeOut(t) \/ Stray(t) \/ Step(t)
  PROVE  Enough'
<1>v. word[Val] \in Int /\ loc[t].val \in Int /\ loc[t].new \in Int
  BY DEF Shape, Assumed, PosixSemAssumption
<1>s. Alerts \subseteq Callers /\ Alerts' \subseteq Callers
  BY DEF Alerts
<1>c. /\ Cardinality(Alerts) \in Nat /\ Cardinality(Alerts') \in Nat
      /\ \A S : S \subseteq Alerts' => Cardinality(S) <= Cardinality(Alerts')
  BY <1>s, FinitePart, PartsGrow
<1> USE ValIsNotAwake DEF Shape, At, Go
(* Nobody falls asleep, and nobody is alert no more.                          *)
<1>1. CASE Await(t) \/ Try(t) \/ Count(t) \/ Uncount(t) \/ Post(t) \/ Read(t) \/ Ask(t)
  <2>1. /\ word' = word /\ missed' = missed /\ Sleepers(Val)' = Sleepers(Val)
        /\ Alerts \subseteq Alerts'
    <3>1. CASE Await(t) \/ Count(t) \/ Uncount(t) \/ Post(t)
      BY <3>1 DEF Await, Count, Uncount, Post, Alerts, Alert, Sleepers, ghosts
    <3>2. CASE Try(t)
      <4>1. pc'[t] = "take" => loc'[t].new # 0
        <5>1. CASE word[Val] <= 0 \/ word[Val] = 1
          BY <3>2, <5>1, <1>v DEF Try
        <5>2. CASE ~ (word[Val] <= 0) /\ word[Val] # 1
          <6>1. loc'[t] = Seen(word[Val], word[Val] - 1, 0)
            BY <3>2, <5>2 DEF Try, Local
          <6> QED
            BY <6>1, <5>2, <1>v DEF Seen
        <5> QED
          BY <5>1, <5>2
      <4> QED
        BY <3>2, <4>1 DEF Try, Local, Alerts, Alert, Sleepers, ghosts
    <3>3. CASE Read(t) \/ Ask(t)
      BY <3>3 DEF Read, Ask, Local, Alerts, Alert, Sleepers, ghosts
    <3> QED
      BY <1>1, <3>1, <3>2, <3>3
  <2> QED
    BY <2>1, <1>v, CalmSteps
<1>2. CASE TimeOut(t) \/ Stray(t)
  <2>1. /\ word' = word /\ missed' = missed /\ Sleepers(Val)' \subseteq Sleepers(Val)
        /\ Alerts \subseteq Alerts'
    BY <1>2 DEF TimeOut, Stray, Stir, Rouse, Alerts, Alert, Sleepers, ghosts
  <2> QED
    BY <2>1, <1>v, CalmSteps
(* A thread that finds nobody counted finds nobody asleep.                    *)
<1>3. CASE Peek(t)
  <2>0. word' = word /\ missed' = missed /\ Sleepers(Val)' = Sleepers(Val)
    BY <1>3 DEF Peek, Sleepers, ghosts
  <2>1. CASE waiters = 0
    <3>1. Sleepers(Val)' = {}
      BY <2>0, <2>1, SleepersCounted
    <3> QED
      BY <3>1 DEF Enough
  <2>2. CASE waiters # 0
    <3>1. loc'[t].new = -1
      BY <1>3, <2>2, WaitersCount DEF Peek, Local, Seen
    <3>2. Alerts \subseteq Alerts'
      BY <1>3, <3>1 DEF Peek, Local, Alerts, Alert
    <3> QED
      BY <2>0, <3>2, <1>v, CalmSteps
  <2> QED
    BY <2>1, <2>2
(* It takes the last permit and marks, or one of several, or it took nobody   *)
(* into account and was not alert.                                            *)
<1>4. CASE Take(t)
  <2>0. missed' = missed /\ Sleepers(Val)' = Sleepers(Val)
    BY <1>4 DEF Take, Sleepers
  <2>1. CASE word[Val] # loc[t].val
    <3>1. word' = word /\ Alerts \subseteq Alerts'
      BY <1>4, <2>1 DEF Take, Local, Alerts, Alert
    <3> QED
      BY <2>0, <3>1, <1>v, CalmSteps
  <2>2. CASE word[Val] = loc[t].val
    <3>1. word'[Val] = loc[t].new /\ Alerts \ {t} \subseteq Alerts' /\ t \notin Alerts'
      BY <1>4, <2>2 DEF Take, Local, Store, Alerts, Alert
    <3>2. loc[t].new = -1 \/ loc[t].new = word[Val] - 1
      BY <1>4, <2>2 DEF Take, Fits
    <3>3. CASE loc[t].new = 0
      <4>1. t \notin Alerts /\ word[Val] = 1
        BY <1>4, <1>v, <3>2, <3>3 DEF Take, Alerts, Alert
      <4>2. Cardinality(Alerts) <= Cardinality(Alerts')
        BY <3>1, <4>1, <1>c
      <4> QED
        BY <2>0, <3>1, <3>3, <4>1, <4>2, <1>c DEF Enough
    <3>4. CASE loc[t].new = word[Val] - 1 /\ loc[t].new # 0
      <4>1. t \in Alerts /\ word[Val] > 1
        <5>1. t \in Alerts
          BY <1>4, <3>4 DEF Take, Alerts, Alert
        <5>2. loc[t].val > 0
          BY <1>4 DEF Take, Fits
        <5> QED
          BY <5>1, <5>2, <1>v, <2>2, <3>4
      <4>2. Cardinality(Alerts \ {t}) = Cardinality(Alerts) - 1
        BY <4>1, <1>s, OneLess
      <4>3. Cardinality(Alerts) - 1 <= Cardinality(Alerts')
        BY <3>1, <4>2, <1>c
      <4> QED
        BY <2>0, <3>1, <3>4, <4>1, <4>3, <1>c, <1>v DEF Enough
    <3>5. CASE loc[t].new = -1
      BY <3>1, <3>5 DEF Enough
    <3> QED
      BY <3>2, <3>3, <3>4, <3>5
  <2> QED
    BY <2>1, <2>2
(* Whoever falls asleep has seen the mark.                                    *)
<1>5. CASE Mark(t)
  <2>1. CASE word[Val] = 0
    <3>1. word'[Val] = -1
      BY <1>5, <2>1 DEF Mark, Store
    <3> QED
      BY <3>1 DEF Enough
  <2>2. CASE word[Val] # 0
    <3>1. /\ word' = word /\ missed' = missed /\ Sleepers(Val)' = Sleepers(Val)
          /\ Alerts \subseteq Alerts'
      BY <1>5, <2>2 DEF Mark, Alerts, Alert, Sleepers, ghosts
    <3> QED
      BY <3>1, <1>v, CalmSteps
  <2> QED
    BY <2>1, <2>2
<1>6. CASE Doze(t)
  <2>1. CASE word[Val] = -1
    <3>1. word'[Val] = -1
      BY <1>6, <2>1 DEF Doze
    <3> QED
      BY <3>1 DEF Enough
  <2>2. CASE word[Val] # -1
    <3>1. /\ word' = word /\ missed' = missed /\ Sleepers(Val)' = Sleepers(Val)
          /\ Alerts \subseteq Alerts'
      BY <1>6, <2>2 DEF Doze, FutexWait, Alerts, Alert, Sleepers, ghosts
    <3> QED
      BY <3>1, <1>v, CalmSteps
  <2> QED
    BY <2>1, <2>2
(* A post that adds a permit is alert, or has overlooked the sleepers.        *)
<1>7. CASE Add(t)
  <2>0. Sleepers(Val)' = Sleepers(Val) /\ t \notin Alerts
    BY <1>7 DEF Add, Sleepers, Alerts, Alert
  <2>1. CASE word[Val] # loc[t].val
    <3>1. word' = word /\ missed' = missed /\ Alerts \subseteq Alerts'
      BY <1>7, <2>1 DEF Add, Local, Alerts, Alert
    <3> QED
      BY <2>0, <3>1, <1>v, CalmSteps
  <2>2. CASE word[Val] = loc[t].val /\ Overlooks(t)
    BY <1>7, <2>2 DEF Add, Enough
  <2>3. CASE word[Val] = loc[t].val /\ ~ Overlooks(t)
    <3>1. /\ word'[Val] = IF word[Val] < 0 THEN 1 ELSE word[Val] + 1
          /\ missed' = missed
      BY <1>7, <2>3 DEF Add, Store
    <3>2. CASE Sleepers(Val) = {}
      BY <2>0, <3>2 DEF Enough
    <3>3. CASE Sleepers(Val) # {}
      <4>1. Alerts \cup {t} \subseteq Alerts'
        BY <1>7, <1>v, <2>3, <3>3 DEF Add, Overlooks, Local, Alerts, Alert
      <4>2. Cardinality(Alerts) + 1 <= Cardinality(Alerts')
        <5>1. Cardinality(Alerts \cup {t}) = Cardinality(Alerts) + 1
          BY <2>0, <1>s, OneMore
        <5>2. Cardinality(Alerts \cup {t}) <= Cardinality(Alerts')
          BY <4>1, <1>c
        <5> HIDE DEF Shape
        <5> QED BY <5>1, <5>2
      <4> QED
        BY <3>1, <3>3, <4>2, <1>c, <1>v DEF Enough
    <3> QED
      BY <3>2, <3>3
  <2> QED
    BY <2>1, <2>2, <2>3
(* A thread that wakes another hands its place on.                            *)
<1>8. CASE Wake(t)
  <2>0. word' = word /\ missed' = missed
    BY <1>8 DEF Wake, ghosts
  <2>1. CASE Sleepers(Val) = {}
    <3>1. Sleepers(Val)' = {}
      BY <1>8, <2>1 DEF Wake, FutexWake, Sleepers
    <3> QED
      BY <3>1 DEF Enough
  <2>2. CASE Sleepers(Val) # {}
    <3>1. PICK s \in Sleepers(Val) : Rouse(s)
      BY <1>8, <2>2 DEF Wake, FutexWake
    <3>2. /\ s \in Callers \ Alerts /\ s # t /\ t \in Alerts
          /\ (Alerts \ {t}) \cup {s} \subseteq Alerts'
      BY <1>8, <3>1 DEF Wake, Rouse, Sleepers, Alerts, Alert, Fits
    <3>3. Cardinality(Alerts \ {t}) = Cardinality(Alerts) - 1
      BY <3>2, <1>s, OneLess
    <3>4. Cardinality((Alerts \ {t}) \cup {s}) = Cardinality(Alerts \ {t}) + 1
      BY <3>2, <1>s, OneMore
    <3>5. Cardinality(Alerts) <= Cardinality(Alerts')
      BY <3>2, <3>3, <3>4, <1>c
    <3> QED
      BY <2>0, <2>2, <3>5, <1>c, <1>v DEF Enough
  <2> QED
    BY <2>1, <2>2
<1> QED
  BY <1>1, <1>2, <1>3, <1>4, <1>5, <1>6, <1>7, <1>8 DEF Step

-----------------------------------------------------------------------------
LEMMA InitHolds ==
  ASSUME Assumed, Init
  PROVE  IInv
<1>1. word \in [{Val} -> Values] /\ word[Val] = given /\ given \in Nat /\ given \in Values
  BY DEF Init, Assumed, PosixSemAssumption
<1>2. Shape /\ Fits
  <2>1. NoLoc \in Locals
    BY DEF NoLoc, Seen, Assumed, PosixSemAssumption
  <2>2. Shape
    BY <1>1, <2>1 DEF Init, Shape
  <2>3. Fits
    BY ValIsNotAwake DEF Init, Fits
  <2> QED
    BY <2>2, <2>3
<1>3. WaitersExact
  <2>1. Counted = {}
    BY DEF Init, Counted
  <2> QED
    BY <2>1, FS_EmptySet DEF Init, WaitersExact
<1>4. PermitsConserved
  BY <1>1 DEF Init, PermitsConserved
<1>5. Sleepers(Val) = {}
  BY ValIsNotAwake DEF Init, Sleepers
<1> QED
  BY <1>2, <1>3, <1>4, <1>5 DEF IInv, Enough

LEMMA StepHolds ==
  ASSUME Assumed, IInv, [Next]_vars
  PROVE  IInv'
<1>1. CASE Next
  <2>1. PICK t \in Callers : Await(t) \/ Post(t) \/ TimeOut(t) \/ Stray(t) \/ Step(t)
    BY <1>1 DEF Next
  <2> QED
    BY <2>1, ShapeKept, WaitersKept, PermitsKept, EnoughKept DEF IInv
<1>2. CASE UNCHANGED vars
  BY <1>2 DEF vars, ghosts, IInv, Shape, Fits, WaitersExact, Counted, PermitsConserved,
       Enough, Alerts, Alert, Sleepers
<1> QED
  BY <1>1, <1>2

LEMMA Invariance ==
  ASSUME Assumed
  PROVE  Spec => []IInv
<1>1. Init => IInv
  BY InitHolds
<1>2. IInv /\ [Next]_vars => IInv'
  BY StepHolds
<1> QED
  BY <1>1, <1>2, PTL DEF Spec

(* The value and the count of waiters keep their ranges: the value is never   *)
(* above SEM_VALUE_MAX nor below -1, and nobody is counted twice or for ever. *)
THEOREM SemTypes ==
  ASSUME FutexAssumption, PosixSemAssumption, IsFiniteSet(Callers)
  PROVE  Spec => []TypeOK
<1> USE DEF Assumed
<1>1. IInv => TypeOK
  <2> SUFFICES ASSUME IInv PROVE TypeOK
    OBVIOUS
  <2>1. waiters \in 0 .. Cardinality(Takers)
    <3>1. Counted \subseteq Takers /\ Takers \subseteq Callers
      BY DEF IInv, Fits, Counted, PosixSemAssumption
    <3>2. Cardinality(Counted) <= Cardinality(Takers) /\ Cardinality(Counted) \in Nat
          /\ Cardinality(Takers) \in Nat
      BY <3>1, PartsGrow, FinitePart
    <3> QED
      BY <3>2 DEF IInv, WaitersExact
  <2> QED
    BY <2>1 DEF IInv, Shape, TypeOK
<1> QED
  BY <1>1, Invariance, PTL

(* Each permit is one that sem_init gave or that a post added, and one wait   *)
(* takes it, for any number of threads and calls in any order.                *)
THEOREM PermitsKeptAlways ==
  ASSUME FutexAssumption, PosixSemAssumption, IsFiniteSet(Callers)
  PROVE  Spec => []PermitsConserved
<1>1. IInv => PermitsConserved
  BY DEF IInv
<1> QED
  BY <1>1, Invariance, PTL DEF Assumed

(* No thread sleeps on a permit that is there, once those who are awake have  *)
(* come back, but through a post that overlooked it.                          *)
THEOREM NoneForgotten ==
  ASSUME FutexAssumption, PosixSemAssumption, IsFiniteSet(Callers)
  PROVE  Spec => []NoPermitForgotten
<1> USE DEF Assumed
<1>1. IInv => NoPermitForgotten
  <2> SUFFICES ASSUME IInv, \A t \in Callers : asleep[t] # Awake \/ pc[t] = "start",
                      ~ missed, Sleepers(Val) # {}, ~ (word[Val] < 0)
               PROVE  FALSE
    BY DEF NoPermitForgotten
  <2>1. Alerts = {}
    BY DEF Alerts, Alert
  <2>2. word[Val] \in Int
    BY DEF IInv, Shape, PosixSemAssumption
  <2> QED
    BY <2>1, <2>2, FS_EmptySet DEF IInv, Enough
<1> QED
  BY <1>1, Invariance, PTL

-----------------------------------------------------------------------------
(* While a post is under way and no other is, the value does not rise: if it  *)
(* is what it was when nobody was counted, nobody sleeps.                     *)
Unseen ==
    /\ ~ missed
    /\ \A t \in Posters : pc[t] = "add" /\ loc[t].busy = 0 /\ loc[t].val >= 0
          => Sleepers(Val) = {} \/ word[Val] < loc[t].val
LEMMA UnseenKept ==
  ASSUME Assumed, IInv, Unseen, \A p, q \in Posters : p = q, [Next]_vars
  PROVE  Unseen'
<1> USE ValIsNotAwake DEF Unseen, Posters, IInv, Shape, Fits, At, Go
<1>1. CASE UNCHANGED vars
  BY <1>1 DEF vars, ghosts, Sleepers
<1>2. CASE Next
  <2>1. PICK t \in Callers : Await(t) \/ Post(t) \/ TimeOut(t) \/ Stray(t) \/ Step(t)
    BY <1>2 DEF Next
  <2>v. /\ word[Val] \in Int /\ loc[t].val \in Int /\ loc[t].new \in Int
        /\ \A p \in Posters : loc[p].val \in Int
    BY DEF PosixSemAssumption, Assumed
  <2>2. CASE Ask(t)
    <3>1. loc'[t].busy = 0 /\ pc'[t] = "add" => Sleepers(Val) = {}
      BY <2>2, SleepersCounted DEF Ask, Local, Seen, NoLoc
    <3> QED
      BY <2>2, <3>1 DEF Ask, Local, Sleepers, ghosts
  <2>3. CASE Add(t)
    <3>1. t \in Posters
      BY <2>3 DEF Add
    <3>2. ~ (word[Val] = loc[t].val /\ Overlooks(t))
      <4>1. pc[t] = "add"
        BY <2>3 DEF Add
      <4>2. loc[t].busy = 0 /\ loc[t].val >= 0 => Sleepers(Val) = {} \/ word[Val] < loc[t].val
        BY <3>1, <4>1
      <4> QED
        BY <4>2, <2>v DEF Overlooks
    <3>3. missed' = missed
      BY <2>3, <3>2 DEF Add
    <3>4. \A p \in Posters : pc'[p] # "add"
      BY <2>3, <3>1 DEF Add
    <3> QED
      BY <3>3, <3>4
  <2>4. CASE Take(t)
    <3>1. word'[Val] <= word[Val]
      BY <2>4, <2>v DEF Take, Store
    <3> QED
      BY <2>4, <2>v, <3>1 DEF Take, Local, Sleepers, Store
  <2>5. CASE Mark(t)
    BY <2>5, <2>v DEF Mark, Store, Sleepers, ghosts
  <2>6. CASE Doze(t)
    BY <2>6, <2>v DEF Doze, FutexWait, Sleepers, ghosts
  <2>7. CASE Wake(t)
    BY <2>7, <2>v DEF Wake, FutexWake, Rouse, Sleepers, ghosts
  <2>c. ASSUME word' = word, missed' = missed, Sleepers(Val)' \subseteq Sleepers(Val),
               \A p \in Posters : pc'[p] = "add" => pc[p] = "add" /\ loc'[p] = loc[p]
        PROVE  Unseen'
    BY <2>c
  <2>8. CASE TimeOut(t) \/ Stray(t)
    <3>1. /\ word' = word /\ missed' = missed /\ Sleepers(Val)' \subseteq Sleepers(Val)
          /\ loc' = loc /\ \A p \in Posters : pc'[p] = "add" => pc[p] = "add"
      BY <2>8 DEF TimeOut, Stray, Stir, Rouse, Sleepers, ghosts
    <3> QED
      BY <3>1, <2>c
  <2>9. CASE Await(t) \/ Try(t) \/ Peek(t) \/ Count(t) \/ Uncount(t) \/ Post(t) \/ Read(t)
    <3>1. /\ word' = word /\ missed' = missed /\ Sleepers(Val)' = Sleepers(Val)
          /\ \A p \in Posters : pc'[p] = "add" => pc[p] = "add" /\ loc'[p] = loc[p]
      <4>1. CASE Await(t) \/ Count(t) \/ Uncount(t) \/ Post(t)
        <5>1. word' = word /\ missed' = missed /\ asleep' = asleep /\ loc' = loc
          BY <4>1 DEF Await, Count, Uncount, Post, ghosts
        <5>2. \A p \in Posters : pc'[p] = "add" => pc[p] = "add"
          BY <4>1 DEF Await, Count, Uncount, Post
        <5> QED
          BY <5>1, <5>2 DEF Sleepers
      <4>2. CASE Try(t)
        <5>1. pc'[t] # "add" /\ \A p \in Posters : p # t => pc'[p] = pc[p]
          BY <4>2 DEF Try
        <5>2. \A p \in Posters : p # t => loc'[p] = loc[p]
          BY <4>2 DEF Try, Local
        <5> QED
          BY <4>2, <5>1, <5>2 DEF Try, Sleepers, ghosts
      <4>3. CASE Peek(t)
        BY <4>3 DEF Peek, Local, Sleepers, ghosts
      <4>4. CASE Read(t)
        BY <4>4 DEF Read, Local, Sleepers, ghosts
      <4> QED
        BY <2>9, <4>1, <4>2, <4>3, <4>4
    <3> QED
      BY <3>1, <2>c
  <2> QED
    BY <2>1, <2>2, <2>3, <2>4, <2>5, <2>6, <2>7, <2>8, <2>9 DEF Step
<1> QED
  BY <1>1, <1>2

(* It takes two posts at once to overlook a sleeper: a semaphore that one     *)
(* thread posts to forgets no permit.                                         *)
THEOREM OnePoster ==
  ASSUME FutexAssumption, PosixSemAssumption, IsFiniteSet(Callers),
         \A p, q \in Posters : p = q
  PROVE  Spec => []~missed
<1> USE DEF Assumed
<1>1. Init => Unseen
  BY DEF Init, Unseen, Posters
<1>2. IInv /\ Unseen /\ [Next]_vars => Unseen'
  BY UnseenKept
<1>3. Unseen => ~ missed
  BY DEF Unseen
<1> QED
  BY <1>1, <1>2, <1>3, Invariance, PTL DEF Spec
=============================================================================
