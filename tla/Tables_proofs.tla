----------------------------- MODULE Tables_proofs -----------------------------
(* The identifiers of System V semaphores, queues and segments: semget, msgget*)
(* and shmget number the objects they make, and store the number in the entry *)
(* and in the identifier.  The theorem is about every interleaving of calls:  *)
(* nothing is assumed of when they run.                                       *)
EXTENDS MCTables, FiniteSetTheorems, WellFoundedInduction, TLAPS

LEMMA Small == ASSUME NEW w \in Nat \ {0}, NEW d \in Int, w * d < w, -w < w * d PROVE d = 0
<1>1. CASE d >= 1
  <2>1. w * d >= w * 1 BY <1>1
  <2> QED BY <2>1
<1>2. CASE d <= -1
  <2>1. w * d <= w * (-1) BY <1>2
  <2> QED BY <2>1
<1> QED BY <1>1, <1>2
LEMMA Div == ASSUME NEW w \in Nat \ {0}, NEW x \in Int
  PROVE x = w * (x \div w) + (x % w) /\ x % w \in 0 .. (w - 1) /\ x \div w \in Int
OBVIOUS
LEMMA Uniq == ASSUME NEW w \in Nat \ {0}, NEW k \in Int, NEW r \in 0 .. (w-1)
  PROVE (w * k + r) % w = r
<1> DEFINE x == w * k + r
<1>1. x \in Int OBVIOUS
<1>2. x = w * (x \div w) + (x % w) /\ x % w \in 0 .. (w - 1) /\ x \div w \in Int
  BY <1>1, Div
<1> DEFINE q == x \div w
           m == x % w
<1>3. x = w * q + m /\ m \in 0 .. (w - 1) /\ q \in Int BY <1>2
<1>4. x = w * k + r OBVIOUS
<1> HIDE DEF x, q, m
<1>5. w * (k - q) = w * k - w * q BY <1>3
<1>6. w * (k - q) = m - r BY <1>1, <1>3, <1>4, <1>5
<1>7. k - q \in Int BY <1>3
<1>8. k - q = 0 BY <1>3, <1>6, <1>7, Small
<1>9. k = q BY <1>3, <1>8
<1>10. m = r BY <1>3, <1>4, <1>9
<1> QED BY <1>10 DEF m, x

LEMMA ModInj == ASSUME NEW n \in Nat \ {0}, NEW a \in 1 .. n, NEW b \in 1 .. n, a % n = b % n
 PROVE a = b
<1>1. \A x \in 1 .. n : x % n = IF x = n THEN 0 ELSE x
  <2>1. ASSUME NEW x \in 1 .. n, x # n PROVE x % n = x
    <3>1. n * 0 + x = x /\ x \in 0 .. (n-1) BY <2>1
    <3> QED BY <3>1, Uniq
  <2>2. n % n = 0
    <3>1. n * 1 + 0 = n /\ 0 \in 0 .. (n-1) OBVIOUS
    <3> QED BY <3>1, Uniq
  <2> QED BY <2>1, <2>2
<1> QED BY <1>1

-----------------------------------------------------------------------------
USE TableAssumption, SemAssumption, TablesBounds DEF Entries

LEMMA LeastOf ==
  ASSUME NEW S, S \subseteq Nat, S # {}
  PROVE  \E q \in S : \A r \in S : q <= r
<1> DEFINE below == {0 .. q : q \in S}
<1>1. below \subseteq FiniteSubsetsOf(Nat)
  <2>1. ASSUME NEW q \in Nat PROVE IsFiniteSet(0 .. q)
    <3>1. 0 \in Int /\ q \in Int OBVIOUS
    <3> QED BY <3>1, FS_Interval
  <2>2. \A q \in Nat : 0 .. q \in FiniteSubsetsOf(Nat) BY <2>1 DEF FiniteSubsetsOf
  <2> QED BY <2>2
<1>2. below # {} OBVIOUS
<1>3. PICK x \in below : \A y \in below : ~ (<<y, x>> \in StrictSubsetOrdering(Nat))
  <2> HIDE DEF below
  <2>1. IsWellFoundedOn(StrictSubsetOrdering(Nat), FiniteSubsetsOf(Nat))
    BY FS_StrictSubsetOrderingWellFounded
  <2> QED BY <1>1, <1>2, <2>1, WFMin, Zenon
<1>4. PICK q \in S : x = 0 .. q BY <1>3
<1>5. ASSUME NEW r \in S, ~ (q <= r) PROVE FALSE
  <2>1. r < q /\ r \in Nat /\ q \in Nat BY <1>5
  <2>2. 0 .. r \subseteq 0 .. q /\ q \in 0 .. q /\ q \notin 0 .. r BY <2>1
  <2>3. <<0 .. r, 0 .. q>> \in StrictSubsetOrdering(Nat)
    BY <2>1, <2>2 DEF StrictSubsetOrdering
  <2> QED BY <1>3, <1>4, <2>3
<1> QED BY <1>5

LEMMA FirstOf ==
  ASSUME NEW S, S \subseteq Nat, S # {}
  PROVE  First(S) \in S
BY LeastOf DEF First

(* An entry in use holds the number of its object, none above the last one    *)
(* given; an identifier that was returned holds that of the object it was     *)
(* returned for, and was made of an entry of the table.                       *)
Numbered(E, table, seq, returned, bound) ==
    /\ seq \in 0 .. bound
    /\ DOMAIN table = E
    /\ \A e \in E : {"used", "seq", "life"} \subseteq DOMAIN table[e]
    /\ \A e \in E : table[e].used => table[e].life = table[e].seq /\ table[e].seq \in 1 .. seq
    /\ \A h \in returned : h.life \in 1 .. seq /\ \E e \in E : h.id = IpcId(e, h.life)

(* Nothing but the numbers of the entries in use counts, and they may only go *)
(* away.                                                                      *)
LEMMA StaysNumbered ==
  ASSUME NEW E, NEW seq, NEW returned, NEW bound, NEW table, NEW table2,
         Numbered(E, table, seq, returned, bound),
         DOMAIN table2 = E,
         \A e \in E : /\ {"used", "seq", "life"} \subseteq DOMAIN table2[e]
                      /\ table2[e].used =>
                            /\ table[e].used
                            /\ table2[e].seq = table[e].seq /\ table2[e].life = table[e].life
  PROVE  Numbered(E, table2, seq, returned, bound)
BY DEF Numbered

(* The number of another table's object is taken.                             *)
LEMMA Advances ==
  ASSUME NEW E, NEW seq, NEW returned, NEW bound \in Nat, NEW table,
         Numbered(E, table, seq, returned, bound), seq < bound
  PROVE  Numbered(E, table, seq + 1, returned, bound)
BY DEF Numbered

(* A get finds an object.                                                     *)
LEMMA Finds ==
  ASSUME NEW E, NEW seq, NEW returned, NEW bound \in Nat, NEW table,
         Numbered(E, table, seq, returned, bound),
         NEW e \in E, table[e].used
  PROVE  Numbered(E, table, seq,
                  returned \cup {[id |-> IpcId(e, table[e].seq), life |-> table[e].life]}, bound)
<1> DEFINE new == [id |-> IpcId(e, table[e].seq), life |-> table[e].life]
<1>1. new.life \in 1 .. seq /\ new.id = IpcId(e, new.life) BY DEF Numbered
<1> HIDE DEF new
<1>2. Numbered(E, table, seq, returned \cup {new}, bound) BY <1>1 DEF Numbered
<1> QED BY <1>2 DEF new

(* A get makes an object in an entry.                                         *)
LEMMA Makes ==
  ASSUME NEW E, NEW seq, NEW returned, NEW bound \in Nat, NEW table, NEW entry, NEW e \in E,
         Numbered(E, table, seq, returned, bound), seq < bound,
         {"used", "seq", "life"} \subseteq DOMAIN entry,
         entry.seq = seq + 1, entry.life = seq + 1
  PROVE  Numbered(E, [table EXCEPT ![e] = entry], seq + 1,
                  returned \cup {[id |-> IpcId(e, seq + 1), life |-> seq + 1]}, bound)
<1> DEFINE new == [id |-> IpcId(e, seq + 1), life |-> seq + 1]
           table2 == [table EXCEPT ![e] = entry]
<1>1. seq \in Nat /\ seq + 1 \in 1 .. (seq + 1) /\ seq + 1 \in 0 .. bound BY DEF Numbered
<1>2. new.life = seq + 1 /\ new.id = IpcId(e, seq + 1) OBVIOUS
<1>3. DOMAIN table2 = E /\ table2[e] = entry /\ \A d \in E \ {e} : table2[d] = table[d]
  BY DEF Numbered
<1> HIDE DEF new, table2
<1>4. ASSUME NEW d \in E
      PROVE  /\ {"used", "seq", "life"} \subseteq DOMAIN table2[d]
             /\ table2[d].used => /\ table2[d].life = table2[d].seq
                                  /\ table2[d].seq \in 1 .. (seq + 1)
  <2>1. CASE d = e BY <1>1, <1>3, <2>1
  <2>2. CASE d # e
    <3>1. table2[d] = table[d] BY <1>3, <2>2
    <3>2. /\ {"used", "seq", "life"} \subseteq DOMAIN table[d]
          /\ table[d].used => table[d].life = table[d].seq /\ table[d].seq \in 1 .. seq
      BY DEF Numbered
    <3>3. \A x \in 1 .. seq : x \in 1 .. (seq + 1) BY <1>1
    <3> QED BY <3>1, <3>2, <3>3
  <2> QED BY <2>1, <2>2
<1>5. \A h \in returned \cup {new} :
         h.life \in 1 .. (seq + 1) /\ \E d \in E : h.id = IpcId(d, h.life)
  <2>1. ASSUME NEW h \in returned
        PROVE  h.life \in 1 .. seq /\ \E d \in E : h.id = IpcId(d, h.life)
    BY DEF Numbered
  <2>2. \A x \in 1 .. seq : x \in 1 .. (seq + 1) BY <1>1
  <2> QED BY <1>1, <1>2, <2>1, <2>2
<1>6. Numbered(E, table2, seq + 1, returned \cup {new}, bound)
  BY <1>1, <1>3, <1>4, <1>5 DEF Numbered
<1> QED BY <1>6 DEF new, table2

(* Two numbers in use of the identifiers are below 2^16, so that they differ  *)
(* in the identifiers.                                                        *)
LEMMA SeqInj ==
  ASSUME NEW bound \in Nat, bound <= SeqMask, NEW a \in 1 .. bound, NEW b \in 1 .. bound,
         NEW e, NEW d, IpcId(e, a) = IpcId(d, b)
  PROVE  a = b /\ e = d
<1>1. (a % SeqMask) = (b % SeqMask) /\ e = d BY DEF IpcId
<1>2. a \in 1 .. SeqMask /\ b \in 1 .. SeqMask /\ SeqMask \in Nat \ {0} BY TableAssumption
<1>3. a = b BY <1>1, <1>2, ModInj
<1> QED BY <1>1, <1>3

(* An identifier tells its object from every other.                           *)
Tells(E, table, returned) ==
    \A h \in returned, s \in E :
       table[s].used /\ h.id = IpcId(s, table[s].seq) => table[s].life = h.life

LEMMA OneObject ==
  ASSUME NEW E, NEW seq, NEW returned, NEW bound \in Nat, NEW table,
         Numbered(E, table, seq, returned, bound), bound <= SeqMask
  PROVE  Tells(E, table, returned)
<1> SUFFICES ASSUME NEW h \in returned, NEW s \in E,
                    table[s].used, h.id = IpcId(s, table[s].seq)
             PROVE  table[s].life = h.life
  BY DEF Tells
<1>1. PICK e \in E : h.id = IpcId(e, h.life) BY DEF Numbered
<1>2. /\ h.life \in 1 .. seq /\ table[s].seq \in 1 .. seq /\ table[s].life = table[s].seq
      /\ seq \in 0 .. bound
  BY DEF Numbered
<1> DEFINE a == table[s].seq
           b == h.life
<1>3. IpcId(s, a) = IpcId(e, b) /\ a \in 1 .. seq /\ b \in 1 .. seq BY <1>1, <1>2
<1>4. seq \in Nat /\ seq <= SeqMask BY <1>2
<1> HIDE DEF a, b
<1>5. a = b BY <1>3, <1>4, SeqInj
<1> QED BY <1>2, <1>5 DEF a, b

-----------------------------------------------------------------------------
(* Semaphores.                                                                *)
SemInv == Numbered(Entries, sets, ipcSeq, ids, MaxSeq)

LEMMA SemInit == Init => SemInv
BY DEF Init, SemInv, Numbered

(* The value of a semaphore changes.                                          *)
LEMMA SemValue ==
  ASSUME SemInv, NEW s, NEW n, NEW v, sets' = [sets EXCEPT ![s].val[n] = v],
         UNCHANGED <<ipcSeq, ids>>
  PROVE  SemInv'
<1>1. DOMAIN sets' = Entries
      /\ \A e \in Entries : /\ {"used", "seq", "life"} \subseteq DOMAIN sets'[e]
                            /\ sets'[e].used = sets[e].used
                            /\ sets'[e].seq = sets[e].seq /\ sets'[e].life = sets[e].life
  BY DEF SemInv, Numbered
<1>2. Numbered(Entries, sets', ipcSeq, ids, MaxSeq) BY <1>1, StaysNumbered DEF SemInv
<1> QED BY <1>2 DEF SemInv

LEMMA SemGets ==
  ASSUME SemInv, NEW t, NEW key, NEW nsems, CallSemget(t, key, nsems)
  PROVE  SemInv'
<1>1. CASE /\ Known(sets, key) # {} /\ UNCHANGED <<sets, ipcSeq>>
           /\ LET s == First(Known(sets, key)) IN
              ids' = ids \cup {[id |-> IpcId(s, sets[s].seq), life |-> sets[s].life]}
  <2> DEFINE s == First(Known(sets, key))
  <2>1. Known(sets, key) \subseteq Entries /\ Entries \subseteq Nat
        /\ \A e \in Known(sets, key) : sets[e].used
    BY DEF Known, Keyed
  <2>2. s \in Known(sets, key) BY <1>1, <2>1, FirstOf
  <2>3. s \in Entries /\ sets[s].used BY <2>1, <2>2
  <2>4. ids' = ids \cup {[id |-> IpcId(s, sets[s].seq), life |-> sets[s].life]} BY <1>1
  <2> HIDE DEF s
  <2>5. Numbered(Entries, sets, ipcSeq, ids', MaxSeq) BY <2>3, <2>4, Finds DEF SemInv
  <2> QED BY <1>1, <2>5 DEF SemInv
<1>2. CASE /\ Free(sets) # {} /\ ipcSeq < MaxSeq /\ ipcSeq' = ipcSeq + 1
           /\ LET s == First(Free(sets)) IN
              /\ sets' = [sets EXCEPT ![s] = [used |-> TRUE, seq |-> ipcSeq + 1, key |-> key,
                                             nsems |-> nsems, val |-> Zeros,
                                             life |-> ipcSeq + 1]]
              /\ ids' = ids \cup {[id |-> IpcId(s, ipcSeq + 1), life |-> ipcSeq + 1]}
  <2> DEFINE s == First(Free(sets))
             entry == [used |-> TRUE, seq |-> ipcSeq + 1, key |-> key, nsems |-> nsems,
                       val |-> Zeros, life |-> ipcSeq + 1]
  <2>1. Free(sets) \subseteq Nat /\ Free(sets) \subseteq Entries BY DEF Free
  <2>2. s \in Entries BY <1>2, <2>1, FirstOf
  <2>3. {"used", "seq", "life"} \subseteq DOMAIN entry
        /\ entry.seq = ipcSeq + 1 /\ entry.life = ipcSeq + 1
    OBVIOUS
  <2>4. sets' = [sets EXCEPT ![s] = entry]
        /\ ids' = ids \cup {[id |-> IpcId(s, ipcSeq + 1), life |-> ipcSeq + 1]}
    BY <1>2
  <2>5. Numbered(Entries, sets, ipcSeq, ids, MaxSeq) /\ MaxSeq \in Nat BY DEF SemInv
  <2> HIDE DEF s, entry
  <2>6. Numbered(Entries, [sets EXCEPT ![s] = entry], ipcSeq + 1,
                 ids \cup {[id |-> IpcId(s, ipcSeq + 1), life |-> ipcSeq + 1]}, MaxSeq)
    BY <1>2, <2>2, <2>3, <2>5, Makes
  <2> QED BY <1>2, <2>4, <2>6 DEF SemInv
<1> QED BY <1>1, <1>2 DEF CallSemget

LEMMA SemRemoves ==
  ASSUME SemInv, NEW t, NEW h, CallRmid(t, h)
  PROVE  SemInv'
<1>1. PICK s : sets' = [sets EXCEPT ![s].used = FALSE] BY DEF CallRmid
<1>2. UNCHANGED <<ipcSeq, ids>> BY DEF CallRmid
<1>3. DOMAIN sets' = Entries
      /\ \A e \in Entries : /\ {"used", "seq", "life"} \subseteq DOMAIN sets'[e]
                            /\ sets'[e].used => sets[e].used
                            /\ sets'[e].seq = sets[e].seq /\ sets'[e].life = sets[e].life
  BY <1>1 DEF SemInv, Numbered
<1>4. Numbered(Entries, sets', ipcSeq, ids, MaxSeq) BY <1>3, StaysNumbered DEF SemInv
<1> QED BY <1>2, <1>4 DEF SemInv

LEMMA SemStep == ASSUME SemInv, [Next]_vars PROVE SemInv'
<1>1. CASE UNCHANGED <<sets, ipcSeq, ids>> BY <1>1 DEF SemInv
<1>2. CASE \E t \in Threads, h \in ids, n \in Nums, v \in Values : CallSetval(t, h, n, v)
  BY <1>2, SemValue DEF CallSetval
<1>3. CASE \E t \in Threads : ApplyWrite(t)
  BY <1>3, SemValue DEF ApplyWrite
<1>4. CASE \E t \in Threads, key \in Keys, nsems \in 1 .. Nsems : CallSemget(t, key, nsems)
  BY <1>4, SemGets
<1>5. CASE \E t \in Threads, h \in ids : CallRmid(t, h)
  BY <1>5, SemRemoves
<1>6. CASE \E t \in Threads :
             \/ \E h \in ids, batch \in Batches, nowait \in BOOLEAN, at \in {NoDeadline, MaxTime} :
                   CallSemop(t, h, batch, nowait, at)
             \/ Try(t) \/ Check(t) \/ ApplyRead(t) \/ Blocked(t) \/ Delay(t)
  BY <1>6, <1>1 DEF CallSemop, Try, Check, ApplyRead, Blocked, Delay
<1>7. CASE Tick \/ UNCHANGED vars BY <1>7, <1>1 DEF Tick, vars
<1> QED BY <1>2, <1>3, <1>4, <1>5, <1>6, <1>7 DEF Next, Call, Work

LEMMA SemSafe == ASSUME SemInv, MaxSeq <= SeqMask PROVE IdsNameOneSet
<1>1. Numbered(Entries, sets, ipcSeq, ids, MaxSeq) /\ MaxSeq \in Nat BY DEF SemInv
<1>2. Tells(Entries, sets, ids) BY <1>1, OneObject
<1> QED BY <1>2 DEF Tells, IdsNameOneSet, FromId

-----------------------------------------------------------------------------
(* Queues.                                                                    *)
MsgInv == Numbered(Entries, msgQueues, msgSeq, msgIds, MaxSeq)

LEMMA MsgSame ==
  /\ Msg!Entries = Entries
  /\ \A e, seq : Msg!IpcId(e, seq) = IpcId(e, seq)
  /\ \A S : Msg!First(S) = First(S)
BY DEF Msg!Entries, Msg!IpcId, IpcId, Msg!First, First

LEMMA MsgInit == Msg!Init => MsgInv
BY DEF Msg!Init, Msg!Entries, MsgInv, Numbered

(* A slot or the count of a queue changes.                                    *)
LEMMA MsgChanges ==
  ASSUME MsgInv, UNCHANGED <<msgSeq, msgIds>>,
         DOMAIN msgQueues' = DOMAIN msgQueues,
         \A e \in Entries :
            /\ DOMAIN msgQueues'[e] = DOMAIN msgQueues[e]
            /\ msgQueues'[e].used => msgQueues[e].used
            /\ msgQueues'[e].seq = msgQueues[e].seq
            /\ msgQueues'[e].life = msgQueues[e].life
  PROVE  MsgInv'
<1>1. DOMAIN msgQueues = Entries
      /\ \A e \in Entries : {"used", "seq", "life"} \subseteq DOMAIN msgQueues[e]
  BY DEF MsgInv, Numbered
<1>2. Numbered(Entries, msgQueues', msgSeq, msgIds, MaxSeq) BY <1>1, StaysNumbered DEF MsgInv
<1> QED BY <1>2 DEF MsgInv

LEMMA MsgWorks ==
  ASSUME MsgInv, NEW t,
         \/ Msg!SendMark(t) \/ Msg!SendFill(t) \/ Msg!SendCount(t)
         \/ Msg!ReceiveClear(t) \/ Msg!ReceiveUncount(t)
  PROVE  MsgInv'
<1>1. DOMAIN msgQueues = Entries
      /\ \A e \in Entries : {"used", "seq", "life"} \subseteq DOMAIN msgQueues[e]
  BY DEF MsgInv, Numbered
<1>2. ASSUME NEW q, NEW s,
             \/ msgQueues' = [msgQueues EXCEPT ![q].slot[s].used = TRUE]
             \/ msgQueues' = [msgQueues EXCEPT ![q].slot[s].used = FALSE]
             \/ msgQueues' = [msgQueues EXCEPT ![q].slot[s].msg = msgLoc[t].msg]
             \/ msgQueues' = [msgQueues EXCEPT ![q].qnum = @ + 1]
             \/ msgQueues' = [msgQueues EXCEPT ![q].qnum = @ - 1],
             UNCHANGED <<msgSeq, msgIds>>
      PROVE  MsgInv'
  <2>1. PICK entry :
           /\ msgQueues' = [msgQueues EXCEPT ![q] = entry]
           /\ DOMAIN entry = DOMAIN msgQueues[q]
           /\ q \in Entries => /\ entry.used = msgQueues[q].used
                               /\ entry.seq = msgQueues[q].seq
                               /\ entry.life = msgQueues[q].life
    BY <1>1, <1>2
  <2>2. \A e \in Entries : msgQueues'[e] = IF e = q THEN entry ELSE msgQueues[e] BY <1>1, <2>1
  <2>3. DOMAIN msgQueues' = DOMAIN msgQueues BY <2>1
  <2> QED BY <1>2, <2>1, <2>2, <2>3, MsgChanges
<1> QED
  BY <1>2 DEF Msg!SendMark, Msg!SendFill, Msg!SendCount, Msg!ReceiveClear, Msg!ReceiveUncount

LEMMA MsgGets ==
  ASSUME MsgInv, NEW t, NEW key, Msg!CallMsgget(t, key)
  PROVE  MsgInv'
<1>1. CASE /\ Msg!Known(msgQueues, key) # {} /\ UNCHANGED <<msgQueues, msgSeq>>
           /\ LET e == Msg!First(Msg!Known(msgQueues, key)) IN
              msgIds' = msgIds \cup {[id |-> Msg!IpcId(e, msgQueues[e].seq),
                                     life |-> msgQueues[e].life]}
  <2> DEFINE e == First(Msg!Known(msgQueues, key))
  <2>1. Msg!Known(msgQueues, key) \subseteq Entries /\ Entries \subseteq Nat
        /\ \A d \in Msg!Known(msgQueues, key) : msgQueues[d].used
    BY DEF Msg!Known, Msg!Keyed, Msg!Entries
  <2>2. e \in Msg!Known(msgQueues, key) BY <1>1, <2>1, FirstOf
  <2>3. e \in Entries /\ msgQueues[e].used BY <2>1, <2>2
  <2>4. msgIds' = msgIds \cup {[id |-> IpcId(e, msgQueues[e].seq), life |-> msgQueues[e].life]}
    BY <1>1, MsgSame
  <2> HIDE DEF e
  <2>5. Numbered(Entries, msgQueues, msgSeq, msgIds', MaxSeq) BY <2>3, <2>4, Finds DEF MsgInv
  <2> QED BY <1>1, <2>5 DEF MsgInv
<1>2. CASE /\ Msg!Free(msgQueues) # {} /\ msgSeq < MaxSeq /\ msgSeq' = msgSeq + 1
           /\ LET e == Msg!First(Msg!Free(msgQueues)) IN
              /\ msgQueues' = [msgQueues EXCEPT ![e] =
                    [used |-> TRUE, seq |-> msgSeq + 1, key |-> key, qnum |-> 0,
                     slot |-> [s \in Msg!Places |-> Msg!Empty], life |-> msgSeq + 1]]
              /\ msgIds' = msgIds \cup {[id |-> Msg!IpcId(e, msgSeq + 1), life |-> msgSeq + 1]}
  <2> DEFINE e == First(Msg!Free(msgQueues))
             entry == [used |-> TRUE, seq |-> msgSeq + 1, key |-> key, qnum |-> 0,
                       slot |-> [s \in Msg!Places |-> Msg!Empty], life |-> msgSeq + 1]
  <2>1. Msg!Free(msgQueues) \subseteq Nat /\ Msg!Free(msgQueues) \subseteq Entries
    BY DEF Msg!Free, Msg!Entries
  <2>2. e \in Entries BY <1>2, <2>1, FirstOf
  <2>3. {"used", "seq", "life"} \subseteq DOMAIN entry
        /\ entry.seq = msgSeq + 1 /\ entry.life = msgSeq + 1
    OBVIOUS
  <2>4. msgQueues' = [msgQueues EXCEPT ![e] = entry]
        /\ msgIds' = msgIds \cup {[id |-> IpcId(e, msgSeq + 1), life |-> msgSeq + 1]}
    BY <1>2, MsgSame
  <2>5. Numbered(Entries, msgQueues, msgSeq, msgIds, MaxSeq) /\ MaxSeq \in Nat BY DEF MsgInv
  <2> HIDE DEF e, entry
  <2>6. Numbered(Entries, [msgQueues EXCEPT ![e] = entry], msgSeq + 1,
                 msgIds \cup {[id |-> IpcId(e, msgSeq + 1), life |-> msgSeq + 1]}, MaxSeq)
    BY <1>2, <2>2, <2>3, <2>5, Makes
  <2> QED BY <1>2, <2>4, <2>6 DEF MsgInv
<1> QED BY <1>1, <1>2 DEF Msg!CallMsgget

LEMMA MsgRemoves ==
  ASSUME MsgInv, NEW t, NEW h, Msg!CallRmid(t, h)
  PROVE  MsgInv'
<1>1. PICK s : msgQueues' = [msgQueues EXCEPT ![s].used = FALSE] BY DEF Msg!CallRmid
<1>2. UNCHANGED <<msgSeq, msgIds>> BY DEF Msg!CallRmid
<1>3. DOMAIN msgQueues = Entries
      /\ \A e \in Entries : {"used", "seq", "life"} \subseteq DOMAIN msgQueues[e]
  BY DEF MsgInv, Numbered
<1>4. DOMAIN msgQueues' = DOMAIN msgQueues
      /\ \A e \in Entries : /\ DOMAIN msgQueues'[e] = DOMAIN msgQueues[e]
                            /\ msgQueues'[e].used => msgQueues[e].used
                            /\ msgQueues'[e].seq = msgQueues[e].seq
                            /\ msgQueues'[e].life = msgQueues[e].life
  BY <1>1, <1>3
<1> QED BY <1>2, <1>4, MsgChanges

LEMMA MsgStep == ASSUME MsgInv, [Msg!Next]_msgVars PROVE MsgInv'
<1>1. CASE UNCHANGED <<msgQueues, msgSeq, msgIds>> BY <1>1 DEF MsgInv
<1>2. CASE Msg!OtherObject
  <2>1. Numbered(Entries, msgQueues, msgSeq, msgIds, MaxSeq) /\ MaxSeq \in Nat BY DEF MsgInv
  <2>2. Numbered(Entries, msgQueues, msgSeq + 1, msgIds, MaxSeq)
    BY <1>2, <2>1, Advances DEF Msg!OtherObject
  <2> QED BY <1>2, <2>2 DEF MsgInv, Msg!OtherObject
<1>3. CASE \E t \in Threads, key \in Keys : Msg!CallMsgget(t, key) BY <1>3, MsgGets
<1>4. CASE \E t \in Threads, h \in msgIds : Msg!CallRmid(t, h) BY <1>4, MsgRemoves
<1>5. CASE \E t \in Threads :
             \/ Msg!SendMark(t) \/ Msg!SendFill(t) \/ Msg!SendCount(t)
             \/ Msg!ReceiveClear(t) \/ Msg!ReceiveUncount(t)
  BY <1>5, MsgWorks
<1>6. CASE \E t \in Threads :
             \/ \E h \in msgIds, nowait \in BOOLEAN :
                  \/ \E m \in Msgs : Msg!CallSend(t, h, m, nowait)
                  \/ \E sel \in Sels : Msg!CallReceive(t, h, sel, nowait)
             \/ Msg!SendTry(t) \/ Msg!ReceiveTry(t)
  BY <1>6, <1>1 DEF Msg!CallSend, Msg!CallReceive, Msg!SendTry, Msg!ReceiveTry
<1>7. CASE UNCHANGED msgVars BY <1>7, <1>1 DEF msgVars
<1> QED BY <1>2, <1>3, <1>4, <1>5, <1>6, <1>7 DEF Msg!Next, Msg!Call, Msg!Work

LEMMA MsgSafe == ASSUME MsgInv, MaxSeq <= SeqMask PROVE Msg!IdsNameOneQueue
<1>1. Numbered(Entries, msgQueues, msgSeq, msgIds, MaxSeq) /\ MaxSeq \in Nat BY DEF MsgInv
<1>2. Tells(Entries, msgQueues, msgIds) BY <1>1, OneObject
<1>3. \A h \in msgIds : \A s \in Msg!FromId(msgQueues, h.id) :
         s \in Entries /\ msgQueues[s].used /\ h.id = IpcId(s, msgQueues[s].seq)
  BY MsgSame DEF Msg!FromId
<1> QED BY <1>2, <1>3 DEF Tells, Msg!IdsNameOneQueue

-----------------------------------------------------------------------------
(* Segments.                                                                  *)
Places == 0 .. (Segments - 1)
ShmInv == Numbered(Places, shmSegs, shmSeq, shmIds, MaxSegments)

LEMMA ShmSame ==
  /\ Shm!Entries = Places
  /\ \A e, seq : Shm!IpcId(e, seq) = IpcId(e, seq)
  /\ \A S : Shm!First(S) = First(S)
BY DEF Shm!Entries, Places, Shm!IpcId, IpcId, Shm!First, First

LEMMA ShmInit == Shm!Init => ShmInv
BY DEF Shm!Init, Shm!Entries, ShmInv, Numbered, Places

(* The attachments of a segment are counted, or it is removed.                *)
LEMMA ShmChanges ==
  ASSUME ShmInv, NEW t,
         (\E h : Shm!CallRmid(t, h)) \/ Shm!Attach(t) \/ Shm!Detach(t)
  PROVE  ShmInv'
<1>1. DOMAIN shmSegs = Places
      /\ \A e \in Places : {"used", "seq", "life"} \subseteq DOMAIN shmSegs[e]
  BY DEF ShmInv, Numbered
<1>2. PICK q, n : /\ \/ shmSegs' = [shmSegs EXCEPT ![q].used = FALSE]
                     \/ shmSegs' = [shmSegs EXCEPT ![q].nattch = n]
                  /\ UNCHANGED <<shmSeq, shmIds>>
  BY DEF Shm!CallRmid, Shm!Attach, Shm!Detach
<1>3. DOMAIN shmSegs' = Places
      /\ \A e \in Places : /\ {"used", "seq", "life"} \subseteq DOMAIN shmSegs'[e]
                           /\ shmSegs'[e].used => shmSegs[e].used
                           /\ shmSegs'[e].seq = shmSegs[e].seq
                           /\ shmSegs'[e].life = shmSegs[e].life
  BY <1>1, <1>2
<1>4. Numbered(Places, shmSegs', shmSeq, shmIds, MaxSegments) BY <1>3, StaysNumbered DEF ShmInv
<1> QED BY <1>2, <1>4 DEF ShmInv

LEMMA ShmGets ==
  ASSUME ShmInv, NEW t, NEW key, NEW n, Shm!CallShmget(t, key, n)
  PROVE  ShmInv'
<1>1. CASE /\ Shm!Known(shmSegs, key) # {} /\ UNCHANGED <<shmSegs, shmSeq>>
           /\ LET e == Shm!First(Shm!Known(shmSegs, key)) IN
              shmIds' = shmIds \cup {[id |-> Shm!IpcId(e, shmSegs[e].seq),
                                     life |-> shmSegs[e].life]}
  <2> DEFINE e == First(Shm!Known(shmSegs, key))
  <2>1. Shm!Known(shmSegs, key) \subseteq Places /\ Places \subseteq Nat
        /\ \A d \in Shm!Known(shmSegs, key) : shmSegs[d].used
    BY DEF Shm!Known, Shm!Keyed, Shm!Entries, Places
  <2>2. e \in Shm!Known(shmSegs, key) BY <1>1, <2>1, FirstOf
  <2>3. e \in Places /\ shmSegs[e].used BY <2>1, <2>2
  <2>4. shmIds' = shmIds \cup {[id |-> IpcId(e, shmSegs[e].seq), life |-> shmSegs[e].life]}
    BY <1>1, ShmSame
  <2> HIDE DEF e
  <2>5. Numbered(Places, shmSegs, shmSeq, shmIds', MaxSegments) BY <2>3, <2>4, Finds DEF ShmInv
  <2> QED BY <1>1, <2>5 DEF ShmInv
<1>2. CASE /\ Shm!Free(shmSegs) # {} /\ shmSeq < MaxSegments /\ shmSeq' = shmSeq + 1
           /\ LET e == Shm!First(Shm!Free(shmSegs)) IN
              /\ shmSegs' = [shmSegs EXCEPT ![e] =
                    [used |-> TRUE, seq |-> shmSeq + 1, key |-> key,
                     size |-> n, nattch |-> 0, life |-> shmSeq + 1]]
              /\ shmIds' = shmIds \cup {[id |-> Shm!IpcId(e, shmSeq + 1), life |-> shmSeq + 1]}
  <2> DEFINE e == First(Shm!Free(shmSegs))
             entry == [used |-> TRUE, seq |-> shmSeq + 1, key |-> key,
                       size |-> n, nattch |-> 0, life |-> shmSeq + 1]
  <2>1. Shm!Free(shmSegs) \subseteq Nat /\ Shm!Free(shmSegs) \subseteq Places
    BY DEF Shm!Free, Shm!Entries, Places
  <2>2. e \in Places BY <1>2, <2>1, FirstOf
  <2>3. {"used", "seq", "life"} \subseteq DOMAIN entry
        /\ entry.seq = shmSeq + 1 /\ entry.life = shmSeq + 1
    OBVIOUS
  <2>4. shmSegs' = [shmSegs EXCEPT ![e] = entry]
        /\ shmIds' = shmIds \cup {[id |-> IpcId(e, shmSeq + 1), life |-> shmSeq + 1]}
    BY <1>2, ShmSame
  <2>5. Numbered(Places, shmSegs, shmSeq, shmIds, MaxSegments) /\ MaxSegments \in Nat
    BY DEF ShmInv
  <2> HIDE DEF e, entry
  <2>6. Numbered(Places, [shmSegs EXCEPT ![e] = entry], shmSeq + 1,
                 shmIds \cup {[id |-> IpcId(e, shmSeq + 1), life |-> shmSeq + 1]}, MaxSegments)
    BY <1>2, <2>2, <2>3, <2>5, Makes
  <2> QED BY <1>2, <2>4, <2>6 DEF ShmInv
<1> QED BY <1>1, <1>2 DEF Shm!CallShmget

LEMMA ShmStep == ASSUME ShmInv, [Shm!Next]_shmVars PROVE ShmInv'
<1>1. CASE UNCHANGED <<shmSegs, shmSeq, shmIds>> BY <1>1 DEF ShmInv
<1>2. CASE \E t \in Threads, key \in {0} \cup Keys, n \in {0, 1} : Shm!CallShmget(t, key, n)
  BY <1>2, ShmGets
<1>3. CASE \E t \in Threads : (\E h \in shmIds : Shm!CallRmid(t, h)) \/ Shm!Attach(t) \/ Shm!Detach(t)
  BY <1>3, ShmChanges
<1>4. CASE \E t \in Threads : \/ \E h \in shmIds : Shm!CallAttach(t, h)
                             \/ \E e \in Shm!Entries : Shm!CallDetach(t, e)
  BY <1>4, <1>1 DEF Shm!CallAttach, Shm!CallDetach
<1>5. CASE UNCHANGED shmVars BY <1>5, <1>1 DEF shmVars
<1> QED BY <1>2, <1>3, <1>4, <1>5 DEF Shm!Next

LEMMA ShmSafe == ASSUME ShmInv, MaxSegments <= SeqMask PROVE Shm!IdsNameOneSegment
<1>1. Numbered(Places, shmSegs, shmSeq, shmIds, MaxSegments) /\ MaxSegments \in Nat
  BY DEF ShmInv
<1>2. Tells(Places, shmSegs, shmIds) BY <1>1, OneObject
<1>3. \A h \in shmIds : \A s \in Shm!FromId(shmSegs, h.id) :
         s \in Places /\ shmSegs[s].used /\ h.id = IpcId(s, shmSegs[s].seq)
  BY ShmSame DEF Shm!FromId
<1> QED BY <1>2, <1>3 DEF Tells, Shm!IdsNameOneSegment

-----------------------------------------------------------------------------
(* The tables together: a step of one part leaves the others where they are.  *)
TablesInv == SemInv /\ MsgInv /\ ShmInv

LEMMA TablesStep ==
  ASSUME TablesInv,
         [TablesNext]_<<part, vars, mqVars, msgVars, shmVars, elfVars, exprVars, caseVars>>
  PROVE  TablesInv'
<1>1. [Next]_vars /\ [Msg!Next]_msgVars /\ [Shm!Next]_shmVars BY DEF TablesNext, Others
<1> QED BY <1>1, SemStep, MsgStep, ShmStep DEF TablesInv

(* An identifier that semget, msgget or shmget has returned denotes the object*)
(* it was returned for or none, however often that is removed and its entry   *)
(* used again, whatever calls run between and however their steps interleave. *)
(* The bounds say how far: fewer objects are made than the 16 bits of an      *)
(* identifier tell apart (_ipc.c:14-15).                                      *)
THEOREM IdsStayWithTheirObject ==
    MaxSeq <= SeqMask /\ MaxSegments <= SeqMask => (TablesSpec => []IdsNameOneObject)
<1> SUFFICES ASSUME MaxSeq <= SeqMask, MaxSegments <= SeqMask
             PROVE  TablesSpec => []IdsNameOneObject
  OBVIOUS
<1>1. TablesInit => TablesInv BY SemInit, MsgInit, ShmInit DEF TablesInit, TablesInv
<1>2. TablesInv /\ [TablesNext]_<<part, vars, mqVars, msgVars, shmVars, elfVars, exprVars,
                                  caseVars>>
      => TablesInv'
  BY TablesStep
<1>3. TablesInv => IdsNameOneObject
  BY SemSafe, MsgSafe, ShmSafe DEF TablesInv, IdsNameOneObject
<1> QED BY <1>1, <1>2, <1>3, PTL DEF TablesSpec
=============================================================================
