--------------------------- MODULE Blitter_proofs ---------------------------
(* Machine-checked proofs about the block allocator, for every number of      *)
(* threads, words, retries and every pattern of calls.                        *)
EXTENDS BlitterHistory, FiniteSetTheorems, TLAPS

-----------------------------------------------------------------------------
(* Facts about the geometry of the bitmap.                                    *)

LEMMA BlockCountType == WordBits \in Nat \ {0} /\ BlockCount \in Nat \ {0}
BY SizesAssumption DEF WordBits, BlockCount

LEMMA WordOfType ==
    ASSUME NEW b \in Blocks
    PROVE  /\ WordOf(b) \in 0 .. (PtrCount - 1)
           /\ (WordOf(b) + 1) * WordBits \in 0 .. BlockCount
<1> DEFINE q == b \div WordBits
<1>1. b \in Nat /\ b < PtrCount * WordBits
  BY BlockCountType, SizesAssumption DEF Blocks, BlockCount
<1>2. q \in Nat /\ q * WordBits <= b
  BY <1>1, BlockCountType, Z3
<1>3. q < PtrCount
  BY <1>1, <1>2, BlockCountType, SizesAssumption, Z3
<1>4. (q + 1) * WordBits \in Nat /\ (q + 1) * WordBits <= PtrCount * WordBits
  BY <1>2, <1>3, BlockCountType, SizesAssumption, Z3
<1> QED BY <1>2, <1>3, <1>4, SizesAssumption DEF WordOf, BlockCount

LEMMA BaseWord ==
    ASSUME NEW b \in 0 .. BlockCount
    PROVE  WordOf(b) \in 0 .. PtrCount
<1>1. CASE b \in Blocks
  BY <1>1, WordOfType, SizesAssumption
<1>2. CASE b = PtrCount * WordBits
  BY <1>2, BlockCountType, SizesAssumption, Z3 DEF WordOf
<1> QED BY <1>1, <1>2, BlockCountType DEF Blocks, BlockCount

-----------------------------------------------------------------------------
(* Type correctness.                                                          *)

LEMMA FreshType == Fresh \in Locals
BY BlockCountType, SizesAssumption, TriesAssumption DEF Fresh, Locals, Blocks

(* A bitmap snapshot is a set of blocks.                                      *)
LEMMA CandWordType ==
    ASSUME NEW t \in Threads PROVE CandWord(t) \in SUBSET Blocks
BY DEF CandWord, InWord

LEMMA InitType == Init => TypeOK
<1> SUFFICES ASSUME Init PROVE TypeOK
  OBVIOUS
<1>1. avail \in Int
  <2>1. IsFiniteSet(Blocks)
    BY FS_Interval, BlockCountType DEF Blocks
  <2> QED BY <2>1, FS_Subset, FS_CardinalityType DEF Init
<1>2. pc \in [Threads -> Steps] /\ ret \in [Threads -> Statuses]
  BY DEF Init, Steps, Statuses
<1>3. loc \in [Threads -> Locals]
  BY FreshType DEF Init
<1>4. busy \in BOOLEAN
  BY Zenon DEF Init
<1>5. used \in Int
  BY DEF Init
<1>6. free \in SUBSET Blocks /\ held \in [Threads -> SUBSET Blocks]
  BY DEF Init
<1>7. Fits("idle", Fresh)
  BY FreshType DEF Fits, Fresh
<1>8. ASSUME NEW t \in Threads PROVE Fits(pc[t], loc[t])
  BY <1>7 DEF Init
<1> QED BY <1>1, <1>2, <1>3, <1>4, <1>5, <1>6, <1>8 DEF TypeOK

(* The types of the per-thread state.                                         *)
PerThread ==
    /\ pc \in [Threads -> Steps]
    /\ loc \in [Threads -> Locals]
    /\ ret \in [Threads -> Statuses]
    /\ \A t \in Threads : Fits(pc[t], loc[t])

LEMMA GotoType ==
    ASSUME PerThread, NEW t \in Threads, NEW step \in Steps, NEW l \in Locals,
           Fits(step, l), Goto(t, step, l), ret' \in [Threads -> Statuses]
    PROVE  PerThread'
<1>1. pc' \in [Threads -> Steps] /\ loc' \in [Threads -> Locals]
  BY DEF PerThread, Goto
<1>2. ASSUME NEW s \in Threads PROVE Fits(pc[s], loc[s])'
  <2>1. CASE s = t
    <3>1. pc'[s] = step /\ loc'[s] = l
      BY <2>1 DEF PerThread, Goto
    <3> QED BY <3>1 DEF Fits
  <2>2. CASE s # t
    <3>1. pc'[s] = pc[s] /\ loc'[s] = loc[s]
      BY <2>2 DEF PerThread, Goto
    <3> QED BY <3>1 DEF Fits, PerThread
  <2> QED BY <2>1, <2>2
<1> QED BY <1>1, <1>2 DEF PerThread

LEMMA EnterType ==
    ASSUME PerThread, NEW t \in Threads, NEW step \in Steps, NEW l \in Locals,
           Fits(step, l), Enter(t, step, l)
    PROVE  PerThread'
<1>1. ret' \in [Threads -> Statuses]
  BY DEF Enter, PerThread, Statuses
<1> QED BY <1>1, GotoType DEF Enter

LEMMA ContinueType ==
    ASSUME PerThread, NEW t \in Threads, NEW step \in Steps, NEW l \in Locals,
           Fits(step, l), Continue(t, step, l)
    PROVE  PerThread'
<1>1. ret' \in [Threads -> Statuses]
  BY DEF Continue, PerThread
<1> QED BY <1>1, GotoType DEF Continue

LEMMA ReturnType ==
    ASSUME PerThread, NEW t \in Threads, NEW status \in Statuses, Return(t, status)
    PROVE  PerThread'
<1>1. ret' \in [Threads -> Statuses]
  BY DEF Return, PerThread
<1>2. Fits("idle", Fresh) /\ "idle" \in Steps
  BY DEF Fits, Fresh, Steps
<1> QED BY <1>1, <1>2, FreshType, GotoType DEF Return

LEMMA GiveUpType ==
    ASSUME PerThread, NEW t \in Threads, GiveUp(t)
    PROVE  PerThread'
<1>1. CASE loc[t].masked
  <2> DEFINE l == [Fresh EXCEPT !.base = (WordOf(loc[t].base) + 1) * WordBits]
  <2>1. l \in Locals /\ Fits("check", l)
    BY <1>1, FreshType, WordOfType DEF Locals, Fresh, Fits, PerThread
  <2>2. Continue(t, "check", l) /\ "check" \in Steps
    BY <1>1 DEF GiveUp, Steps
  <2> QED BY <2>1, <2>2, ContinueType
<1>2. CASE ~ loc[t].masked
  BY <1>2, ReturnType DEF GiveUp, Statuses
<1> QED BY <1>1, <1>2

(* The state all threads share, and the blocks they hold.                     *)
SharedType ==
    /\ free \in SUBSET Blocks
    /\ avail \in Int
    /\ used \in Int
    /\ busy \in BOOLEAN
    /\ held \in [Threads -> SUBSET Blocks]

LEMMA CallType ==
    ASSUME SharedType, PerThread, NEW t \in Threads, Call(t)
    PROVE  SharedType' /\ PerThread'
<1> USE DEF shared
<1>1. CASE CallAcquire(t)
  <2>1. PerThread'
    <3>1. Fits("check", Fresh)
      BY DEF Fits, Fresh
    <3> QED BY <1>1, <3>1, FreshType, EnterType DEF CallAcquire, Steps
  <2>2. SharedType'
    BY <1>1 DEF CallAcquire, SharedType
  <2> QED BY <2>1, <2>2
<1>2. ASSUME NEW b \in Blocks, CallObtain(t, b) PROVE SharedType' /\ PerThread'
  <2>1. CASE avail = 0
    BY <1>2, <2>1, ReturnType DEF CallObtain, Statuses, SharedType
  <2>2. CASE avail # 0 /\ b % WordSize = 0
    <3>1. Fresh \in Locals /\ Fits("check", Fresh)
      BY FreshType DEF Fresh, Fits
    <3>2. Enter(t, "check", Fresh) /\ "check" \in Steps
      BY <1>2, <2>2 DEF CallObtain, Steps
    <3>3. PerThread'
      BY <3>1, <3>2, EnterType
    <3> QED BY <1>2, <3>3 DEF CallObtain, SharedType
  <2>3. CASE avail # 0 /\ b % WordSize # 0
    <3> DEFINE l == [Fresh EXCEPT !.base = b, !.masked = TRUE]
    <3>0. b \in 0 .. BlockCount
      BY BlockCountType DEF Blocks
    <3>1. l \in Locals /\ Fits("round", l)
      BY <3>0, FreshType DEF Locals, Fresh, Fits
    <3>2. Enter(t, "round", l) /\ "round" \in Steps
      BY <1>2, <2>3 DEF CallObtain, Steps
    <3>3. PerThread'
      BY <3>1, <3>2, EnterType
    <3> QED BY <1>2, <3>3 DEF CallObtain, SharedType
  <2> QED BY <2>1, <2>2, <2>3
<1>3. ASSUME NEW b \in Blocks, CallPossess(t, b) PROVE SharedType' /\ PerThread'
  <2>1. SharedType'
    BY <1>3 DEF CallPossess, SharedType
  <2>2. CASE b \in free
    <3> DEFINE l == [Fresh EXCEPT !.cand = b]
    <3>1. l \in Locals /\ Fits("decAvail", l)
      BY FreshType DEF Locals, Fresh, Fits
    <3>2. Enter(t, "decAvail", l) /\ "decAvail" \in Steps
      BY <1>3, <2>2 DEF CallPossess, Steps
    <3> QED BY <2>1, <3>1, <3>2, EnterType
  <2>3. CASE b \notin free
    BY <1>3, <2>1, <2>3, ReturnType DEF CallPossess, Statuses
  <2> QED BY <2>2, <2>3
<1>4. ASSUME NEW b \in Blocks, CallRelease(t, b) PROVE SharedType' /\ PerThread'
  <2>1. SharedType'
    BY <1>4 DEF CallRelease, SharedType
  <2> DEFINE l == [Fresh EXCEPT !.cand = b]
  <2>2. l \in Locals /\ Fits("or", l)
    BY FreshType DEF Locals, Fresh, Fits
  <2>3. Enter(t, "or", l) /\ "or" \in Steps
    BY <1>4 DEF CallRelease, Steps
  <2> QED BY <2>1, <2>2, <2>3, EnterType
<1> QED BY <1>1, <1>2, <1>3, <1>4 DEF Call

LEMMA SearchType ==
    ASSUME SharedType, PerThread, NEW t \in Threads,
           Check(t) \/ Round(t) \/ Scan(t) \/ Read(t)
    PROVE  SharedType' /\ PerThread'
<1> USE DEF shared
<1>0. loc[t] \in Locals /\ pc[t] \in Steps /\ Fits(pc[t], loc[t])
  BY DEF PerThread
<1>1. SharedType'
  BY DEF Check, Round, Scan, Read, SharedType
<1>2. CASE Check(t)
  <2>1. CASE avail = 0
    BY <1>1, <1>2, <2>1, ReturnType DEF Check, Statuses
  <2>2. CASE avail # 0
    <3> DEFINE l == [Fresh EXCEPT !.base = loc[t].base]
    <3>1. l \in Locals /\ Fits("round", l)
      BY <1>0, FreshType DEF Locals, Fresh, Fits
    <3>2. Continue(t, "round", l) /\ "round" \in Steps
      BY <1>2, <2>2 DEF Check, Steps
    <3> QED BY <1>1, <3>1, <3>2, ContinueType
  <2> QED BY <2>1, <2>2
<1>3. CASE Round(t)
  <2>1. CASE avail # 0 /\ loc[t].trips < RoundTrips
    <3> DEFINE l == [loc[t] EXCEPT !.word = WordOf(loc[t].base)]
    <3>1. WordOf(loc[t].base) \in 0 .. PtrCount
      BY <1>0, BaseWord DEF Locals
    <3>2. l \in Locals /\ Fits("scan", l)
      BY <1>0, <2>1, <3>1 DEF Locals, Fits
    <3>3. Continue(t, "scan", l) /\ "scan" \in Steps
      BY <1>3, <2>1 DEF Round, Steps
    <3> QED BY <1>1, <3>2, <3>3, ContinueType
  <2>2. CASE ~ (avail # 0 /\ loc[t].trips < RoundTrips)
    BY <1>1, <1>3, <2>2, GiveUpType DEF Round
  <2> QED BY <2>1, <2>2
<1>4. CASE Scan(t)
  <2>0. loc[t].trips < RoundTrips
    BY <1>0, <1>4 DEF Scan, Fits
  <2>1. ASSUME loc[t].word < PtrCount, NEW b \in Visible(t),
               Continue(t, "read", [loc[t] EXCEPT !.cand = b, !.word = 0,
                                                  !.tries = LockTries])
        PROVE  PerThread'
    <3> DEFINE l == [loc[t] EXCEPT !.cand = b, !.word = 0, !.tries = LockTries]
    <3>1. b \in Blocks
      BY DEF Visible, InWord
    <3>2. 0 \in 0 .. PtrCount /\ LockTries \in 0 .. LockTries /\ LockTries > 0
      BY SizesAssumption, TriesAssumption
    <3>3. l \in Locals
      BY <1>0, <3>1, <3>2 DEF Locals
    <3>4. /\ l.tries = LockTries /\ l.trips = loc[t].trips
          /\ l.masked = loc[t].masked /\ l.base = loc[t].base
      BY <1>0 DEF Locals
    <3>5. Fits("read", l)
      BY <1>0, <2>0, <3>2, <3>4 DEF Fits
    <3> QED BY <2>1, <3>3, <3>5, ContinueType DEF Steps
  <2>2. ASSUME loc[t].word < PtrCount,
               Continue(t, "scan", [loc[t] EXCEPT !.word = @ + 1])
        PROVE  PerThread'
    <3> DEFINE l == [loc[t] EXCEPT !.word = @ + 1]
    <3>1. l \in Locals /\ Fits("scan", l)
      BY <1>0, <2>0, <2>2, SizesAssumption DEF Locals, Fits
    <3> QED BY <2>2, <3>1, ContinueType DEF Steps
  <2> QED BY <1>1, <1>4, <2>1, <2>2, GiveUpType DEF Scan
<1>5. CASE Read(t)
  <2> DEFINE l == [loc[t] EXCEPT !.snap = CandWord(t) \cup {loc[t].cand}]
  <2>1. CandWord(t) \cup {loc[t].cand} \in SUBSET Blocks
    BY <1>0, CandWordType DEF Locals
  <2>2. l \in Locals /\ Fits("swap", l)
    BY <1>0, <1>5, <2>1 DEF Read, Locals, Fits
  <2>3. Continue(t, "swap", l) /\ "swap" \in Steps
    BY <1>5 DEF Read, Steps
  <2> QED BY <1>1, <2>2, <2>3, ContinueType
<1> QED BY <1>2, <1>3, <1>4, <1>5

LEMMA SwapType ==
    ASSUME SharedType, PerThread, NEW t \in Threads, Swap(t)
    PROVE  SharedType' /\ PerThread'
<1>0. loc[t] \in Locals /\ Fits("swap", loc[t])
  BY DEF PerThread, Swap
<1>1. avail' \in Int /\ used' \in Int /\ free' \in SUBSET Blocks
      /\ held' \in [Threads -> SUBSET Blocks]
  BY DEF Swap, SharedType
<1>2. busy' \in BOOLEAN
  BY Zenon DEF Swap, SharedType
<1>3. SharedType'
  BY <1>1, <1>2 DEF SharedType
<1>4. ASSUME Continue(t, "decAvail", [Fresh EXCEPT !.cand = loc[t].cand])
      PROVE  PerThread'
  <2> DEFINE l == [Fresh EXCEPT !.cand = loc[t].cand]
  <2>1. l \in Locals /\ Fits("decAvail", l)
    BY <1>0, FreshType DEF Locals, Fresh, Fits
  <2> QED BY <1>4, <2>1, ContinueType DEF Steps
<1>5. ASSUME Continue(t, "round", [Fresh EXCEPT !.masked = loc[t].masked,
                                                !.base = loc[t].base,
                                                !.trips = loc[t].trips + 1])
      PROVE  PerThread'
  <2> DEFINE l == [Fresh EXCEPT !.masked = loc[t].masked, !.base = loc[t].base,
                                !.trips = loc[t].trips + 1]
  <2>1. loc[t].trips + 1 \in 0 .. RoundTrips
    BY <1>0, TriesAssumption DEF Locals, Fits
  <2>2. l \in Locals
    BY <1>0, <2>1, FreshType DEF Locals, Fresh
  <2>3. l.masked = loc[t].masked /\ l.base = loc[t].base
    BY DEF Fresh
  <2>4. Fits("round", l)
    BY <1>0, <2>3 DEF Fits
  <2> QED BY <1>5, <2>2, <2>4, ContinueType DEF Steps
<1>6. ASSUME loc[t].tries > 1,
             Continue(t, "read", [loc[t] EXCEPT !.tries = @ - 1, !.snap = {}])
      PROVE  PerThread'
  <2> DEFINE l == [loc[t] EXCEPT !.tries = @ - 1, !.snap = {}]
  <2>1. loc[t].tries - 1 \in 0 .. LockTries /\ loc[t].tries - 1 > 0
    BY <1>0, <1>6, TriesAssumption DEF Locals
  <2>2. l \in Locals
    BY <1>0, <2>1 DEF Locals
  <2>3. /\ l.tries = loc[t].tries - 1 /\ l.trips = loc[t].trips
        /\ l.masked = loc[t].masked /\ l.base = loc[t].base
    BY <1>0 DEF Locals
  <2>4. Fits("read", l)
    BY <1>0, <2>1, <2>3 DEF Fits
  <2> QED BY <1>6, <2>2, <2>4, ContinueType DEF Steps
<1>7. ASSUME Return(t, "DEVICE_BUSY") PROVE PerThread'
  BY <1>7, ReturnType DEF Statuses
<1> QED BY <1>3, <1>4, <1>5, <1>6, <1>7 DEF Swap

LEMMA CountersType ==
    ASSUME SharedType, PerThread, NEW t \in Threads,
           DecAvail(t) \/ IncUsed(t) \/ Or(t) \/ DecUsed(t) \/ IncAvail(t)
    PROVE  SharedType' /\ PerThread'
<1>0. loc[t] \in Locals /\ Fits(pc[t], loc[t])
  BY DEF PerThread
<1>1. SharedType'
  BY <1>0 DEF DecAvail, IncUsed, Or, DecUsed, IncAvail, SharedType, Locals
<1>2. Fits("decUsed", Fresh) /\ Fits("incAvail", Fresh)
  BY DEF Fits, Fresh
<1>3. CASE DecAvail(t)
  <2>1. Fits("incUsed", loc[t])
    BY <1>0 DEF Fits
  <2> QED BY <1>0, <1>1, <1>3, <2>1, ContinueType DEF DecAvail, Steps
<1>4. CASE IncUsed(t) \/ IncAvail(t)
  BY <1>1, <1>4, ReturnType DEF IncUsed, IncAvail, Statuses
<1>5. CASE Or(t) \/ DecUsed(t)
  BY <1>1, <1>2, <1>5, FreshType, ContinueType DEF Or, DecUsed, Steps
<1> QED BY <1>3, <1>4, <1>5

(* Every state of the allocator is well-typed, whatever calls are made.       *)
THEOREM TypeCorrect == Spec => []TypeOK
<1>1. Init => TypeOK
  BY InitType
<1>2. TypeOK /\ [Next]_vars => TypeOK'
  <2> SUFFICES ASSUME SharedType, PerThread, [Next]_vars
               PROVE  SharedType' /\ PerThread'
    BY DEF TypeOK, SharedType, PerThread
  <2>1. ASSUME NEW t \in Threads, Call(t) \/ Work(t)
        PROVE  SharedType' /\ PerThread'
    BY <2>1, CallType, SearchType, SwapType, CountersType DEF Work
  <2>2. CASE UNCHANGED vars
    BY <2>2 DEF vars, SharedType, PerThread
  <2> QED BY <2>1, <2>2 DEF Next
<1> QED BY <1>1, <1>2, PTL DEF Spec

-----------------------------------------------------------------------------
(* Exclusive ownership.  Without possess, every step of the allocator is a    *)
(* step of the abstract pool or leaves it alone; the only fact about the      *)
(* interleaving it takes is that a block on its way back is not also held.    *)

Flight == {"decAvail", "incUsed", "or"}

GivenUp == \A t \in Threads : pc[t] = "or" => loc[t].cand \notin held[t]

(* What a step of t does to the claims of all threads.                        *)
LEMMA ClaimsAfter ==
    ASSUME TypeOK, NEW t \in Threads, NEW step, NEW l,
           Goto(t, step, l)
    PROVE  /\ \A s \in Threads \ {t} : InFlight(s)' = InFlight(s)
           /\ InFlight(t)' = IF step \in Flight THEN {l.cand} ELSE {}
BY DEF TypeOK, Goto, InFlight, Flight

(* A step that leaves the bitmap, the holders and t's own claim alone.        *)
LEMMA SilentStep ==
    ASSUME TypeOK, NEW t \in Threads, UNCHANGED <<free, held>>,
           NEW step, NEW l, Goto(t, step, l),
           \/ pc[t] \notin Flight /\ step \notin Flight
           \/ pc[t] \in Flight /\ step \in Flight /\ l.cand = loc[t].cand
    PROVE  UNCHANGED Pool!poolVars
<1>1. InFlight(t)' = InFlight(t)
  <2>1. InFlight(t)' = IF step \in Flight THEN {l.cand} ELSE {}
    BY ClaimsAfter
  <2>2. InFlight(t) = IF pc[t] \in Flight THEN {loc[t].cand} ELSE {}
    BY DEF InFlight, Flight
  <2> QED BY <2>1, <2>2
<1>2. \A s \in Threads : held'[s] \cup InFlight(s)' = held[s] \cup InFlight(s)
  BY <1>1, ClaimsAfter
<1>3. Claimed' = Claimed
  BY <1>2 DEF Claimed
<1> QED BY <1>3 DEF Pool!poolVars

LEMMA GiveUpSilent ==
    ASSUME TypeOK, NEW t \in Threads, UNCHANGED <<free, held>>, GiveUp(t),
           pc[t] \notin Flight
    PROVE  UNCHANGED Pool!poolVars
BY SilentStep DEF GiveUp, Continue, Return, Flight

(* Every step but the swap, possess and the or is silent for the pool.        *)
LEMMA SilentSteps ==
    ASSUME TypeOK, GivenUp, NEW t \in Threads,
           \/ CallAcquire(t)
           \/ \E b \in Blocks : CallObtain(t, b) \/ CallRelease(t, b)
           \/ Check(t) \/ Round(t) \/ Scan(t) \/ Read(t) \/ DecAvail(t)
           \/ IncUsed(t) \/ DecUsed(t) \/ IncAvail(t)
    PROVE  UNCHANGED Pool!poolVars
<1> USE DEF shared
<1>1. CASE CallAcquire(t)
  BY <1>1, SilentStep DEF CallAcquire, Enter, Flight
<1>2. ASSUME NEW b \in Blocks, CallObtain(t, b) PROVE UNCHANGED Pool!poolVars
  BY <1>2, SilentStep DEF CallObtain, Enter, Return, Flight
<1>3. ASSUME NEW b \in Blocks, CallRelease(t, b) PROVE UNCHANGED Pool!poolVars
  <2>0. InFlight(t) = {}
    BY <1>3 DEF CallRelease, InFlight
  <2>1. InFlight(t) = {} /\ InFlight(t)' = {b}
    BY <1>3, <2>0, ClaimsAfter DEF CallRelease, Enter, Flight, Fresh
  <2>2. held'[t] \cup InFlight(t)' = held[t] \cup InFlight(t)
    BY <1>3, <2>1 DEF CallRelease, TypeOK
  <2>3. \A s \in Threads \ {t} :
            held'[s] \cup InFlight(s)' = held[s] \cup InFlight(s)
    BY <1>3, ClaimsAfter DEF CallRelease, Enter, TypeOK
  <2>4. Claimed' = Claimed
    BY <2>2, <2>3 DEF Claimed
  <2> QED BY <1>3, <2>4 DEF Pool!poolVars, CallRelease
<1>4. CASE Check(t) \/ Read(t)
  BY <1>4, SilentStep DEF Check, Read, Return, Continue, Flight
<1>5. CASE Round(t)
  <2>1. ASSUME NEW l, Continue(t, "scan", l) PROVE UNCHANGED Pool!poolVars
    BY <1>5, <2>1, SilentStep DEF Round, Continue, Flight
  <2>2. ASSUME GiveUp(t) PROVE UNCHANGED Pool!poolVars
    BY <1>5, <2>2, GiveUpSilent DEF Round, Flight
  <2> QED BY <1>5, <2>1, <2>2 DEF Round
<1>6. CASE Scan(t)
  <2>1. ASSUME NEW l, Continue(t, "scan", l) \/ Continue(t, "read", l)
        PROVE UNCHANGED Pool!poolVars
    BY <1>6, <2>1, SilentStep DEF Scan, Continue, Flight
  <2>2. ASSUME GiveUp(t) PROVE UNCHANGED Pool!poolVars
    BY <1>6, <2>2, GiveUpSilent DEF Scan, Flight
  <2> QED BY <1>6, <2>1, <2>2 DEF Scan
<1>7. CASE DecAvail(t)
  BY <1>7, SilentStep DEF DecAvail, Continue, Flight
<1>8. CASE IncUsed(t)
  <2>0. InFlight(t) = {loc[t].cand}
    BY <1>8 DEF IncUsed, InFlight
  <2>1. InFlight(t) = {loc[t].cand} /\ InFlight(t)' = {}
    BY <1>8, <2>0, ClaimsAfter DEF IncUsed, Return, Flight
  <2>2. held'[t] \cup InFlight(t)' = held[t] \cup InFlight(t)
    BY <1>8, <2>1 DEF IncUsed, TypeOK
  <2>3. \A s \in Threads \ {t} :
            held'[s] \cup InFlight(s)' = held[s] \cup InFlight(s)
    BY <1>8, ClaimsAfter DEF IncUsed, Return, TypeOK
  <2>4. Claimed' = Claimed
    BY <2>2, <2>3 DEF Claimed
  <2> QED BY <1>8, <2>4 DEF Pool!poolVars, IncUsed
<1>9. CASE DecUsed(t) \/ IncAvail(t)
  BY <1>9, SilentStep DEF DecUsed, IncAvail, Continue, Return, Flight
<1> QED BY <1>1, <1>2, <1>3, <1>4, <1>5, <1>6, <1>7, <1>8, <1>9

(* A swap that succeeds takes a free block: the word it compares with holds   *)
(* the candidate.                                                             *)
LEMMA SwapTakes ==
    ASSUME TypeOK, NEW t \in Threads, Swap(t)
    PROVE  UNCHANGED Pool!poolVars \/ Pool!Take(t, loc[t].cand)
<1>1. CASE free' = free \ {loc[t].cand} /\ CandWord(t) = loc[t].snap
           /\ Continue(t, "decAvail", [Fresh EXCEPT !.cand = loc[t].cand])
  <2>1. loc[t].cand \in free
    BY <1>1 DEF TypeOK, Fits, Swap, CandWord
  <2>0. InFlight(t) = {}
    BY DEF Swap, InFlight
  <2>2. InFlight(t) = {} /\ InFlight(t)' = {loc[t].cand}
    BY <1>1, <2>0, ClaimsAfter DEF Continue, Flight, Fresh
  <2>3. held' = held
    BY DEF Swap
  <2>4. \A s \in Threads \ {t} : InFlight(s)' = InFlight(s)
    BY <1>1, ClaimsAfter DEF Continue
  <2>5. Claimed' = [Claimed EXCEPT ![t] = @ \cup {loc[t].cand}]
    BY <2>2, <2>3, <2>4 DEF Claimed
  <2> QED BY <1>1, <2>1, <2>5 DEF Pool!Take
<1>2. ASSUME NEW step, NEW l, Goto(t, step, l), step \notin Flight, free' = free
      PROVE  UNCHANGED Pool!poolVars
  BY <1>2, SilentStep DEF Swap, Flight
<1> QED BY <1>1, <1>2 DEF Swap, Continue, Return, Flight

(* The or of release gives the block back to the pool.                        *)
LEMMA OrGives ==
    ASSUME TypeOK, GivenUp, NEW t \in Threads, Or(t)
    PROVE  Pool!Give(t, loc[t].cand)
<1>1. loc[t].cand \notin held[t]
  BY DEF GivenUp, Or
<1>0. InFlight(t) = {loc[t].cand}
  BY DEF Or, InFlight
<1>2. InFlight(t) = {loc[t].cand} /\ InFlight(t)' = {}
  BY <1>0, ClaimsAfter DEF Or, Continue, Flight
<1>3. \A s \in Threads \ {t} : InFlight(s)' = InFlight(s)
  BY ClaimsAfter DEF Or, Continue
<1>4. Claimed' = [Claimed EXCEPT ![t] = @ \ {loc[t].cand}]
  BY <1>1, <1>2, <1>3 DEF Claimed, Or
<1> QED BY <1>2, <1>4 DEF Pool!Give, Or, Claimed

LEMMA InitPool == Init => Pool!PoolInit /\ GivenUp
<1> SUFFICES ASSUME Init PROVE Pool!PoolInit /\ GivenUp
  OBVIOUS
<1>1. \A t \in Threads : InFlight(t) = {}
  BY DEF Init, InFlight
<1>2. Claimed = held
  BY <1>1 DEF Claimed, Init
<1>3. GivenUp
  BY DEF Init, GivenUp
<1> QED BY <1>2, <1>3 DEF Init, Pool!PoolInit, Pool!Partition

LEMMA GivenUpStep ==
    ASSUME TypeOK, GivenUp, NEW t \in Threads, Call(t) \/ Work(t)
    PROVE  GivenUp'
<1> SUFFICES ASSUME NEW s \in Threads, pc'[s] = "or"
             PROVE  loc'[s].cand \notin held'[s]
  BY DEF GivenUp
<1>1. CASE \E b \in Blocks : CallRelease(t, b)
  <2>1. PICK b \in Blocks : CallRelease(t, b)
    BY <1>1
  <2>2. CASE s = t
    BY <2>1, <2>2 DEF CallRelease, Enter, Goto, TypeOK, Fresh
  <2>3. CASE s # t
    BY <2>1, <2>3 DEF CallRelease, Enter, Goto, TypeOK, GivenUp
  <2> QED BY <2>2, <2>3
<1>2. CASE ~ \E b \in Blocks : CallRelease(t, b)
  <2>1. /\ pc'[t] # "or"
        /\ \A r \in Threads \ {t} : pc'[r] = pc[r] /\ loc'[r] = loc[r]
    <3>1. ASSUME NEW step, NEW l, Goto(t, step, l), step # "or"
          PROVE  /\ pc'[t] # "or"
                 /\ \A r \in Threads \ {t} : pc'[r] = pc[r] /\ loc'[r] = loc[r]
      BY <3>1 DEF Goto, TypeOK
    <3>2. CASE Call(t)
      BY <1>2, <3>1, <3>2 DEF Call, CallAcquire, CallObtain, CallPossess, Enter, Return
    <3>3. CASE Check(t) \/ Round(t) \/ Scan(t) \/ Read(t)
      BY <3>1, <3>3 DEF Check, Round, Scan, Read, GiveUp, Continue, Return
    <3>4. CASE Swap(t)
      BY <3>1, <3>4 DEF Swap, GiveUp, Continue, Return
    <3>5. CASE DecAvail(t) \/ IncUsed(t) \/ Or(t) \/ DecUsed(t) \/ IncAvail(t)
      BY <3>1, <3>5 DEF DecAvail, IncUsed, Or, DecUsed, IncAvail, Continue, Return
    <3> QED BY <3>2, <3>3, <3>4, <3>5 DEF Work
  <2>2. s # t /\ pc[s] = "or" /\ loc'[s] = loc[s]
    BY <2>1
  <2>3. held'[s] = held[s]
    <3>1. CASE Call(t)
      BY <1>2, <2>2, <3>1 DEF Call, CallAcquire, CallObtain, CallPossess, TypeOK
    <3>2. CASE Work(t)
      BY <2>2, <3>2 DEF Work, Check, Round, Scan, Read, Swap, DecAvail, IncUsed,
                        Or, DecUsed, IncAvail, TypeOK
    <3> QED BY <3>1, <3>2
  <2> QED BY <2>2, <2>3 DEF GivenUp
<1> QED BY <1>1, <1>2

(* Every step of the allocator maps to a step of the pool or to a stutter.    *)
LEMMA StepSimulation ==
    ASSUME "possess" \notin Ops, TypeOK, GivenUp, [Next]_vars
    PROVE  [Pool!PoolNext]_Pool!poolVars
<1>1. ASSUME NEW t \in Threads, Call(t) \/ Work(t)
      PROVE  UNCHANGED Pool!poolVars \/ Pool!PoolNext
  <2>0. loc[t].cand \in Blocks
    BY DEF TypeOK, Locals
  <2>1. CASE Swap(t)
    BY <2>0, <2>1, SwapTakes DEF Pool!PoolNext
  <2>2. CASE Or(t)
    BY <2>0, <2>2, OrGives DEF Pool!PoolNext
  <2>3. CASE ~ Swap(t) /\ ~ Or(t)
    BY <1>1, <2>3, SilentSteps DEF Call, Work, CallPossess
  <2> QED BY <2>1, <2>2, <2>3
<1>2. CASE UNCHANGED vars
  <2>1. Claimed' = Claimed /\ free' = free
    BY <1>2 DEF vars, Claimed, InFlight
  <2> QED BY <2>1 DEF Pool!poolVars
<1> QED BY <1>1, <1>2 DEF Next

(* The pool's own steps keep every block with one holder.                     *)
LEMMA PoolKeepsPartition ==
    ASSUME Pool!Partition, [Pool!PoolNext]_Pool!poolVars
    PROVE  Pool!Partition'
<1>0. \A t \in Threads : Claimed[t] = held[t] \cup InFlight(t)
  BY DEF Claimed
<1>1. ASSUME NEW t \in Threads, NEW b \in Blocks, Pool!Take(t, b)
      PROVE  Pool!Partition'
  <2>1. b \in free /\ free' = free \ {b}
    BY <1>1 DEF Pool!Take
  <2>2. Claimed'[t] = Claimed[t] \cup {b} /\ \A s \in Threads \ {t} : Claimed'[s] = Claimed[s]
    BY <1>1 DEF Pool!Take, Claimed
  <2> QED BY <2>1, <2>2 DEF Pool!Partition
<1>2. ASSUME NEW t \in Threads, NEW b \in Blocks, Pool!Give(t, b)
      PROVE  Pool!Partition'
  <2>1. b \in Claimed[t] /\ free' = free \cup {b}
    BY <1>2 DEF Pool!Give
  <2>2. Claimed'[t] = Claimed[t] \ {b} /\ \A s \in Threads \ {t} : Claimed'[s] = Claimed[s]
    BY <1>2 DEF Pool!Give, Claimed
  <2> QED BY <2>1, <2>2 DEF Pool!Partition
<1>3. CASE UNCHANGED Pool!poolVars
  BY <1>3 DEF Pool!poolVars, Pool!Partition
<1> QED BY <1>1, <1>2, <1>3 DEF Pool!PoolNext

(* As long as nobody calls possess, no block ever has two owners, for any     *)
(* number of threads racing in acquire, obtain and release.                   *)
THEOREM Exclusive == ASSUME "possess" \notin Ops PROVE Spec => []ExclusiveOwnership
<1>1. Init => ExclusiveOwnership /\ GivenUp
  BY InitPool DEF Pool!PoolInit, ExclusiveOwnership
<1>2. TypeOK /\ GivenUp /\ [Next]_vars => GivenUp'
  <2>1. CASE UNCHANGED vars
    BY <2>1 DEF vars, GivenUp
  <2> QED BY <2>1, GivenUpStep DEF Next
<1>3. TypeOK /\ GivenUp /\ ExclusiveOwnership /\ [Next]_vars => ExclusiveOwnership'
  BY StepSimulation, PoolKeepsPartition DEF ExclusiveOwnership
<1> QED BY <1>1, <1>2, <1>3, TypeCorrect, PTL DEF Spec

(* Without possess the lock-free allocator implements the abstract pool: a    *)
(* taken block was free at that very step, and only its holder returns it.    *)
THEOREM Implementation == ASSUME "possess" \notin Ops PROVE Spec => ImplementsPool
<1>1. Init => Pool!PoolInit /\ GivenUp
  BY InitPool
<1>2. TypeOK /\ GivenUp /\ [Next]_vars => GivenUp'
  <2>1. CASE UNCHANGED vars
    BY <2>1 DEF vars, GivenUp
  <2> QED BY <2>1, GivenUpStep DEF Next
<1>3. TypeOK /\ GivenUp /\ [Next]_vars => [Pool!PoolNext]_Pool!poolVars
  BY StepSimulation
<1> QED BY <1>1, <1>2, <1>3, TypeCorrect, PTL DEF Spec, ImplementsPool, Pool!PoolSpec

-----------------------------------------------------------------------------
(* The counter of free blocks.                                                *)

Delta(S, x) == IF x \in S THEN 1 ELSE 0

(* A step of t moves at most t in or out of a set of program points.          *)
LEMMA AtAfter ==
    ASSUME TypeOK, NEW t \in Threads, NEW step, NEW l, Goto(t, step, l), NEW S
    PROVE  /\ Cardinality(At(S)) \in Nat
           /\ Cardinality(At(S)') = Cardinality(At(S)) + Delta(S, step) - Delta(S, pc[t])
<1>1. IsFiniteSet(At(S)) /\ Cardinality(At(S)) \in Nat
  BY ThreadsAssumption, FS_Subset, FS_CardinalityType DEF At
<1>2. At(S)' = IF step \in S THEN At(S) \cup {t} ELSE At(S) \ {t}
  BY DEF At, Goto, TypeOK
<1>3. t \in At(S) <=> pc[t] \in S
  BY DEF At
<1>4. CASE step \in S
  BY <1>1, <1>2, <1>3, <1>4, FS_AddElement DEF Delta
<1>5. CASE step \notin S
  <2>1. Cardinality(At(S)') = IF t \in At(S) THEN Cardinality(At(S)) - 1
                                             ELSE Cardinality(At(S))
    BY <1>1, <1>2, <1>5, FS_RemoveElement
  <2> QED BY <1>1, <1>3, <1>5, <2>1 DEF Delta
<1> QED BY <1>1, <1>4, <1>5

Taking == {"decAvail"}
Giving == {"decUsed", "incAvail"}

(* Steps that leave the bitmap, the counter and the two program points alone. *)
LEMMA UncountedStep ==
    ASSUME TypeOK, AvailTracksBitmap, NEW t \in Threads, NEW step, NEW l,
           Goto(t, step, l), UNCHANGED <<free, avail>>,
           Delta(Taking, step) = Delta(Taking, pc[t]),
           Delta(Giving, step) = Delta(Giving, pc[t])
    PROVE  AvailTracksBitmap'
<1>1. /\ Cardinality(At(Taking)) \in Nat
      /\ Cardinality(At(Taking)') = Cardinality(At(Taking))
      /\ Cardinality(At(Giving)) \in Nat
      /\ Cardinality(At(Giving)') = Cardinality(At(Giving))
  BY AtAfter DEF Delta
<1> QED BY <1>1 DEF AvailTracksBitmap, Taking, Giving

LEMMA FreeFinite ==
    ASSUME TypeOK PROVE IsFiniteSet(free) /\ Cardinality(free) \in Nat
<1>1. IsFiniteSet(Blocks)
  BY FS_Interval, BlockCountType DEF Blocks
<1> QED BY <1>1, FS_Subset, FS_CardinalityType DEF TypeOK

LEMMA GiveUpUncounted ==
    ASSUME TypeOK, AvailTracksBitmap, NEW t \in Threads, GiveUp(t),
           UNCHANGED <<free, avail>>, pc[t] \notin Taking \cup Giving
    PROVE  AvailTracksBitmap'
BY UncountedStep DEF GiveUp, Continue, Return, Taking, Giving, Delta

LEMMA CallCounted ==
    ASSUME "possess" \notin Ops, TypeOK, AvailTracksBitmap, NEW t \in Threads, Call(t)
    PROVE  AvailTracksBitmap'
<1> USE DEF shared
<1>1. pc[t] = "idle" /\ UNCHANGED <<free, avail>>
  BY DEF Call, CallAcquire, CallObtain, CallPossess, CallRelease
<1>2. ASSUME NEW step \in {"idle", "check", "round", "or"}, NEW l, Goto(t, step, l)
      PROVE  AvailTracksBitmap'
  <2>1. Delta(Taking, step) = Delta(Taking, pc[t]) /\ Delta(Giving, step) = Delta(Giving, pc[t])
    BY <1>1 DEF Taking, Giving, Delta
  <2> QED BY <1>1, <1>2, <2>1, UncountedStep
<1> QED BY <1>2 DEF Call, CallAcquire, CallObtain, CallPossess, CallRelease, Enter, Return

LEMMA SearchCounted ==
    ASSUME TypeOK, AvailTracksBitmap, NEW t \in Threads,
           Check(t) \/ Round(t) \/ Scan(t) \/ Read(t) \/ IncUsed(t) \/ DecUsed(t)
    PROVE  AvailTracksBitmap'
<1> USE DEF shared
<1>1. UNCHANGED <<free, avail>>
  BY DEF Check, Round, Scan, Read, IncUsed, DecUsed
<1>2. ASSUME NEW step \in {"idle", "round", "scan", "read", "swap"}, NEW l,
             Goto(t, step, l), pc[t] \notin Taking \cup Giving
      PROVE  AvailTracksBitmap'
  <2>1. Delta(Taking, step) = Delta(Taking, pc[t]) /\ Delta(Giving, step) = Delta(Giving, pc[t])
    BY <1>2 DEF Taking, Giving, Delta
  <2> QED BY <1>1, <1>2, <2>1, UncountedStep
<1>3. CASE Check(t) \/ Read(t) \/ IncUsed(t)
  BY <1>2, <1>3 DEF Check, Read, IncUsed, Continue, Return, Taking, Giving
<1>4. CASE Round(t) \/ Scan(t)
  <2>1. pc[t] \notin Taking \cup Giving
    BY <1>4 DEF Round, Scan, Taking, Giving
  <2>2. \/ GiveUp(t)
        \/ \E l : Goto(t, "scan", l) \/ Goto(t, "read", l)
    BY <1>4 DEF Round, Scan, Continue
  <2> QED BY <1>1, <1>2, <2>1, <2>2, GiveUpUncounted
<1>5. CASE DecUsed(t)
  <2>1. /\ Delta(Taking, "incAvail") = Delta(Taking, pc[t])
        /\ Delta(Giving, "incAvail") = Delta(Giving, pc[t])
    BY <1>5 DEF DecUsed, Taking, Giving, Delta
  <2> QED BY <1>1, <1>5, <2>1, UncountedStep DEF DecUsed, Continue
<1> QED BY <1>3, <1>4, <1>5

(* The swap takes one bit and starts one pending decrement.                   *)
LEMMA SwapCounted ==
    ASSUME TypeOK, AvailTracksBitmap, NEW t \in Threads, Swap(t)
    PROVE  AvailTracksBitmap'
<1>1. CASE free' = free \ {loc[t].cand} /\ CandWord(t) = loc[t].snap
           /\ Continue(t, "decAvail", [Fresh EXCEPT !.cand = loc[t].cand])
  <2>1. loc[t].cand \in free
    BY <1>1 DEF TypeOK, Fits, Swap, CandWord
  <2>2. Cardinality(free') = Cardinality(free) - 1
    BY <1>1, <2>1, FreeFinite, FS_RemoveElement
  <2>3. /\ Cardinality(At(Taking)) \in Nat
        /\ Cardinality(At(Taking)') = Cardinality(At(Taking)) + 1
        /\ Cardinality(At(Giving)) \in Nat
        /\ Cardinality(At(Giving)') = Cardinality(At(Giving))
    BY <1>1, AtAfter DEF Continue, Swap, Delta, Taking, Giving
  <2> QED BY <2>2, <2>3, FreeFinite DEF AvailTracksBitmap, Swap, Taking, Giving
<1>2. ASSUME NEW step \in {"idle", "round", "read"}, NEW l, Goto(t, step, l), free' = free
      PROVE  AvailTracksBitmap'
  BY <1>2, UncountedStep DEF Swap, Delta, Taking, Giving
<1> QED BY <1>1, <1>2 DEF Swap, Continue, Return

(* The or sets one bit that was clear and starts one pending increment.       *)
LEMMA OrCounted ==
    ASSUME TypeOK, ExclusiveOwnership, AvailTracksBitmap, NEW t \in Threads, Or(t)
    PROVE  AvailTracksBitmap'
<1>1. loc[t].cand \notin free
  <2>1. loc[t].cand \in Claimed[t]
    BY DEF Claimed, InFlight, Or
  <2> QED BY <2>1 DEF ExclusiveOwnership, Pool!Partition
<1>2. Cardinality(free') = Cardinality(free) + 1
  BY <1>1, FreeFinite, FS_AddElement DEF Or
<1>3. /\ Cardinality(At(Taking)) \in Nat
      /\ Cardinality(At(Taking)') = Cardinality(At(Taking))
      /\ Cardinality(At(Giving)) \in Nat
      /\ Cardinality(At(Giving)') = Cardinality(At(Giving)) + 1
  BY AtAfter DEF Or, Continue, Delta, Taking, Giving
<1> QED BY <1>2, <1>3, FreeFinite DEF AvailTracksBitmap, Or, Taking, Giving

LEMMA PendingCounted ==
    ASSUME TypeOK, AvailTracksBitmap, NEW t \in Threads, DecAvail(t) \/ IncAvail(t)
    PROVE  AvailTracksBitmap'
<1>1. CASE DecAvail(t)
  <2>1. /\ Cardinality(At(Taking)) \in Nat
        /\ Cardinality(At(Taking)') = Cardinality(At(Taking)) - 1
        /\ Cardinality(At(Giving)) \in Nat
        /\ Cardinality(At(Giving)') = Cardinality(At(Giving))
    BY <1>1, AtAfter DEF DecAvail, Continue, Delta, Taking, Giving
  <2> QED BY <1>1, <2>1, FreeFinite DEF AvailTracksBitmap, DecAvail, Taking, Giving
<1>2. CASE IncAvail(t)
  <2>1. /\ Cardinality(At(Taking)) \in Nat
        /\ Cardinality(At(Taking)') = Cardinality(At(Taking))
        /\ Cardinality(At(Giving)) \in Nat
        /\ Cardinality(At(Giving)') = Cardinality(At(Giving)) - 1
    BY <1>2, AtAfter DEF IncAvail, Return, Delta, Taking, Giving
  <2> QED BY <1>2, <2>1, FreeFinite DEF AvailTracksBitmap, IncAvail, Taking, Giving
<1> QED BY <1>1, <1>2

(* The counter that acquire trusts instead of the bitmap is off by exactly    *)
(* the updates in progress; when no call is in progress it is exact.          *)
THEOREM CounterConservation ==
    ASSUME "possess" \notin Ops PROVE Spec => []AvailTracksBitmap
<1>1. Init => AvailTracksBitmap
  <2> SUFFICES ASSUME Init PROVE AvailTracksBitmap
    OBVIOUS
  <2>1. At({"decAvail"}) = {} /\ At({"decUsed", "incAvail"}) = {}
    BY DEF Init, At
  <2>2. Cardinality(free) \in Nat
    BY InitType, FreeFinite
  <2> QED BY <2>1, <2>2, FS_EmptySet DEF Init, AvailTracksBitmap
<1>2. TypeOK /\ ExclusiveOwnership /\ AvailTracksBitmap /\ [Next]_vars => AvailTracksBitmap'
  <2>1. CASE UNCHANGED vars
    BY <2>1 DEF vars, AvailTracksBitmap, At
  <2> QED BY <2>1, CallCounted, SearchCounted, SwapCounted, OrCounted, PendingCounted
          DEF Next, Work
<1> QED BY <1>1, <1>2, TypeCorrect, Exclusive, PTL DEF Spec

-----------------------------------------------------------------------------
(* No block leaks.  possess may give a block a second holder, so that the     *)
(* pool is no longer implemented; but it takes none away.                     *)

(* The block that possess clears is claimed by its caller at that step.       *)
LEMMA PossessClaims ==
    ASSUME TypeOK, NEW t \in Threads, NEW b \in Blocks, CallPossess(t, b)
    PROVE  /\ free' = free \ {b}
           /\ b \in Claimed'[t]
           /\ \A s \in Threads : Claimed[s] \subseteq Claimed'[s]
<1>0. InFlight(t) = {}
  BY DEF CallPossess, InFlight
<1>1. \A s \in Threads : Claimed[s] = held[s] \cup InFlight(s)
  BY DEF Claimed
<1>2. \A s \in Threads : Claimed'[s] = held'[s] \cup InFlight(s)'
  BY DEF Claimed
<1>3. CASE b \in free
  <2>1. InFlight(t)' = {b} /\ \A s \in Threads \ {t} : InFlight(s)' = InFlight(s)
    BY <1>3, ClaimsAfter DEF CallPossess, Enter, Flight, Fresh
  <2>2. held' = held /\ free' = free \ {b}
    BY <1>3 DEF CallPossess
  <2> QED BY <1>0, <1>1, <1>2, <2>1, <2>2
<1>4. CASE b \notin free
  <2>1. \A s \in Threads : InFlight(s) \subseteq InFlight(s)'
    BY <1>0, <1>4, ClaimsAfter DEF CallPossess, Return
  <2>2. held' = [held EXCEPT ![t] = @ \cup {b}] /\ free' = free \ {b}
    BY <1>4 DEF CallPossess
  <2>3. b \in held'[t] /\ \A s \in Threads : held[s] \subseteq held'[s]
    BY <2>2 DEF TypeOK
  <2> QED BY <1>1, <1>2, <2>1, <2>2, <2>3
<1> QED BY <1>3, <1>4

LEMMA NoLeakStep ==
    ASSUME TypeOK, GivenUp, NoLeak, [Next]_vars
    PROVE  NoLeak'
<1>0. \A b \in Blocks : b \in free \/ \E t \in Threads : b \in Claimed[t]
  BY DEF NoLeak
<1>1. SUFFICES \A b \in Blocks : b \in free' \/ \E t \in Threads : b \in Claimed'[t]
  BY DEF NoLeak
<1>2. ASSUME NEW t \in Threads, NEW c \in Blocks, Pool!Take(t, c) \/ Pool!Give(t, c)
      PROVE  \A b \in Blocks : b \in free' \/ \E s \in Threads : b \in Claimed'[s]
  <2>1. \/ /\ free' = free \ {c} /\ Claimed' = [Claimed EXCEPT ![t] = @ \cup {c}]
        \/ /\ free' = free \cup {c} /\ Claimed' = [Claimed EXCEPT ![t] = @ \ {c}]
    BY <1>2 DEF Pool!Take, Pool!Give
  <2>2. DOMAIN Claimed = Threads
    BY DEF Claimed
  <2>3. \/ /\ free' = free \ {c} /\ Claimed'[t] = Claimed[t] \cup {c}
           /\ \A s \in Threads \ {t} : Claimed'[s] = Claimed[s]
        \/ /\ free' = free \cup {c} /\ Claimed'[t] = Claimed[t] \ {c}
           /\ \A s \in Threads \ {t} : Claimed'[s] = Claimed[s]
    BY <2>1, <2>2 DEF Claimed
  <2> QED BY <1>0, <2>3
<1>3. CASE UNCHANGED Pool!poolVars
  BY <1>0, <1>3 DEF Pool!poolVars
<1>4. ASSUME NEW t \in Threads, Call(t) \/ Work(t)
      PROVE  \A b \in Blocks : b \in free' \/ \E s \in Threads : b \in Claimed'[s]
  <2>0. loc[t].cand \in Blocks
    BY DEF TypeOK, Locals
  <2>1. CASE Swap(t)
    BY <1>2, <1>3, <2>0, <2>1, SwapTakes
  <2>2. CASE Or(t)
    BY <1>2, <2>0, <2>2, OrGives
  <2>3. ASSUME NEW b \in Blocks, CallPossess(t, b)
        PROVE  \A c \in Blocks : c \in free' \/ \E s \in Threads : c \in Claimed'[s]
    BY <1>0, <2>3, PossessClaims
  <2>4. CASE ~ Swap(t) /\ ~ Or(t) /\ ~ \E b \in Blocks : CallPossess(t, b)
    BY <1>3, <1>4, <2>4, SilentSteps DEF Call, Work
  <2> QED BY <2>1, <2>2, <2>3, <2>4
<1>5. CASE UNCHANGED vars
  <2>1. Claimed' = Claimed /\ free' = free
    BY <1>5 DEF vars, Claimed, InFlight
  <2> QED BY <1>0, <2>1
<1> QED BY <1>4, <1>5 DEF Next

(* Whatever is called, possess included, a block that is not free is claimed: *)
(* __ntapi_blt_possess clears a bit only to hand the block to its caller.     *)
THEOREM NothingLeaks == Spec => []NoLeak
<1>1. Init => NoLeak /\ GivenUp
  <2> SUFFICES ASSUME Init PROVE NoLeak /\ GivenUp
    OBVIOUS
  <2>1. Pool!Partition /\ GivenUp
    BY InitPool DEF Pool!PoolInit
  <2> QED BY <2>1 DEF Pool!Partition, NoLeak
<1>2. TypeOK /\ GivenUp /\ [Next]_vars => GivenUp'
  <2>1. CASE UNCHANGED vars
    BY <2>1 DEF vars, GivenUp
  <2> QED BY <2>1, GivenUpStep DEF Next
<1>3. TypeOK /\ GivenUp /\ NoLeak /\ [Next]_vars => NoLeak'
  BY NoLeakStep
<1> QED BY <1>1, <1>2, <1>3, TypeCorrect, PTL DEF Spec

-----------------------------------------------------------------------------
(* What a refusal means, where nobody calls obtain or possess.  A search that *)
(* comes to word w has seen each word below w without a free block, at some   *)
(* moment of its call.                                                        *)
Words == 0 .. (PtrCount - 1)
PlainCalls == Ops \subseteq {"acquire", "release"}
Plain == \A t \in Threads : loc[t].base = 0 /\ ~ loc[t].masked
Passed == \A t \in Threads : pc[t] = "scan" => 0 .. (loc[t].word - 1) \subseteq sawEmpty[t]
Seen == Plain /\ Passed /\ sawEmpty \in [Threads -> SUBSET Words]

(* A plain search starts at the first word, and goes on to the next only when *)
(* it has found none in this one.                                             *)
Advances(t, l) ==
    \/ l.word = 0
    \/ /\ pc[t] = "scan"
       /\ l.word = loc[t].word + 1
       /\ loc[t].word \in EmptyWords
GoesOn(t) ==
    /\ Plain'
    /\ pc'[t] = "scan" => Advances(t, loc'[t])
    /\ \A s \in Threads \ {t} : pc'[s] = pc[s] /\ loc'[s] = loc[s]

LEMMA PlainGoto ==
    ASSUME TypeOK, Plain, NEW t \in Threads, NEW step, NEW l, Goto(t, step, l),
           l.base = 0, ~ l.masked, step = "scan" => Advances(t, l)
    PROVE  GoesOn(t)
<1>1. /\ pc'[t] = step /\ loc'[t] = l
      /\ \A s \in Threads \ {t} : pc'[s] = pc[s] /\ loc'[s] = loc[s]
  BY DEF TypeOK, Goto
<1>2. Plain'
  BY <1>1 DEF Plain
<1> QED BY <1>1, <1>2 DEF GoesOn

LEMMA PlainStep ==
    ASSUME TypeOK, Plain, PlainCalls, NEW t \in Threads, Call(t) \/ Work(t)
    PROVE  GoesOn(t)
<1>l. loc[t] \in Locals /\ loc[t].base = 0 /\ ~ loc[t].masked
  BY DEF TypeOK, Plain
<1>f. Fresh.base = 0 /\ ~ Fresh.masked /\ Fresh.word = 0
  BY DEF Fresh
<1>c. \A b \in Blocks : LET l == [Fresh EXCEPT !.cand = b] IN l.base = 0 /\ ~ l.masked
  BY DEF Fresh
<1>1. CASE Call(t)
  <2>1. CASE CallAcquire(t)
    BY PlainGoto, <1>f, <2>1 DEF CallAcquire, Enter
  <2>2. ASSUME NEW b \in Blocks, CallRelease(t, b)
        PROVE  GoesOn(t)
    BY PlainGoto, <1>c, <2>2 DEF CallRelease, Enter
  <2> QED BY <1>1, <2>1, <2>2 DEF Call, PlainCalls, CallObtain, CallPossess
<1>2. CASE Check(t)
  <2>1. [Fresh EXCEPT !.base = loc[t].base] = Fresh
    BY <1>l DEF Fresh
  <2> QED BY PlainGoto, <1>2, <1>f, <2>1 DEF Check, Return, Continue
<1>3. CASE Round(t)
  <2>1. WordOf(loc[t].base) = 0
    BY <1>l, BlockCountType DEF WordOf
  <2>2. LET l == [loc[t] EXCEPT !.word = 0] IN l.word = 0 /\ l.base = 0 /\ ~ l.masked
    BY <1>l DEF Locals
  <2>3. CASE avail # 0 /\ loc[t].trips < RoundTrips
    <3>1. Goto(t, "scan", [loc[t] EXCEPT !.word = 0])
      BY <1>3, <2>1, <2>3 DEF Round, Continue
    <3> QED BY PlainGoto, <2>2, <3>1 DEF Advances
  <2>4. CASE ~ (avail # 0 /\ loc[t].trips < RoundTrips)
    BY PlainGoto, <1>3, <1>f, <1>l, <2>4 DEF Round, GiveUp, Return
  <2> QED BY <2>3, <2>4
<1>4. CASE Scan(t)
  <2>1. ASSUME NEW b \in Visible(t),
               Continue(t, "read", [loc[t] EXCEPT !.cand = b, !.word = 0, !.tries = LockTries])
        PROVE  GoesOn(t)
    <3> DEFINE l == [loc[t] EXCEPT !.cand = b, !.word = 0, !.tries = LockTries]
    <3>1. l.base = 0 /\ ~ l.masked
      BY <1>l DEF Locals
    <3>2. Goto(t, "read", l)
      BY <2>1 DEF Continue
    <3> HIDE DEF l
    <3> QED BY PlainGoto, <3>1, <3>2
  <2>2. ASSUME loc[t].word < PtrCount, Visible(t) = {},
               Continue(t, "scan", [loc[t] EXCEPT !.word = @ + 1]), pc[t] = "scan"
        PROVE  GoesOn(t)
    <3> DEFINE l == [loc[t] EXCEPT !.word = @ + 1]
    <3>1. l.base = 0 /\ ~ l.masked /\ l.word = loc[t].word + 1
      BY <1>l, <2>2, SizesAssumption DEF Locals
    <3>2. Goto(t, "scan", l)
      BY <2>2 DEF Continue
    <3>3. loc[t].word \in Words /\ free \cap InWord(loc[t].word) = {}
      BY <1>l, <2>2, SizesAssumption DEF Visible, Words, Locals
    <3>4. loc[t].word \in EmptyWords
      BY <3>3 DEF EmptyWords, Words
    <3> HIDE DEF l
    <3> QED BY PlainGoto, <2>2, <3>1, <3>2, <3>4 DEF Advances
  <2>3. ASSUME GiveUp(t)
        PROVE  GoesOn(t)
    BY PlainGoto, <1>f, <1>l, <2>3 DEF GiveUp, Return
  <2> QED BY <1>4, <2>1, <2>2, <2>3 DEF Scan
<1>5. CASE Read(t)
  <2> DEFINE l == [loc[t] EXCEPT !.snap = CandWord(t) \cup {loc[t].cand}]
  <2>1. l.base = 0 /\ ~ l.masked
    BY <1>l, CandWordType DEF Locals
  <2>2. Goto(t, "swap", l)
    BY <1>5 DEF Read, Continue
  <2> HIDE DEF l
  <2> QED BY PlainGoto, <2>1, <2>2
<1>6. CASE Swap(t)
  <2>c. loc[t].cand \in Blocks
    BY <1>l DEF Locals
  <2>1. CASE Continue(t, "decAvail", [Fresh EXCEPT !.cand = loc[t].cand])
    BY PlainGoto, <1>c, <2>1, <2>c DEF Continue
  <2>2. CASE /\ pc[t] = "swap"
             /\ Continue(t, "round", [Fresh EXCEPT !.masked = loc[t].masked, !.base = loc[t].base,
                                                   !.trips = loc[t].trips + 1])
    <3> DEFINE l == [Fresh EXCEPT !.masked = loc[t].masked, !.base = loc[t].base,
                                  !.trips = loc[t].trips + 1]
    <3>1. l.base = 0 /\ ~ l.masked
      BY <1>l, FreshType DEF Locals, Fresh
    <3>2. Goto(t, "round", l)
      BY <2>2 DEF Continue
    <3> HIDE DEF l
    <3> QED BY PlainGoto, <3>1, <3>2
  <2>3. CASE loc[t].tries > 1
             /\ Continue(t, "read", [loc[t] EXCEPT !.tries = @ - 1, !.snap = {}])
    <3> DEFINE l == [loc[t] EXCEPT !.tries = @ - 1, !.snap = {}]
    <3>1. l.base = 0 /\ ~ l.masked
      BY <1>l, <2>3, TriesAssumption DEF Locals
    <3>2. Goto(t, "read", l)
      BY <2>3 DEF Continue
    <3> HIDE DEF l
    <3> QED BY PlainGoto, <3>1, <3>2
  <2>4. CASE Return(t, "DEVICE_BUSY")
    BY PlainGoto, <1>f, <2>4 DEF Return
  <2> QED BY <1>6, <2>1, <2>2, <2>3, <2>4 DEF Swap
<1>7. CASE DecAvail(t)
  BY PlainGoto, <1>l, <1>7 DEF DecAvail, Continue
<1>8. CASE IncUsed(t) \/ IncAvail(t)
  BY PlainGoto, <1>f, <1>8 DEF IncUsed, IncAvail, Return
<1>9. CASE Or(t) \/ DecUsed(t)
  BY PlainGoto, <1>f, <1>9 DEF Or, DecUsed, Continue
<1> QED BY <1>1, <1>2, <1>3, <1>4, <1>5, <1>6, <1>7, <1>8, <1>9 DEF Work

LEMMA SeenStep ==
    ASSUME TypeOK, Seen, PlainCalls, [HistoryNext]_historyVars
    PROVE  Seen'
<1>1. CASE UNCHANGED historyVars
  BY <1>1 DEF historyVars, vars, Seen, Plain, Passed
<1>2. CASE HistoryNext
  <2>1. PICK t \in Threads : Call(t) \/ Work(t)
    BY <1>2 DEF HistoryNext, Next
  <2>2. /\ Plain'
        /\ pc'[t] = "scan" => Advances(t, loc'[t])
        /\ \A s \in Threads \ {t} : pc'[s] = pc[s] /\ loc'[s] = loc[s]
    BY <2>1, PlainStep DEF Seen, GoesOn
  <2>3. EmptyWords \subseteq Words /\ EmptyWords' \subseteq Words
    BY DEF EmptyWords, Words
  <2>4. sawEmpty' \in [Threads -> SUBSET Words]
    BY <1>2, <2>3 DEF HistoryNext, Seen
  <2>5. \A s \in Threads : pc'[s] = "scan" => EmptyWords \cup sawEmpty[s] \subseteq sawEmpty'[s]
    BY <1>2 DEF HistoryNext
  <2>6. \A s \in Threads : loc[s].word \in Nat
    BY DEF TypeOK, Locals
  <2>7. ASSUME NEW s \in Threads, pc'[s] = "scan"
        PROVE  0 .. (loc'[s].word - 1) \subseteq sawEmpty'[s]
    <3>1. CASE s # t
      BY <2>2, <2>5, <2>7, <3>1 DEF Seen, Passed
    <3>2. CASE s = t /\ loc'[t].word = 0
      BY <3>2
    <3>3. CASE s = t /\ pc[t] = "scan" /\ loc'[t].word = loc[t].word + 1 /\ loc[t].word \in EmptyWords
      <4>1. 0 .. (loc'[t].word - 1) = (0 .. (loc[t].word - 1)) \cup {loc[t].word}
        BY <2>6, <3>3
      <4>2. 0 .. (loc[t].word - 1) \subseteq sawEmpty[t]
        BY <3>3 DEF Seen, Passed
      <4> QED BY <2>5, <2>7, <3>3, <4>1, <4>2
    <3> QED BY <2>2, <2>7, <3>1, <3>2, <3>3 DEF Advances
  <2> QED BY <2>2, <2>4, <2>7 DEF Seen, Passed
<1> QED BY <1>1, <1>2

(* A counter of 0 says that the free blocks are no more than those that are   *)
(* being released.                                                            *)
LEMMA ZeroIsExhausted ==
    ASSUME TypeOK, AvailTracksBitmap, avail = 0
    PROVE  Exhausted
<1>1. IsFiniteSet(At({"decAvail"})) /\ IsFiniteSet(At({"decUsed", "incAvail"}))
  BY FS_Subset, ThreadsAssumption DEF At
<1>2. /\ Cardinality(At({"decAvail"})) \in Nat /\ Cardinality(At({"decUsed", "incAvail"})) \in Nat
      /\ Cardinality(free) \in Nat
  BY <1>1, FreeFinite, FS_CardinalityType
<1> QED BY <1>2 DEF AvailTracksBitmap, Exhausted

LEMMA RefusalStep ==
    ASSUME TypeOK, AvailTracksBitmap, Seen, PlainCalls, [HistoryNext]_historyVars,
           NEW t \in Threads, pc[t] # "idle", pc'[t] = "idle", ret'[t] = "ALLOCATE_BUCKET"
    PROVE  \/ Exhausted \/ sawFull[t]
           \/ sawEmpty[t] \cup EmptyWords = 0 .. (PtrCount - 1)
           \/ loc[t].trips = RoundTrips
<1>1. PICK s \in Threads : Call(s) \/ Work(s)
  BY DEF historyVars, vars, HistoryNext, Next
<1>2. s = t
  BY <1>1, PlainStep DEF Seen, GoesOn
<1>l. loc[t] \in Locals /\ loc[t].base = 0 /\ ~ loc[t].masked
  BY DEF TypeOK, Seen, Plain
<1>r. ASSUME NEW status, Return(t, status) PROVE ret'[t] = status
  BY <1>r DEF Return, TypeOK
<1>3. CASE Call(t)
  BY <1>3 DEF Call, CallAcquire, CallObtain, CallPossess, CallRelease
<1>4. CASE Check(t)
  <2>1. avail = 0
    BY <1>4 DEF Check, Continue, Goto, TypeOK
  <2> QED BY <2>1, ZeroIsExhausted
<1>5. CASE Round(t)
  <2>1. avail = 0 \/ ~ (loc[t].trips < RoundTrips)
    BY <1>5 DEF Round, Continue, Goto, TypeOK
  <2>2. loc[t].trips \in 0 .. RoundTrips
    BY <1>l DEF Locals
  <2> QED BY <2>1, <2>2, ZeroIsExhausted, TriesAssumption
<1>6. CASE Scan(t)
  <2>1. loc[t].word = PtrCount /\ pc[t] = "scan"
    BY <1>6, <1>l DEF Scan, Continue, Goto, TypeOK
  <2>2. Words \subseteq sawEmpty[t] /\ sawEmpty[t] \subseteq Words
    BY <2>1 DEF Seen, Passed, Words
  <2>3. EmptyWords \subseteq Words
    BY DEF EmptyWords, Words
  <2>4. sawEmpty[t] \cup EmptyWords = Words
    BY <2>2, <2>3
  <2> QED BY <2>4 DEF Words
<1>7. CASE Read(t) \/ DecAvail(t) \/ Or(t) \/ DecUsed(t)
  BY <1>7 DEF Read, DecAvail, Or, DecUsed, Continue, Goto, TypeOK
<1>8. CASE Swap(t)
  <2>1. Return(t, "DEVICE_BUSY")
    BY <1>8 DEF Swap, Continue, Goto, TypeOK
  <2> QED BY <1>r, <2>1
<1>9. CASE IncUsed(t) \/ IncAvail(t)
  BY <1>r, <1>9 DEF IncUsed, IncAvail
<1> QED BY <1>1, <1>2, <1>3, <1>4, <1>5, <1>6, <1>7, <1>8, <1>9 DEF Work

(* A refusal means what its caller takes it for (EMFILE of the fd table): the *)
(* lag of the counter behind the bitmap alone turns nobody away, for any      *)
(* number of threads and words.                                               *)
THEOREM RefusalsAreMeant ==
    ASSUME PlainCalls PROVE HistorySpec => FailsOnlyWhenFull
<1>1. HistorySpec => Spec
  <2>1. [HistoryNext]_historyVars => [Next]_vars
    BY DEF HistoryNext, historyVars
  <2> QED BY <2>1, PTL DEF HistorySpec, HistoryInit, Spec
<1>2. HistoryInit => Seen
  BY DEF HistoryInit, Init, Seen, Plain, Passed, Fresh
<1>3. TypeOK /\ Seen /\ [HistoryNext]_historyVars => Seen'
  BY SeenStep
<1>4. "possess" \notin Ops
  BY DEF PlainCalls
<1> DEFINE Refused(t) == pc[t] # "idle" /\ pc'[t] = "idle" /\ ret'[t] = "ALLOCATE_BUCKET"
           Meant(t) == \/ Exhausted \/ sawFull[t]
                       \/ sawEmpty[t] \cup EmptyWords = 0 .. (PtrCount - 1)
                       \/ loc[t].trips = RoundTrips
           Fair == \A t \in Threads : Refused(t) => Meant(t)
<1>5. TypeOK /\ AvailTracksBitmap /\ Seen /\ [HistoryNext]_historyVars => Fair
  BY RefusalStep
<1>6. [Fair]_historyVars <=> Fair \/ UNCHANGED historyVars
  OBVIOUS
<1> HIDE DEF Fair
<1>7. HistorySpec => [][Fair]_historyVars
  BY <1>1, <1>2, <1>3, <1>4, <1>5, TypeCorrect, CounterConservation, PTL DEF HistorySpec
<1> QED BY <1>7 DEF Fair, FailsOnlyWhenFull
=============================================================================
