------------------------------ MODULE Blitter ------------------------------
(* The lock-free block allocator of ntapi: a bitmap in which a set bit is a   *)
(* free block, searched word by word and claimed by a compare-and-swap of a   *)
(* whole word, beside two counters that are updated after the bitmap by       *)
(* locked instructions of their own.  Every shared access is one step.        *)
EXTENDS Integers, FiniteSets

CONSTANTS
    Threads,        \* threads that call the allocator
    PtrCount,       \* blitter->ptrs: words of the bitmap
    WordSize,       \* sizeof(size_t)
    ByteBits,       \* bits per byte: 8 in the build, scaled down for TLC
    RoundTrips,     \* params.round_trips
    LockTries,      \* params.lock_tries
    Ops             \* the entry points the clients use

ASSUME SizesAssumption ==
    /\ PtrCount \in Nat \ {0}
    /\ WordSize \in Nat \ {0}
    /\ ByteBits \in Nat \ {0}
ASSUME TriesAssumption ==
    /\ RoundTrips \in Nat \ {0}
    /\ LockTries \in Nat \ {0}
ASSUME ThreadsAssumption == IsFiniteSet(Threads)
ASSUME OpsAssumption == Ops \subseteq {"acquire", "obtain", "possess", "release"}

WordBits == ByteBits * WordSize
BlockCount == PtrCount * WordBits
Blocks == 0 .. (BlockCount - 1)

WordOf(b) == b \div WordBits
InWord(w) == {b \in Blocks : WordOf(b) = w}

VARIABLES
    free,       \* blocks whose bit is set in the bitmap
    avail,      \* info.blocks_avail
    used,       \* info.blocks_used
    busy,       \* info.busy
    pc,         \* pc[t]: the shared access thread t performs next
    loc,        \* loc[t]: t's local variables in the allocator
    ret,        \* ret[t]: status of t's last call
    held        \* held[t]: blocks handed to t and not yet given back

vars == <<free, avail, used, busy, pc, loc, ret, held>>
shared == <<free, avail, used, busy>>

Steps == {"idle", "check", "round", "scan", "read", "swap",
          "decAvail", "incUsed", "or", "decUsed", "incAvail"}

Statuses == {"SUCCESS", "ALLOCATE_BUCKET", "DEVICE_BUSY", "PENDING"}

(* masked: in the loop of blt_obtain; base: *blkid, where the search starts;  *)
(* word: i; cand: bit and i, the block tried; snap: cmp, the word the swap    *)
(* expects; trips: n; tries: locktry.                                         *)
Locals == [masked : BOOLEAN, base : 0 .. BlockCount, word : 0 .. PtrCount,
           cand : Blocks, snap : SUBSET Blocks,
           trips : 0 .. RoundTrips, tries : 0 .. LockTries]

Fresh == [masked |-> FALSE, base |-> 0, word |-> 0,
          cand |-> 0, snap |-> {}, trips |-> 0, tries |-> 0]

-----------------------------------------------------------------------------
(* blt_alloc with PRESERVE_BITS adopts a bitmap; blocks_avail is its count of *)
(* set bits, blocks_used is 0 although adopted blocks may be in use.          *)
Init ==
    /\ free \in SUBSET Blocks
    /\ held \in [Threads -> SUBSET Blocks]
    /\ free \cup UNION {held[t] : t \in Threads} = Blocks
    /\ \A t \in Threads : free \cap held[t] = {}
    /\ \A s, t \in Threads : s # t => held[s] \cap held[t] = {}
    /\ avail = Cardinality(free)
    /\ used = 0
    /\ busy = FALSE
    /\ pc = [t \in Threads |-> "idle"]
    /\ loc = [t \in Threads |-> Fresh]
    /\ ret = [t \in Threads |-> "SUCCESS"]

(* t's next shared access and its locals before it.                           *)
Goto(t, step, l) ==
    /\ pc' = [pc EXCEPT ![t] = step]
    /\ loc' = [loc EXCEPT ![t] = l]

Enter(t, step, l) == Goto(t, step, l) /\ ret' = [ret EXCEPT ![t] = "PENDING"]
Continue(t, step, l) == Goto(t, step, l) /\ UNCHANGED ret
Return(t, status) == Goto(t, "idle", Fresh) /\ ret' = [ret EXCEPT ![t] = status]

-----------------------------------------------------------------------------
(* Entry points: each returns at once or parks t at its next shared access.   *)

(* __ntapi_blt_acquire: search from block 0.                                  *)
CallAcquire(t) ==
    /\ "acquire" \in Ops
    /\ pc[t] = "idle"
    /\ Enter(t, "check", Fresh)
    /\ UNCHANGED <<shared, held>>

(* __ntapi_blt_obtain: the code takes *blkid modulo sizeof(size_t), not       *)
(* modulo the bits of a word; when that is 0, it is __ntapi_blt_acquire that   *)
(* searches, from block 0.                                                    *)
CallObtain(t, b) ==
    /\ "obtain" \in Ops
    /\ pc[t] = "idle"
    /\ IF avail = 0
       THEN Return(t, "ALLOCATE_BUCKET")
       ELSE IF b % WordSize = 0
            THEN Enter(t, "check", Fresh)
            ELSE Enter(t, "round", [Fresh EXCEPT !.base = b, !.masked = TRUE])
    /\ UNCHANGED <<shared, held>>

(* __ntapi_blt_possess: clears the bit whoever holds the block, and succeeds. *)
CallPossess(t, b) ==
    /\ "possess" \in Ops
    /\ pc[t] = "idle"
    /\ free' = free \ {b}
    /\ IF b \in free
       THEN /\ Enter(t, "decAvail", [Fresh EXCEPT !.cand = b])
            /\ UNCHANGED held
       ELSE /\ Return(t, "SUCCESS")
            /\ held' = [held EXCEPT ![t] = @ \cup {b}]
    /\ UNCHANGED <<avail, used, busy>>

(* __ntapi_blt_release, by a thread that holds the block.                     *)
CallRelease(t, b) ==
    /\ "release" \in Ops
    /\ pc[t] = "idle"
    /\ b \in held[t]
    /\ held' = [held EXCEPT ![t] = @ \ {b}]
    /\ Enter(t, "or", [Fresh EXCEPT !.cand = b])
    /\ UNCHANGED shared

-----------------------------------------------------------------------------
(* __blt_acquire, and the masked loop of __ntapi_blt_obtain before it.        *)

Check(t) ==
    /\ pc[t] = "check"
    /\ IF avail = 0
       THEN Return(t, "ALLOCATE_BUCKET")
       ELSE Continue(t, "round", [Fresh EXCEPT !.base = loc[t].base])
    /\ UNCHANGED <<shared, held>>

(* The masked loop gives up its word: the plain search takes over from the    *)
(* word after it; the plain search itself gives up for good.                  *)
GiveUp(t) ==
    IF loc[t].masked
    THEN Continue(t, "check",
                  [Fresh EXCEPT !.base = (WordOf(loc[t].base) + 1) * WordBits])
    ELSE Return(t, "ALLOCATE_BUCKET")

(* Mutant: the loop runs one round too many.                                  *)
RoundOffByOne(t) ==
    /\ pc[t] = "round"
    /\ IF avail # 0 /\ loc[t].trips <= RoundTrips
       THEN Continue(t, "scan", [loc[t] EXCEPT !.word = WordOf(loc[t].base)])
       ELSE GiveUp(t)
    /\ UNCHANGED <<shared, held>>

(* The loop's condition: blocks_avail && n < round_trips.                     *)
Round(t) ==
    /\ pc[t] = "round"
    /\ IF avail # 0 /\ loc[t].trips < RoundTrips
       THEN Continue(t, "scan", [loc[t] EXCEPT !.word = WordOf(loc[t].base)])
       ELSE GiveUp(t)
    /\ UNCHANGED <<shared, held>>

(* mask of __ntapi_blt_obtain: bits below *blkid % sizeof(size_t) are hidden. *)
Visible(t) ==
    {b \in free \cap InWord(loc[t].word) :
        loc[t].masked => b % WordBits >= loc[t].base % WordSize}

(* Mutant: the search ends with the first word it looks at.                   *)
ScanFirstWordOnly(t) ==
    /\ pc[t] = "scan"
    /\ \/ \E b \in Visible(t) :
             Continue(t, "read", [loc[t] EXCEPT !.cand = b, !.word = 0,
                                               !.tries = LockTries])
       \/ Visible(t) = {} /\ GiveUp(t)
    /\ UNCHANGED <<shared, held>>

(* at_bsf: the lowest bit of the word; the plain search goes on to the next   *)
(* word when there is none.                                                   *)
Scan(t) ==
    /\ pc[t] = "scan"
    /\ \/ /\ loc[t].word < PtrCount
          /\ \E b \in Visible(t) :
                /\ \A c \in Visible(t) : b <= c
                /\ Continue(t, "read", [loc[t] EXCEPT !.cand = b, !.word = 0,
                                                      !.tries = LockTries])
       \/ /\ loc[t].word < PtrCount /\ ~ loc[t].masked /\ Visible(t) = {}
          /\ Continue(t, "scan", [loc[t] EXCEPT !.word = @ + 1])
       \/ /\ loc[t].word = PtrCount \/ (loc[t].masked /\ Visible(t) = {})
          /\ GiveUp(t)
    /\ UNCHANGED <<shared, held>>

CandWord(t) == free \cap InWord(WordOf(loc[t].cand))

(* Mutant: the word is compared as read, without the candidate's bit.         *)
ReadWithoutMask(t) ==
    /\ pc[t] = "read"
    /\ Continue(t, "swap", [loc[t] EXCEPT !.snap = CandWord(t)])
    /\ UNCHANGED <<shared, held>>

(* __blt_bitbite: cmp = bitmap[byte] | mask.                                  *)
Read(t) ==
    /\ pc[t] = "read"
    /\ Continue(t, "swap", [loc[t] EXCEPT !.snap = CandWord(t) \cup {loc[t].cand}])
    /\ UNCHANGED <<shared, held>>

(* Mutant: the bit is cleared without comparing the word.                     *)
SwapBlind(t) ==
    /\ pc[t] = "swap"
    /\ free' = free \ {loc[t].cand}
    /\ Continue(t, "decAvail", [Fresh EXCEPT !.cand = loc[t].cand])
    /\ UNCHANGED <<avail, used, busy, held>>

(* Mutant: the exchanged word is empty, all its blocks are taken.             *)
SwapClearsWord(t) ==
    /\ pc[t] = "swap"
    /\ CandWord(t) = loc[t].snap
    /\ free' = free \ loc[t].snap
    /\ Continue(t, "decAvail", [Fresh EXCEPT !.cand = loc[t].cand])
    /\ UNCHANGED <<avail, used, busy, held>>

(* Mutant: a conflict does not count as a round trip.                         *)
SwapUncounted(t) ==
    /\ pc[t] = "swap"
    /\ IF CandWord(t) = loc[t].snap
       THEN /\ free' = free \ {loc[t].cand}
            /\ Continue(t, "decAvail", [Fresh EXCEPT !.cand = loc[t].cand])
       ELSE /\ Continue(t, "round", [Fresh EXCEPT !.masked = loc[t].masked,
                                                !.base = loc[t].base])
            /\ UNCHANGED free
    /\ UNCHANGED <<avail, used, busy, held>>

(* at_locked_cas.  A failed swap is a conflict, one more round trip, unless   *)
(* the candidate is the only bit left in the word: then it is tried again.    *)
Swap(t) ==
    /\ pc[t] = "swap"
    /\ \/ /\ CandWord(t) = loc[t].snap
          /\ free' = free \ {loc[t].cand}
          /\ Continue(t, "decAvail", [Fresh EXCEPT !.cand = loc[t].cand])
          /\ UNCHANGED busy
       \/ /\ CandWord(t) \notin {loc[t].snap, {loc[t].cand}}
          /\ Continue(t, "round", [Fresh EXCEPT !.masked = loc[t].masked,
                                                !.base = loc[t].base,
                                                !.trips = loc[t].trips + 1])
          /\ UNCHANGED <<free, busy>>
       \/ /\ CandWord(t) = {loc[t].cand} /\ CandWord(t) # loc[t].snap
          /\ IF loc[t].tries > 1
             THEN /\ Continue(t, "read", [loc[t] EXCEPT !.tries = @ - 1, !.snap = {}])
                  /\ UNCHANGED busy
             ELSE /\ Return(t, "DEVICE_BUSY")
                  /\ busy' = TRUE
          /\ UNCHANGED free
    /\ UNCHANGED <<avail, used, held>>

DecAvail(t) ==
    /\ pc[t] = "decAvail"
    /\ avail' = avail - 1
    /\ Continue(t, "incUsed", loc[t])
    /\ UNCHANGED <<free, used, busy, held>>

(* at_locked_inc(&blocks_used), then the caller has the block.                *)
IncUsed(t) ==
    /\ pc[t] = "incUsed"
    /\ used' = used + 1
    /\ held' = [held EXCEPT ![t] = @ \cup {loc[t].cand}]
    /\ Return(t, "SUCCESS")
    /\ UNCHANGED <<free, avail, busy>>

-----------------------------------------------------------------------------
(* __ntapi_blt_release: bit, then blocks_used, then blocks_avail.             *)

Or(t) ==
    /\ pc[t] = "or"
    /\ free' = free \cup {loc[t].cand}
    /\ Continue(t, "decUsed", Fresh)
    /\ UNCHANGED <<avail, used, busy, held>>

(* Mutant: release returns without giving the block back to the counter.      *)
DecUsedAndReturn(t) ==
    /\ pc[t] = "decUsed"
    /\ used' = used - 1
    /\ Return(t, "SUCCESS")
    /\ UNCHANGED <<free, avail, busy, held>>

DecUsed(t) ==
    /\ pc[t] = "decUsed"
    /\ used' = used - 1
    /\ Continue(t, "incAvail", Fresh)
    /\ UNCHANGED <<free, avail, busy, held>>

IncAvail(t) ==
    /\ pc[t] = "incAvail"
    /\ avail' = avail + 1
    /\ Return(t, "SUCCESS")
    /\ UNCHANGED <<free, used, busy, held>>

-----------------------------------------------------------------------------
Call(t) ==
    \/ CallAcquire(t)
    \/ \E b \in Blocks : CallObtain(t, b) \/ CallPossess(t, b) \/ CallRelease(t, b)

Work(t) ==
    \/ Check(t) \/ Round(t) \/ Scan(t) \/ Read(t) \/ Swap(t)
    \/ DecAvail(t) \/ IncUsed(t) \/ Or(t) \/ DecUsed(t) \/ IncAvail(t)

Next == \E t \in Threads : Call(t) \/ Work(t)

Spec == Init /\ [][Next]_vars

(* A thread inside the allocator waits for nobody: the scheduler alone moves  *)
(* it.  Calls are the clients' choice and carry no fairness.                  *)
FairSpec == Spec /\ \A t \in Threads : WF_vars(Work(t))

-----------------------------------------------------------------------------
(* Properties.                                                                *)

(* What the locals satisfy when the next access is `step'.                    *)
Fits(step, l) ==
    /\ l.masked => l.base \in Blocks
    /\ step \in {"scan", "read", "swap"} => l.trips < RoundTrips
    /\ step \in {"read", "swap"} => l.tries > 0
    /\ step = "swap" => l.cand \in l.snap

TypeOK ==
    /\ free \in SUBSET Blocks
    /\ avail \in Int
    /\ used \in Int
    /\ busy \in BOOLEAN
    /\ pc \in [Threads -> Steps]
    /\ loc \in [Threads -> Locals]
    /\ ret \in [Threads -> Statuses]
    /\ held \in [Threads -> SUBSET Blocks]
    /\ \A t \in Threads : Fits(pc[t], loc[t])

(* The block a thread has claimed, or not yet given back, between the swap or *)
(* the or of the bitmap and the return to its caller.                         *)
InFlight(t) ==
    IF pc[t] \in {"decAvail", "incUsed", "or"} THEN {loc[t].cand} ELSE {}

Claimed == [t \in Threads |-> held[t] \cup InFlight(t)]

Pool == INSTANCE BlockPool WITH held <- Claimed

(* No block is handed to two threads, none is lost, and a block whose bit is  *)
(* set belongs to nobody: what every slot of the fd and ofd tables relies on. *)
ExclusiveOwnership == Pool!Partition

(* The allocator implements the abstract pool step by step.                   *)
ImplementsPool == Pool!PoolSpec

At(steps) == {t \in Threads : pc[t] \in steps}

(* blocks_avail, read without the bitmap to decide that the table is full,    *)
(* never drifts: it differs from the set bits by the updates under way only.  *)
AvailTracksBitmap ==
    avail = Cardinality(free) + Cardinality(At({"decAvail"}))
                              - Cardinality(At({"decUsed", "incAvail"}))

(* A block is never dropped from the bitmap without a holder: with possess    *)
(* it may have two holders, but it cannot leak.                               *)
NoLeak == Blocks \ free \subseteq UNION {Claimed[t] : t \in Threads}

(* The bounded retries make every call return, whatever other threads do.     *)
CallsReturn == \A t \in Threads : pc[t] # "idle" ~> pc[t] = "idle"
=============================================================================
