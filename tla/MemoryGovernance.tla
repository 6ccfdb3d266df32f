-------------------------- MODULE MemoryGovernance --------------------------
(* The allocators of lib/ on one heap (an arena, a pool, a static buffer and  *)
(* malloc itself) and the two tables that watch over their pointers: who owns *)
(* an address (tcc-own.h) and which arena pointers escaped into globals       *)
(* (tcc-esc.h).  A program calls them one after the other; malloc may fail,   *)
(* and gives addresses again that were freed.                                 *)
EXTENDS Integers, Sequences, FiniteSets, SequencesExt

CONSTANTS
    Addresses,      \* addresses malloc can return
    Static,         \* address of the buffer of tcc_ctmem_static
    Globals,        \* slots that arena pointers escape into
    Grow,           \* a->grow, a power of two
    Sizes, Aligns,  \* requests
    PerChunk,       \* slots per pool chunk
    StaticCap,      \* TCC_CTMEM_STATIC_CAP
    OwnMax, EscMax, \* TCC_OWN_MAX, TCC_ESC_MAX
    MaxEpoch,       \* bound: resets of one arena
    Discipline      \* what the program does of its own accord:

(* "unregister": memory goes back to its allocator only when no entry of the  *)
(* ownership table names it; "revoke": an arena is destroyed only when no     *)
(* escape is registered; "once": a pool slot is freed only while it is in use.*)

VARIABLES
    heap,           \* addresses in use
    arena,          \* tcc_arena: chain (head first), off, epoch, outstanding
    pool,           \* tcc_pool: chunks (cur first), free_list, live
    static,         \* tcc_ctmem.off
    own,            \* tcc_own_g
    esc,            \* tcc_esc_g
    objs            \* history: what the program was given and has not returned

vars == <<heap, arena, pool, static, own, esc, objs>>

(* A block of an arena or a pool starts with its header, one unit here.       *)
Header == 1
Ptr(b, off) == <<b, off>>
Obj(b, off, len, owner) == [ptr |-> Ptr(b, off), len |-> len, owner |-> owner]
Of(owner) == {o \in objs : o.owner = owner}
RoundUp(n, to) == ((n + to - 1) \div to) * to

NoArena == [up |-> FALSE, chain |-> <<>>, off |-> 0, epoch |-> 0, outstanding |-> 0]
NoPool == [up |-> FALSE, chunks |-> <<>>, free |-> <<>>, live |-> 0]

Init ==
    /\ heap = {} /\ arena = NoArena /\ pool = NoPool /\ static = 0
    /\ own = <<>> /\ esc = <<>> /\ objs = {}

(* The program gives the objects gone back.                                   *)
Gone(gone) ==
    /\ "unregister" \in Discipline =>
           \A i \in DOMAIN own : own[i].ptr \notin {o.ptr : o \in gone}
    /\ objs' = objs \ gone

-----------------------------------------------------------------------------
Malloc ==
    \E b \in Addresses \ heap :
        /\ heap' = heap \cup {b}
        /\ objs' = objs \cup {Obj(b, 0, 1, "heap")}
        /\ UNCHANGED <<arena, pool, static, own, esc>>

ArenaNew ==
    /\ ~ arena.up
    /\ arena' = [NoArena EXCEPT !.up = TRUE]
    /\ UNCHANGED <<heap, pool, static, own, esc, objs>>

(* arena_grow: a block that holds the request, in front of the chain.         *)
ArenaGrow(room, b) ==
    [arena EXCEPT !.chain = <<[at |-> b, size |-> RoundUp(room, Grow)]>> \o @]

(* The bump: behind the last object of the head, or at the start of a new     *)
(* block; without a block for it the call fails and changes nothing.          *)
Bump(a, aoff, size) ==
    /\ arena' = [a EXCEPT !.off = aoff + size, !.outstanding = @ + 1]
    /\ objs' = objs \cup {Obj(Head(a.chain).at, Header + aoff, size, "arena")}

(* Mutant: a new block is filled from the offset of the old one.              *)
ArenaAllocKeepsOffset(size, align) ==
    LET aoff == RoundUp(arena.off, align) IN
    /\ arena.up
    /\ IF arena.chain # <<>> /\ aoff + size <= Head(arena.chain).size
       THEN Bump(arena, aoff, size) /\ UNCHANGED heap
       ELSE \E b \in Addresses \ heap :
                /\ heap' = heap \cup {b}
                /\ Bump(ArenaGrow(size + align, b), aoff, size)
    /\ UNCHANGED <<pool, static, own, esc>>

ArenaAlloc(size, align) ==
    LET aoff == RoundUp(arena.off, align) IN
    /\ arena.up
    /\ IF arena.chain # <<>> /\ aoff + size <= Head(arena.chain).size
       THEN Bump(arena, aoff, size) /\ UNCHANGED heap
       ELSE \E b \in Addresses \ heap :
                /\ heap' = heap \cup {b}
                /\ Bump(ArenaGrow(size + align, b), 0, size)
    /\ UNCHANGED <<pool, static, own, esc>>

(* Mutant: the epoch stays.                                                   *)
ArenaResetSameEpoch ==
    /\ arena.up
    /\ Gone(Of("arena"))
    /\ arena' = [arena EXCEPT !.off = 0, !.outstanding = 0]
    /\ UNCHANGED <<heap, pool, static, own, esc>>

(* reset rewinds the head only: the blocks behind it stay and are not used    *)
(* again before destroy.                                                      *)
ArenaReset ==
    /\ arena.up /\ arena.epoch < MaxEpoch
    /\ Gone(Of("arena"))
    /\ arena' = [arena EXCEPT !.off = 0, !.outstanding = 0, !.epoch = @ + 1]
    /\ UNCHANGED <<heap, pool, static, own, esc>>

ArenaDestroy ==
    /\ arena.up
    /\ "revoke" \in Discipline => \A i \in DOMAIN esc : ~ esc[i].active
    /\ Gone(Of("arena"))
    /\ heap' = heap \ {arena.chain[i].at : i \in DOMAIN arena.chain}
    /\ arena' = NoArena
    /\ UNCHANGED <<pool, static, own, esc>>

-----------------------------------------------------------------------------
PoolNew ==
    /\ ~ pool.up
    /\ pool' = [NoPool EXCEPT !.up = TRUE]
    /\ UNCHANGED <<heap, arena, static, own, esc, objs>>

(* The next slot of cur, or the first one of a new chunk (pool_grow).         *)
PoolBump ==
    IF pool.chunks # <<>> /\ pool.chunks[1].filled < PerChunk
    THEN LET c == pool.chunks[1] IN
         /\ pool' = [pool EXCEPT !.chunks[1].filled = @ + 1, !.live = @ + 1]
         /\ objs' = objs \cup {Obj(c.at, Header + c.filled, 1, "pool")}
         /\ UNCHANGED heap
    ELSE \E b \in Addresses \ heap :
         /\ heap' = heap \cup {b}
         /\ pool' = [pool EXCEPT !.chunks = <<[at |-> b, filled |-> 1]>> \o @,
                                 !.live = @ + 1]
         /\ objs' = objs \cup {Obj(b, Header, 1, "pool")}

(* Mutant: the slot stays at the head of the free list.                       *)
PoolAllocKeepsFree ==
    /\ pool.up
    /\ IF pool.free # <<>>
       THEN /\ pool' = [pool EXCEPT !.live = @ + 1]
            /\ objs' = objs \cup {[ptr |-> Head(pool.free), len |-> 1, owner |-> "pool"]}
            /\ UNCHANGED heap
       ELSE PoolBump
    /\ UNCHANGED <<arena, static, own, esc>>

PoolAlloc ==
    /\ pool.up
    /\ IF pool.free # <<>>
       THEN /\ pool' = [pool EXCEPT !.free = Tail(@), !.live = @ + 1]
            /\ objs' = objs \cup {[ptr |-> Head(pool.free), len |-> 1, owner |-> "pool"]}
            /\ UNCHANGED heap
       ELSE PoolBump
    /\ UNCHANGED <<arena, static, own, esc>>

(* tcc_pool_free believes its caller: any slot may be given back twice.       *)
PoolFree(p) ==
    /\ pool.up
    /\ "once" \in Discipline => \E o \in Of("pool") : o.ptr = p
    /\ Gone({o \in Of("pool") : o.ptr = p})
    /\ pool' = [pool EXCEPT !.free = <<p>> \o @, !.live = @ - 1]
    /\ UNCHANGED <<heap, arena, static, own, esc>>

PoolDestroy ==
    /\ pool.up
    /\ Gone(Of("pool"))
    /\ heap' = heap \ {pool.chunks[i].at : i \in DOMAIN pool.chunks}
    /\ pool' = NoPool
    /\ UNCHANGED <<arena, static, own, esc>>

-----------------------------------------------------------------------------
StaticAlloc(size, align) ==
    LET aoff == RoundUp(static, align) IN
    /\ aoff + size <= StaticCap
    /\ static' = aoff + size
    /\ objs' = objs \cup {Obj(Static, aoff, size, "ctmem")}
    /\ UNCHANGED <<heap, arena, pool, own, esc>>

StaticReset ==
    /\ Gone(Of("ctmem"))
    /\ static' = 0
    /\ UNCHANGED <<heap, arena, pool, own, esc>>

-----------------------------------------------------------------------------
(* tcc_own_lookup                                                             *)
OwnerOf(p) ==
    IF \E i \in DOMAIN own : own[i].ptr = p
    THEN own[SelectInSeq(own, LAMBDA e : e.ptr = p)].owner
    ELSE "none"

(* A known address keeps its owner, and a full table forgets silently.        *)
OwnRegister(o) ==
    /\ OwnerOf(o.ptr) = "none" /\ Len(own) < OwnMax
    /\ own' = Append(own, [ptr |-> o.ptr, owner |-> o.owner])
    /\ UNCHANGED <<heap, arena, pool, static, esc, objs>>

(* Mutant: the table is shortened without filling the gap.                    *)
WithoutLast(p) ==
    LET i == SelectInSeq(own, LAMBDA e : e.ptr = p) IN
    IF i = 0 THEN own ELSE Front(own)

(* The last entry fills the gap.                                              *)
Without(p) ==
    LET i == SelectInSeq(own, LAMBDA e : e.ptr = p) IN
    IF i = 0 THEN own ELSE Front([own EXCEPT ![i] = Last(own)])

OwnUnregister(p) ==
    /\ OwnerOf(p) # "none"
    /\ own' = Without(p)
    /\ UNCHANGED <<heap, arena, pool, static, esc, objs>>

(* tcc_release frees what the table calls heap, and refuses everything else.  *)
Release(p) ==
    /\ OwnerOf(p) = "heap"
    /\ own' = Without(p)
    /\ heap' = heap \ {p[1]}
    /\ objs' = {o \in objs : o.ptr # p}
    /\ UNCHANGED <<arena, pool, static, esc>>

-----------------------------------------------------------------------------
(* A pointer is told with the epoch its arena had when it was allocated.  An  *)
(* entry is never used again, so that a full table stays full.                *)
Escaped(p, g) == \E i \in DOMAIN esc : esc[i].active /\ esc[i].ptr = p /\ esc[i].slot = g

EscRegister(o, g) ==
    /\ o.owner = "arena" /\ Len(esc) < EscMax /\ ~ Escaped(o.ptr, g)
    /\ esc' = Append(esc, [ptr |-> o.ptr, slot |-> g, epoch |-> arena.epoch, active |-> TRUE])
    /\ UNCHANGED <<heap, arena, pool, static, own, objs>>

EscRevoke(p, g) ==
    /\ Escaped(p, g)
    /\ LET i == SelectInSeq(esc, LAMBDA e : e.active /\ e.ptr = p /\ e.slot = g) IN
       esc' = [esc EXCEPT ![i].active = FALSE]
    /\ UNCHANGED <<heap, arena, pool, static, own, objs>>

(* What tcc_esc_check prints of an arena that is up.                          *)
Reported == {i \in DOMAIN esc : esc[i].active /\ esc[i].epoch # arena.epoch}

-----------------------------------------------------------------------------
Slots == UNION {{Ptr(c.at, Header + n) : n \in 0 .. c.filled - 1} : c \in ToSet(pool.chunks)}

Next ==
    \/ Malloc \/ ArenaNew \/ ArenaReset \/ ArenaDestroy
    \/ PoolNew \/ PoolAlloc \/ PoolDestroy \/ StaticReset
    \/ \E size \in Sizes, align \in Aligns : ArenaAlloc(size, align) \/ StaticAlloc(size, align)
    \/ \E p \in Slots : PoolFree(p)
    \/ \E o \in objs : OwnRegister(o) \/ \E g \in Globals : EscRegister(o, g)
    \/ \E e \in ToSet(own) : OwnUnregister(e.ptr) \/ Release(e.ptr)
    \/ \E e \in ToSet(esc) : EscRevoke(e.ptr, e.slot)

Spec == Init /\ [][Next]_vars

-----------------------------------------------------------------------------
Owners == {"heap", "arena", "pool", "ctmem"}

TypeOK ==
    /\ heap \subseteq Addresses
    /\ ToSet(arena.chain) \subseteq [at : Addresses, size : Nat] /\ arena.epoch \in 0 .. MaxEpoch
    /\ arena.off \in Nat /\ arena.outstanding \in Nat
    /\ ToSet(pool.chunks) \subseteq [at : Addresses, filled : 1 .. PerChunk] /\ pool.live \in Nat
    /\ static \in 0 .. StaticCap
    /\ Len(own) <= OwnMax /\ Len(esc) <= EscMax
    /\ \A o \in objs : o.ptr[1] \in Addresses \cup {Static} /\ o.owner \in Owners

Overlap(o, r) ==
    /\ o.ptr[1] = r.ptr[1]
    /\ o.ptr[2] < r.ptr[2] + r.len /\ r.ptr[2] < o.ptr[2] + o.len

(* Every address in use belongs to one of malloc's callers, and every object  *)
(* lies inside the memory of its allocator and meets no other.                *)
LiveIsExclusive ==
    LET chain == ToSet(arena.chain)
        chunks == ToSet(pool.chunks)
        raw == {o.ptr[1] : o \in Of("heap")}
    IN
    /\ heap = {c.at : c \in chain} \cup {c.at : c \in chunks} \cup raw
    /\ Cardinality(heap) = Len(arena.chain) + Len(pool.chunks) + Cardinality(Of("heap"))
    /\ \A o \in objs, r \in objs : Overlap(o, r) => o = r
    /\ \A o \in Of("arena") : \E c \in chain :
           o.ptr[1] = c.at /\ o.ptr[2] + o.len <= Header + c.size

(* The slots a pool has cut are in use or in its free list, once, and the     *)
(* counters say how many are in use.                                          *)
CountersExact ==
    /\ {o.ptr : o \in Of("pool")} = Slots \ ToSet(pool.free)
    /\ IsInjective(pool.free) /\ ToSet(pool.free) \subseteq Slots
    /\ pool.live = Cardinality(Of("pool"))
    /\ arena.outstanding = Cardinality(Of("arena"))

(* The allocators give nothing twice, lose nothing and count right, across    *)
(* resets, new blocks, frees and addresses that malloc gives again.           *)
AllocatorsExact == TypeOK /\ LiveIsExclusive /\ CountersExact

(* What the tables say is so (docs/memory-governance.md, 6.1 and 6.4): an     *)
(* address has one entry, which names the allocator that holds it now, so     *)
(* that tcc_release frees nothing else; and an escaped pointer that           *)
(* tcc_esc_check does not report still points to what escaped.                *)
TablesTruthful ==
    /\ \A i \in DOMAIN own : \E o \in objs : o.ptr = own[i].ptr /\ o.owner = own[i].owner
    /\ \A i, j \in DOMAIN own : own[i].ptr = own[j].ptr => i = j
    /\ arena.up => \A i \in DOMAIN esc :
           esc[i].active /\ i \notin Reported => \E o \in Of("arena") : o.ptr = esc[i].ptr
=============================================================================
