------------------------------ MODULE ElfSymtab ------------------------------
(* The symbol table of the linker (tccelf.c), file after file.  While a file  *)
(* is compiled its symbols are put behind those of the earlier files, without *)
(* hashing, and relocations name them by their place.  At the end of the file *)
(* the table is cut back and each symbol is set again in place: a new entry,  *)
(* or the one that has its name; the relocations follow.  For output the      *)
(* table is sorted, locals first.                                             *)
EXTENDS Integers, Sequences, FiniteSets, SequencesExt, FiniteSetsExt

CONSTANTS
    Names,          \* names of symbols
    Hash,           \* Hash[name], elf_hash
    Symbols,        \* what files put: [name, bind, def, vis, set]
    MaxSyms,        \* bound of the symbols of all files
    MaxRelocs,      \* bound of the relocations
    MaxFiles,       \* bound of the files
    Failures        \* files may fail, and the next one is compiled all the same

Places == 0 .. MaxSyms
Tentative == {"common", "bss"}
NoSym == [name |-> "", bind |-> "local", def |-> "undef", vis |-> "default", set |-> FALSE,
          id |-> 0]

VARIABLES
    tab,        \* the symbol section and its hash section, see NewTable
    saved,      \* s->reloc: hash sections put away for the time of a file
    first,      \* where the symbols of the file start (sh_offset)
    relocs,     \* relocations: places of symbols
    mode,       \* "between" files, in a "file", "failed", "sorted"
    files,      \* files so far
    given,      \* history: the symbols that were set, in order
    meant       \* history: meant[i], what relocation i is to: [name, own]

vars == <<tab, saved, first, relocs, mode, files, given, meant>>

(* One bucket; place 0 is no symbol.  got: the place the last call returned.  *)
NewTable ==
    [store |-> [i \in Places |-> NoSym], used |-> 1,
     hash |-> <<[nb |-> 1, head |-> [b \in 0 .. MaxSyms |-> 0], chain |-> <<0>>, hashed |-> 0]>>,
     errors |-> 0, got |-> 0]

Init ==
    /\ tab = NewTable /\ saved = <<>> /\ first = 0 /\ relocs = <<>> /\ mode = "between"
    /\ files = 0 /\ given = <<>> /\ meant = <<>>

-----------------------------------------------------------------------------
(* The hash section: heads of buckets, and for each place the next one.       *)

Bucket(name, nb) == Hash[name] % nb
Nonlocals(t) == {i \in 1 .. (t.used - 1) : t.store[i].bind # "local"}
LastOf(S) == IF S = {} THEN 0 ELSE Max(S)

(* Mutant: the table grows without a new hash of what is there.               *)
RebuiltNot(t, nb) == [t.hash[1] EXCEPT !.nb = nb]

Rebuilt(t, nb) ==
    LET In(b, upTo) == {i \in Nonlocals(t) : i < upTo /\ Bucket(t.store[i].name, nb) = b} IN
    [nb |-> nb,
     head |-> [b \in 0 .. MaxSyms |-> LastOf(In(b, t.used))],
     chain |-> [j \in 1 .. t.used |->
                   IF j - 1 \in Nonlocals(t)
                   THEN LastOf(In(Bucket(t.store[j - 1].name, nb), j - 1)) ELSE 0],
     hashed |-> t.hash[1].hashed]

(* put_elf_sym                                                                *)
Put(t, s) ==
    LET i == t.used
        t1 == [t EXCEPT !.store[i] = s, !.used = i + 1, !.got = i]
    IN
    IF t.hash = <<>> THEN t1
    ELSE LET h == t.hash[1]
             b == Bucket(s.name, h.nb)
             t2 == [t1 EXCEPT !.hash = <<[h EXCEPT !.chain = Append(@, h.head[b]),
                                                   !.head[b] = i, !.hashed = @ + 1]>>]
         IN  IF s.bind = "local"
             THEN [t1 EXCEPT !.hash = <<[h EXCEPT !.chain = Append(@, 0)]>>]
             ELSE IF h.hashed + 1 > 2 * h.nb
             THEN [t2 EXCEPT !.hash = <<Rebuilt(t2, 2 * h.nb)>>]
             ELSE t2

(* find_elf_sym, 0 for none.                                                  *)
Find(t, name) ==
    IF t.hash = <<>> THEN 0
    ELSE LET h == t.hash[1]
             step[k \in Places] ==
                 IF k = 0 THEN h.head[Bucket(name, h.nb)]
                 ELSE LET i == step[k - 1] IN
                      IF i = 0 \/ t.store[i].name = name THEN i ELSE h.chain[i + 1]
         IN  step[MaxSyms]

-----------------------------------------------------------------------------
(* set_elf_sym: what becomes of a definition e when s of its name comes.      *)

(* Mutant: a weak definition that comes later takes over.                     *)
WinsWeak(e, s) ==
    /\ s.def # "undef"
    /\ \/ e.bind = "weak" \/ s.bind = "weak"
       \/ s.vis = "default" /\ s.def = "data" /\ (e.def \in Tentative \/ e.set)

Wins(e, s) ==
    /\ s.def # "undef" /\ s.bind = "global"
    /\ \/ e.bind = "weak"
       \/ s.vis = "default" /\ s.def = "data" /\ (e.def \in Tentative \/ e.set)

Twice(e, s) ==
    /\ s.bind = "global" /\ e.bind = "global" /\ s.vis = "default"
    /\ s.def = "data" /\ e.def = "data" /\ ~ e.set

Merged(e, s) ==
    LET vis == IF s.vis = "hidden" THEN "hidden" ELSE e.vis IN
    IF e.def = "undef" THEN s
    ELSE IF Wins(e, s) THEN [s EXCEPT !.vis = vis, !.set = e.set]
    ELSE [e EXCEPT !.vis = vis]

Set(t, s) ==
    LET i == IF s.bind = "local" THEN 0 ELSE Find(t, s.name) IN
    IF i = 0 THEN Put(t, s)
    ELSE [t EXCEPT !.store[i] = Merged(t.store[i], s), !.got = i,
                   !.errors = @ + IF t.store[i].def # "undef" /\ Twice(t.store[i], s)
                                  THEN 1 ELSE 0]

-----------------------------------------------------------------------------
(* tccelf_begin_file                                                          *)
BeginFile ==
    /\ mode \in {"between", "failed"}
    /\ files < MaxFiles
    /\ mode' = "file" /\ files' = files + 1 /\ first' = tab.used
    /\ saved' = tab.hash /\ tab' = [tab EXCEPT !.hash = <<>>]
    /\ UNCHANGED <<relocs, given, meant>>

(* Symbols so far, those of the file included.                                *)
Total == Len(given) + IF mode = "file" THEN tab.used - first ELSE 0

New(s) ==
    [name |-> s.name, bind |-> s.bind, def |-> s.def, vis |-> s.vis, set |-> s.set,
     id |-> IF s.def = "undef" THEN 0 ELSE Total + 1]

(* put_extern_sym2 of a symbol of the compiler that has no place yet.         *)
PutExtern(s) ==
    /\ mode = "file" /\ Total < MaxSyms
    /\ tab' = Put(tab, New(s))
    /\ UNCHANGED <<saved, first, relocs, mode, files, given, meant>>

(* ... and of one that has: a declaration that is followed by its definition. *)
Define(i) ==
    /\ mode = "file" /\ tab.store[i].def \in {"undef", "common"}
    /\ tab' = [tab EXCEPT !.store[i].def = "data", !.store[i].id = i + MaxSyms * files]
    /\ UNCHANGED <<saved, first, relocs, mode, files, given, meant>>

(* greloca                                                                    *)
Reloc(i) ==
    /\ mode = "file" /\ Len(relocs) < MaxRelocs
    /\ relocs' = Append(relocs, i)
    /\ UNCHANGED <<tab, saved, first, mode, files, given, meant>>

(* A compile error leaves by a long jump: the end of the file is not reached. *)
Fail ==
    /\ mode = "file" /\ Failures
    /\ mode' = "failed"
    /\ UNCHANGED <<tab, saved, first, relocs, files, given, meant>>

(* What the file leaves undefined is looked for by its name.                  *)
Exported(s) == IF s.def = "undef" /\ s.bind = "local" THEN [s EXCEPT !.bind = "global"] ELSE s

(* Mutant: the relocations stay where they are.                               *)
MovedNot(from, tr) == relocs

(* update_relocs, for the places from a first one on.                         *)
Moved(from, tr) == [r \in DOMAIN relocs |-> IF relocs[r] < from THEN relocs[r] ELSE tr[relocs[r]]]

(* The table the file started with, in which each symbol is set: over those   *)
(* that have been read.                                                       *)
Resettled ==
    FoldLeft(LAMBDA acc, i :
                 LET t == Set(acc.t, Exported(acc.t.store[i])) IN
                 [t |-> t, tr |-> [acc.tr EXCEPT ![i] = t.got]],
             [t |-> [tab EXCEPT !.used = first, !.hash = saved], tr |-> [i \in Places |-> 0]],
             [k \in 1 .. (tab.used - first) |-> first + k - 1])

FileSyms == [k \in 1 .. (tab.used - first) |-> Exported(tab.store[first + k - 1])]
Meaning(i) ==
    [name |-> tab.store[i].name,
     own |-> IF Exported(tab.store[i]).bind = "local" THEN tab.store[i].id ELSE 0]

(* tccelf_end_file                                                            *)
EndFile ==
    /\ mode = "file"
    /\ mode' = "between"
    /\ tab' = Resettled.t /\ saved' = <<>>
    /\ relocs' = Moved(first, Resettled.tr)
    /\ given' = given \o FileSyms
    /\ meant' = meant \o [k \in 1 .. (Len(relocs) - Len(meant)) |->
                              Meaning(relocs[Len(meant) + k])]
    /\ UNCHANGED <<first, files>>

(* An object file, or the linker itself: set_elf_sym between the files.       *)
AddSym(s) ==
    /\ mode = "between" /\ Total < MaxSyms
    /\ tab' = Set(tab, New(s))
    /\ given' = Append(given, New(s))
    /\ UNCHANGED <<saved, first, relocs, mode, files, meant>>

-----------------------------------------------------------------------------
(* resolve_common_syms, then sort_syms.  The hash is left as it was.          *)
Bss(t) == [t EXCEPT !.store = [i \in Places |->
              IF i < t.used /\ @[i].def = "common" THEN [@[i] EXCEPT !.def = "bss"] ELSE @[i]]]

Order(t) ==
    LET all == [i \in 1 .. t.used |-> i - 1] IN
    SelectSeq(all, LAMBDA i : t.store[i].bind = "local")
    \o SelectSeq(all, LAMBDA i : t.store[i].bind # "local")

Output ==
    /\ mode = "between"
    /\ mode' = "sorted"
    /\ LET t == Bss(tab)
           order == Order(t)
           at == [i \in 0 .. (t.used - 1) |-> CHOOSE k \in DOMAIN order : order[k] = i]
       IN  /\ tab' = [t EXCEPT !.store = [i \in Places |->
                          IF i < t.used THEN t.store[order[i + 1]] ELSE @[i]]]
           /\ relocs' = Moved(0, [i \in DOMAIN at |-> at[i] - 1])
    /\ UNCHANGED <<saved, first, files, given, meant>>

-----------------------------------------------------------------------------
InFile == {i \in Places : first <= i /\ i < tab.used}

Next ==
    \/ BeginFile \/ EndFile \/ Fail \/ Output
    \/ \E s \in Symbols : PutExtern(s) \/ AddSym(s)
    \/ \E i \in InFile : Define(i) \/ Reloc(i)

Spec == Init /\ [][Next]_vars

-----------------------------------------------------------------------------
Settled == mode \in {"between", "sorted"}
Entries == 1 .. (tab.used - 1)

TypeOK ==
    /\ tab.used \in 1 .. (MaxSyms + 1) /\ tab.errors \in Nat /\ tab.got \in Places
    /\ \A i \in Entries : tab.store[i].name \in Names
    /\ Settled => Len(tab.hash) = 1 /\ Len(tab.hash[1].chain) = tab.used

(* A relocation still names what it was made for, however its symbol moved:   *)
(* the file's own local definition, or the one global symbol of the name.     *)
RelocsPointRight ==
    Settled => \A r \in DOMAIN relocs :
        LET s == tab.store[relocs[r]] IN
        /\ s.name = meant[r].name
        /\ IF meant[r].own # 0 THEN s.bind = "local" /\ s.id = meant[r].own
                               ELSE s.bind # "local"

(* A name has one global symbol at most, and the hash leads to it, also after *)
(* it has grown and the symbols behind it were cut off and set again.         *)
FindsEveryGlobal ==
    mode = "between" => \A name \in Names :
        {i \in Nonlocals(tab) : tab.store[i].name = name} = {Find(tab, name)} \ {0}

(* The definition a name ends with does not depend on the order of the files: *)
(* a strong one beats tentative ones, both beat weak ones; two strong ones    *)
(* are an error, and nothing else is.  (Hidden ones may be ignored, and what  *)
(* an asm .set has defined may be defined any number of times.)               *)
Defs(name) ==
    {s \in ToSet(given) : s.name = name /\ s.bind # "local" /\ s.def # "undef"}
Strong(name) == {s \in Defs(name) : s.bind = "global" /\ s.def = "data"}
Plain(S) == {s \in S : s.vis = "default"}

StrongestWins ==
    /\ Settled => \A i \in Nonlocals(tab) :
          LET s == tab.store[i] IN
          /\ s.def = "undef" <=> Defs(s.name) = {}
          /\ Plain(Strong(s.name)) # {} => s.bind = "global" /\ s.def = "data"
          /\ (\E d \in Defs(s.name) : d.bind = "global") => s.bind = "global"
    /\ (tab.errors = 0 /\ Settled) => \A name \in Names :
          (\A s \in Defs(name) : ~ s.set) => Cardinality(Plain(Strong(name))) <= 1
    /\ tab.errors > 0 => \E name \in Names : Cardinality(Strong(name)) > 1

(* Locals come first in the table that is written (tccelf.c:868).             *)
LocalsFirst ==
    mode = "sorted" => \A i \in Entries, j \in Entries :
        i < j /\ tab.store[j].bind = "local" => tab.store[i].bind = "local"

SymbolsSound == TypeOK /\ RelocsPointRight /\ FindsEveryGlobal /\ LocalsFirst
=============================================================================
