-------------------------- MODULE MCBlitterHistory --------------------------
(* What is taken and given back, side by side: the blocks of a two-word       *)
(* bitmap searched by racing threads, with histories (this module extends it),*)
(* the objects of the allocators of lib/ with the tables that watch over them,*)
(* and in the compiler the symbols of scopes and what is registered for the   *)
(* ends of scopes.  A behaviour is of one part, so that the states of the     *)
(* parts add up.                                                              *)
EXTENDS BlitterHistory, TLC

CONSTANTS b1, b2, st, g1

VARIABLES
    part,                                               \* the part that runs
    heap, arena, pool, static, own, esc, objs,
    sym, token, locals, scopes, error, env, twice, values,
    code, nested, loop, switches, labels, gotos, rsym, entries, steps, mode, astray

Symmetry == Permutations(Threads) \cup Permutations({b1, b2})

memVars == <<heap, arena, pool, static, own, esc, objs>>
symVars == <<sym, token, locals, scopes, error, env, twice, values>>
exitVars == <<code, nested, loop, switches, labels, gotos, rsym, entries, steps, mode, astray>>

(* Two blocks of malloc, requests of one unit and of more than a block, two   *)
(* entries of the ownership table and one of the escape table.                *)
Mem == INSTANCE MemoryGovernance WITH
    Addresses <- {b1, b2}, Static <- st, Globals <- {g1}, Grow <- 2, Sizes <- {1, 3},
    Aligns <- {2}, PerChunk <- 2, StaticCap <- 1, OwnMax <- 2, EscMax <- 1, MaxEpoch <- 1,
    Discipline <- {"unregister", "revoke", "once"}

(* Four symbols of one name, three scopes inside one another.                 *)
Scopes == INSTANCE SymScopes WITH
    Names <- {"a"}, MaxSyms <- 4, MaxScopes <- 3, Discipline <- {"apart"}

(* One label, two registrations, two scopes in the body of a function.        *)
Exits == INSTANCE ScopeExits WITH
    Labels <- {"l"}, MaxEntries <- 2, MaxScopes <- 4, MaxSteps <- 7,
    Discipline <- {"into", "late", "mixed"}, scopes <- nested

Others(p) ==
    /\ UNCHANGED part
    /\ p # "bitmap" => UNCHANGED historyVars
    /\ p # "memory" => UNCHANGED memVars
    /\ p # "symbols" => UNCHANGED symVars
    /\ p # "exits" => UNCHANGED exitVars

MCInit ==
    /\ part \in {"bitmap", "memory", "symbols", "exits"}
    /\ HistoryInit /\ free = Blocks /\ Mem!Init /\ Scopes!Init /\ Exits!Init

MCNext ==
    \/ part = "bitmap" /\ HistoryNext /\ Others("bitmap")
    \/ part = "memory" /\ Mem!Next /\ Others("memory")
    \/ part = "symbols" /\ Scopes!Next /\ Others("symbols")
    \/ part = "exits" /\ Exits!Next /\ Others("exits")
    \/ part \in {"symbols", "exits"} /\ Others("none")     \* a compilation ends

MCSpec == MCInit /\ [][MCNext]_<<part, historyVars, memVars, symVars, exitVars>>

-----------------------------------------------------------------------------
(* Memory: nothing is given twice or lost, and what the tables say is so.     *)
AllocatorsExact == part = "memory" => Mem!AllocatorsExact
TablesTruthful == part = "memory" => Mem!TablesTruthful

(* Scopes of the compiler: a name stands for its innermost declaration, no    *)
(* symbol is freed that a value needs, and what a scope has registered for its*)
(* end is called once on every way out of it.                                 *)
ScopesSound ==
    /\ part = "symbols" => Scopes!ScopesSound
    /\ part = "exits" => Exits!ExitsSound
=============================================================================
