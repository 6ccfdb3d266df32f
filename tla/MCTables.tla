------------------------------ MODULE MCTables ------------------------------
(* Parts of the system that are tables of objects, side by side: System V     *)
(* semaphores (this module extends them), POSIX and System V message queues,  *)
(* shared memory, the symbols of the linker, and the values and the cases of  *)
(* the compiler.  A behaviour is of one part, so that the states of the parts *)
(* add up.                                                                    *)
EXTENDS MCSysvSem

CONSTANTS
    m1, m2, m3, m4, q1,
    Slots, Msgs, Type, Sels,            \* of System V message queues
    Segments, MaxSegments, MaxAttached  \* of shared memory: entries, and the bounds

VARIABLES
    part,                                               \* the part that runs
    mqTable, mqBound, mqRaced, mqNow, mqPc, mqLoc, mqSent, mqLives,
    msgQueues, msgSeq, msgPc, msgLoc, msgIds, msgGot,
    shmSegs, shmSeq, shmPc, shmLoc, shmIds, shmAttached,
    tab, saved, first, relocs, mode, files, given, meant,
    words, gen, frames, next, size, sem,
    cases, inds

ASSUME TablesBounds ==
    /\ IsFiniteSet(Threads)
    /\ Slots \in Nat /\ Segments \in Nat \ {0}
    /\ MaxSegments \in Nat /\ MaxAttached \in Nat
    /\ Sels \subseteq [kind : {"any", "of", "except", "upto"}, type : Nat]

(* One queue of two places and a third slot; m3 and m4 have the same priority.*)
Mq == INSTANCE MessageQueue WITH
    Names <- {q1}, Cap <- 1, Slots <- 3, Limits <- {2}, Msgs <- {m1, m3, m4},
    Prio <- [m \in {m1, m3, m4} |-> IF m = m1 THEN 0 ELSE 1], Word <- 8,
    MaxTime <- 1, MaxLives <- 1, Ops <- {"send", "receive", "setattr"},
    table <- mqTable, bound <- mqBound, raced <- mqRaced, now <- mqNow,
    pc <- mqPc, loc <- mqLoc, history <- mqSent, lives <- mqLives

(* It is open, as after one successful mq_open.                               *)
MqInit ==
    /\ mqTable = [q \in Mq!Queues |->
         [Mq!Unused EXCEPT !.used = TRUE, !.name = q1, !.maxmsg = Mq!LargestRoom]]
    /\ mqBound = Mq!Queues /\ mqRaced = {}
    /\ mqLives = [q \in Mq!Queues |-> 1]
    /\ mqNow = 0 /\ mqSent = <<>>
    /\ mqPc = [t \in Threads |-> "idle"] /\ mqLoc = [t \in Threads |-> Mq!Idle]

Select(kind, type) == [kind |-> kind, type |-> type]

(* A message of type 1 and one of type 2, and a selection of each kind.       *)
OneAndTwo == m1 :> 1 @@ m2 :> 2
OneOfEach == {Select("any", 0), Select("of", 2), Select("except", 1), Select("upto", 2)}

Msg == INSTANCE SysvMsg WITH
    queues <- msgQueues, ipcSeq <- msgSeq, pc <- msgPc, loc <- msgLoc, ids <- msgIds,
    got <- msgGot

(* Segments of a key and of none, also of size 0.                             *)
Shm == INSTANCE SysvShm WITH
    Cap <- Segments, Keys <- {0} \cup Keys, Sizes <- {0, 1}, MaxSeq <- MaxSegments,
    Settled <- TRUE,
    segs <- shmSegs, ipcSeq <- shmSeq, pc <- shmPc, loc <- shmLoc, ids <- shmIds,
    attached <- shmAttached

Symbol(name, bind, def) ==
    [name |-> name, bind |-> bind, def |-> def, vis |-> "default", set |-> FALSE]

(* Three symbols in two files: the kinds that meet under one name, a static   *)
(* function before its definition, and what an asm .set defines.  A third     *)
(* name makes the hash grow.                                                  *)
Elf == INSTANCE ElfSymtab WITH
    Names <- {"a", "b", "c"}, Hash <- [n \in {"a", "b", "c"} |-> IF n = "b" THEN 2 ELSE 1],
    Symbols <-
        {Symbol("a", "global", "undef"), Symbol("a", "global", "data"),
         Symbol("a", "weak", "data"), [Symbol("a", "global", "common") EXCEPT !.vis = "hidden"],
         Symbol("b", "local", "undef"), Symbol("b", "global", "data"),
         Symbol("c", "global", "data"), [Symbol("c", "global", "data") EXCEPT !.set = TRUE]},
    MaxSyms <- 3, MaxRelocs <- 1, MaxFiles <- 2, Failures <- FALSE

(* The variables of four machines: pointers among them, zeros and equal values*)
(* in each place.                                                             *)
Memory(x, y, z) == 0 :> x @@ 1 :> y @@ 2 :> z
FourMemories == <<Memory(0, 1, 2), Memory(1, 0, 2), Memory(2, 2, 0), Memory(1, 2, 1)>>

(* Short expressions with every operator, and longer ones with those that need*)
(* registers, with those that jump and with those that want a register of     *)
(* their own.                                                                 *)
Wide == [variables |-> {0}, constants |-> {0, 1}, leaves |-> {"call", "stop"},
         binary |-> {"-", "/", "<<", "<"}, unary |-> {"!", "*", "&", "++"},
         stores |-> {"=", "-="}, flow |-> {"&&", "||", "?", "?:", ","}, size |-> 3]
Deep == [variables |-> {0}, constants |-> {1}, leaves |-> {"call"},
         binary |-> {"-", "/"}, unary |-> {"*", "++"}, stores |-> {"="}, flow |-> {"&&", "?"},
         size |-> 4]
Jumping == [variables |-> {0, 1}, constants |-> {}, leaves |-> {"stop"},
            binary |-> {"<"}, unary |-> {"!"}, stores |-> {}, flow |-> {"&&", "||", "?:"},
            size |-> 4]
Spilling == [variables |-> {1}, constants |-> {}, leaves |-> {"call"}, binary |-> {"/"},
             unary |-> {"++"}, stores |-> {}, flow |-> {}, size |-> 6]

Expr == INSTANCE ExprCode WITH
    Memories <- FourMemories, MaxTemps <- 2, Vocabularies <- {Wide, Deep, Jumping, Spilling},
    mode <- next

(* Tables of up to four cases, halved when there are more than two.           *)
Cases == INSTANCE SwitchCases WITH Values <- 1 .. 5, Short <- 2, MaxCases <- 4

mqVars == <<mqTable, mqBound, mqRaced, mqNow, mqPc, mqLoc, mqSent, mqLives>>
msgVars == <<msgQueues, msgSeq, msgPc, msgLoc, msgIds, msgGot>>
shmVars == <<shmSegs, shmSeq, shmPc, shmLoc, shmIds, shmAttached>>
elfVars == <<tab, saved, first, relocs, mode, files, given, meant>>
exprVars == <<words, gen, frames, next, size, sem>>
caseVars == <<cases, inds>>

Others(p) ==
    /\ UNCHANGED part
    /\ p # "sem" => UNCHANGED vars
    /\ p # "mq" => UNCHANGED mqVars
    /\ p # "msg" => UNCHANGED msgVars
    /\ p # "shm" => UNCHANGED shmVars
    /\ p # "elf" => UNCHANGED elfVars
    /\ p # "expr" => UNCHANGED exprVars
    /\ p # "cases" => UNCHANGED caseVars

TablesInit ==
    /\ part \in {"sem", "mq", "msg", "shm", "elf", "expr", "cases"}
    /\ Init /\ MqInit /\ Msg!Init /\ Shm!Init /\ Elf!Init /\ Expr!Init
    /\ Cases!Init
    /\ part # "expr" => words = Wide

TablesNext ==
    \/ part = "sem" /\ Next /\ Others("sem")
    \/ part = "mq" /\ Mq!Next /\ Others("mq")
    \/ part = "msg" /\ Msg!Next /\ Others("msg")
    \/ part = "shm" /\ Shm!Next /\ Others("shm")
    \/ part = "elf" /\ Elf!Next /\ Others("elf")
    \/ part = "expr" /\ Expr!Next /\ Others("expr")
    \/ part = "cases" /\ Cases!Next /\ Others("cases")

TablesSpec ==
    TablesInit /\ [][TablesNext]_<<part, vars, mqVars, msgVars, shmVars, elfVars,
                                   exprVars, caseVars>>

-----------------------------------------------------------------------------
(* The counters the calls keep agree with what is there: the units of the     *)
(* semaphores, curmsgs of a POSIX queue, msg_qnum and shm_nattch.             *)
CountsExact ==
    /\ part = "sem" => TypeOK /\ ValuesExact
    /\ part = "mq" => Mq!TypeOK /\ Mq!CountExact
    /\ part = "msg" => Msg!QnumExact
    /\ part = "shm" => Shm!NattchExact

(* An identifier of semget, msgget or shmget denotes the object it was        *)
(* returned for or none, however often its entry is used again.               *)
IdsNameOneObject ==
    /\ part = "sem" => IdsNameOneSet
    /\ part = "msg" => Msg!IdsNameOneQueue
    /\ part = "shm" => Shm!IdsNameOneSegment

(* POSIX queues implement bounded priority queues, and System V queues boxes  *)
(* that give each message once, to a receive whose selection allows it.       *)
ImplementsQueue == Mq!ImplementsQueue
ImplementsBox == Msg!ImplementsBox

(* Symbols of the linker: relocations, hash and order stay right, and the     *)
(* definition a name ends with does not depend on the order of the files.     *)
SymbolsSound == part = "elf" => Elf!SymbolsSound /\ Elf!StrongestWins

(* Values of the compiler: each is where the stack says, whatever was moved or*)
(* jumped over, code runs and stores as C says, and a switch goes to the case *)
(* that has the value.                                                        *)
CodeSound ==
    /\ part = "expr" => Expr!CodeSound
    /\ part = "cases" => Cases!CaseFound
=============================================================================
