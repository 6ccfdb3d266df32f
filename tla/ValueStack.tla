---------------------------- MODULE ValueStack ------------------------------
(* The value stack of the compiler and the x86-64 code it stands for          *)
(* (tccgen.c, x86_64-gen.c), for values of type int.  A value is not computed *)
(* when it is parsed: the stack says where it is (a constant, a place in      *)
(* memory, a register, the flags of the processor, jumps already taken), and  *)
(* code that would destroy it must move it first.                             *)
(*                                                                            *)
(* The state of the code generator is a record g, and each function of the    *)
(* source is an operator from g to g.  Instead of writing instructions down,  *)
(* g runs them as they are generated, on one machine for each of Memories:    *)
(* g.here are the machines that have come to the end of the code, the others  *)
(* wait at a jump that is still to be patched, or have stopped.               *)
EXTENDS Integers, Sequences, SequencesExt, FiniteSets

CONSTANTS
    Memories,   \* the variables of each machine at the start
    MaxTemps    \* MAX_TEMP_LOCAL_VARIABLE_NUMBER, 8

Envs == DOMAIN Memories

Word == 0 .. 2          \* an int, also the address of one of three variables
Junk == 3               \* a word that nobody has put there

Regs == <<"rax", "rcx", "rdx">>
Class(rank, regs) == [rank |-> rank, regs |-> regs]
RC_INT == Class(1, {"rax", "rcx", "rdx"})
RC_RAX == Class(4, {"rax"})
RC_RCX == Class(16, {"rcx"})
IsReg(r) == r \in RC_INT.regs

(* A list of jumps to be patched: none, or some, with the machines that wait. *)
NoJumps == [used |-> FALSE, envs |-> {}]

(* An SValue: r and VT_LVAL, the constant, offset or temporary in c, the      *)
(* number of a temporary in temp (r2), the test of cmp and its jumps.         *)
Value(r, lval, c) ==
    [r |-> r, lval |-> lval, c |-> c, temp |-> 0, test |-> "0",
     jtrue |-> NoJumps, jfalse |-> NoJumps]
Const(c) == Value("const", FALSE, c)
Variable(a) == Value("local", TRUE, a)

(* Offsets of temporaries are below zero; the slots of a machine hold them.   *)
MaxLoc == 10
Machine(e) ==
    [mem |-> Memories[e], slot |-> [l \in 1 .. MaxLoc |-> Junk],
     reg |-> [r \in RC_INT.regs |-> Junk], flags |-> <<>>]

Start ==
    [vs |-> <<>>, mc |-> [e \in Envs |-> Machine(e)], here |-> Envs,
     off |-> FALSE, nest |-> 0, temps |-> <<>>, loc |-> 0]

-----------------------------------------------------------------------------
(* Generating code.                                                           *)
NoCode(g) == g.off \/ g.nest > 0
CodeOff(g) == IF NoCode(g) THEN g ELSE [g EXCEPT !.off = TRUE]
CodeOn(g) == [g EXCEPT !.off = FALSE]

(* Code that leaves machine e, if it gets here, as after[e] says.             *)
Emit(g, after) ==
    IF NoCode(g) THEN g
    ELSE [g EXCEPT !.mc = [e \in Envs |-> IF e \in g.here THEN after[e] ELSE @[e]]]

At(m, a) == IF a \in Word THEN m.mem[a] ELSE IF -a \in 1 .. MaxLoc THEN m.slot[-a] ELSE Junk

Arith(op, a, b) ==
    IF Junk \in {a, b} THEN Junk
    ELSE CASE op = "+" -> (a + b) % 3
           [] op = "-" -> (a - b) % 3
           [] op = "<<" -> (IF b = 0 THEN a ELSE IF b = 1 THEN 2 * a ELSE 4 * a) % 3
           [] op = "/" -> a \div b

Tests == {"==", "!=", "<", ">="}
Inverse1(test) ==
    CASE test = "==" -> "!=" [] test = "!=" -> "==" [] test = "<" -> ">="
      [] test = ">=" -> "<" [] test = "0" -> "1" [] test = "1" -> "0"
True(test, a, b) ==
    CASE test = "==" -> a = b [] test = "!=" -> a # b [] test = "<" -> a < b
      [] test = ">=" -> a >= b
Bit(b) == IF b THEN 1 ELSE 0

(* What the place or the value of sv is, on machine m.                        *)
PlaceOn(sv, m) ==
    CASE sv.r = "local" -> sv.c
      [] sv.r = "llocal" -> At(m, sv.c)
      [] OTHER -> m.reg[sv.r]
ValueOn(sv, m) ==
    IF sv.lval THEN At(m, PlaceOn(sv, m))
    ELSE CASE sv.r \in {"const", "local"} -> sv.c
           [] sv.r = "cmp" ->
                IF sv.test \in {"0", "1"} THEN Bit(sv.test = "1")
                ELSE IF m.flags = <<>> \/ Junk \in {m.flags[1], m.flags[2]} THEN Junk
                ELSE Bit(True(sv.test, m.flags[1], m.flags[2]))
           [] OTHER -> m.reg[sv.r]

SetReg(m, r, v) == [m EXCEPT !.reg[r] = v]
SetAt(m, a, v) ==
    IF a \in Word THEN [m EXCEPT !.mem[a] = v]
    ELSE IF -a \in 1 .. MaxLoc THEN [m EXCEPT !.slot[-a] = v] ELSE m

-----------------------------------------------------------------------------
(* Jumps: gjmp, gjmp_cond and gjmp_append give a longer list, gsym patches it.*)
Joined(n, t) == [used |-> n.used \/ t.used, envs |-> n.envs \cup t.envs]

AfterGjmp(g) == IF NoCode(g) THEN g ELSE CodeOff([g EXCEPT !.here = {}])
Gjmp(g, t) == IF NoCode(g) THEN t ELSE [used |-> TRUE, envs |-> t.envs \cup g.here]

Going(g, sv, b) == {e \in g.here : ValueOn(sv, g.mc[e]) = b}
AfterGjmpCond(g, sv) == IF NoCode(g) THEN g ELSE [g EXCEPT !.here = Going(g, sv, 0)]
GjmpCond(g, sv, t) ==
    IF NoCode(g) THEN t ELSE [used |-> TRUE, envs |-> t.envs \cup Going(g, sv, 1)]

Gsym(g, t) == IF t.used THEN CodeOn([g EXCEPT !.here = @ \cup t.envs]) ELSE g

-----------------------------------------------------------------------------
(* Registers and temporaries.                                                 *)
Top(g) == Last(g.vs)
Under(g) == g.vs[Len(g.vs) - 1]
SetTop(g, sv) == [g EXCEPT !.vs = Append(Front(@), sv)]
SetUnder(g, sv) == [g EXCEPT !.vs = Front(Front(@)) \o <<sv, Top(g)>>]
Drop(g) == [g EXCEPT !.vs = Front(@)]
PushValue(g, sv) == [g EXCEPT !.vs = Append(@, sv)]              \* vpushv

(* load: sv into r; of a jump, what comes here first and then, apart from it, *)
(* what jumped.                                                               *)
Load(g, r, sv) ==
    LET Put(h, v) == Emit(h, [e \in Envs |-> SetReg(h.mc[e], r, ValueOn(v, h.mc[e]))])
        first == IF NoCode(g) THEN {} ELSE g.here
        Without(h) == [h EXCEPT !.here = @ \ first]
        With(h) == [h EXCEPT !.here = @ \cup first]
        t == Bit(sv.r = "jmpi") IN
    IF sv.r \in {"jmp", "jmpi"}
    THEN With(Put(Gsym(Without(Put(g, Const(t))), sv.jtrue), Const(1 - t)))
    ELSE Put(g, sv)
Store(g, r, sv) ==
    Emit(g, [e \in Envs |-> LET m == g.mc[e] IN SetAt(m, PlaceOn(sv, m), m.reg[r])])

(* Mutant: any temporary that is large enough.                                *)
FreeTempsAll(g, size) == {i \in 1 .. Len(g.temps) : g.temps[i].size >= size}

(* get_temp_local_var: a numbered temporary that no value on the stack is in, *)
(* or a new one, numbered while there are numbers.                            *)
FreeTemps(g, size) ==
    {i \in 1 .. Len(g.temps) :
        /\ g.temps[i].size >= size
        /\ \A k \in 1 .. Len(g.vs) : g.vs[k].r \in {"local", "llocal"} => g.vs[k].temp # i}
GetTemp(g, size) ==
    IF FreeTemps(g, size) # {}
    THEN LET i == CHOOSE i \in FreeTemps(g, size) : \A k \in FreeTemps(g, size) : i <= k IN
         [g |-> g, loc |-> g.temps[i].loc, temp |-> i]
    ELSE LET l == g.loc - 1
             room == Len(g.temps) < MaxTemps IN
         [g |-> [g EXCEPT !.loc = l,
                          !.temps = IF room THEN Append(@, [loc |-> l, size |-> size]) ELSE @],
          loc |-> l, temp |-> IF room THEN Len(g.temps) + 1 ELSE 0]

(* save_reg_upstack: every value in r, or with its address there, but for the *)
(* n newest, goes to one temporary.                                           *)
SavedTo(tmp, r, users) ==
    LET Saved(sv) == [Value(IF sv.lval THEN "llocal" ELSE "local", TRUE, tmp.loc)
                         EXCEPT !.temp = tmp.temp] IN
    [Store(tmp.g, r, Variable(tmp.loc)) EXCEPT
        !.vs = [i \in DOMAIN @ |-> IF i \in users THEN Saved(@[i]) ELSE @[i]]]
SaveRegUpstack(g, r, n) ==
    LET users == {i \in 1 .. Len(g.vs) - n : g.vs[i].r = r}
        lowest == CHOOSE i \in users : \A k \in users : i <= k IN
    IF ~IsReg(r) \/ NoCode(g) \/ users = {} THEN g
    ELSE SavedTo(GetTemp(g, IF g.vs[lowest].lval THEN 2 ELSE 1), r, users)
SaveReg(g, r) == SaveRegUpstack(g, r, 0)
SaveRegs(g, n) == FoldLeft(LAMBDA h, i : SaveReg(h, h.vs[i].r), g, [i \in 1 .. Len(g.vs) - n |-> i])

(* get_reg: the first register of the class that no value uses; if there is   *)
(* none, the one of the lowest value on the stack, once saved.                *)
GetReg(g, class) ==
    LET busy == IF NoCode(g) THEN {} ELSE {g.vs[i].r : i \in 1 .. Len(g.vs)}
        free == SelectSeq(Regs, LAMBDA r : r \in class.regs \ busy)
        owner == SelectSeq(g.vs, LAMBDA sv : sv.r \in class.regs) IN
    IF free # <<>> THEN [g |-> g, r |-> Head(free)]
    ELSE [g |-> SaveReg(g, Head(owner).r), r |-> Head(owner).r]

-----------------------------------------------------------------------------
(* Tests.  gjmp_append of t to the jumps of vtop, which is a cmp.             *)
AppendJumps(g, inv, t) ==
    IF inv THEN SetTop(g, [Top(g) EXCEPT !.jfalse = Joined(@, t)])
    ELSE SetTop(g, [Top(g) EXCEPT !.jtrue = Joined(@, t)])

(* The rest of gvtst: jump where the value of vtop is not inv, and patch the  *)
(* opposite jumps to here.                                                    *)
Wanted(sv, inv) == IF inv THEN [sv EXCEPT !.test = Inverse1(@)] ELSE sv
Jumps(sv, inv) == IF inv THEN sv.jfalse ELSE sv.jtrue
TestJumps(g, inv) ==
    LET sv == Wanted(Top(g), inv) IN
    IF sv.test \in Tests THEN GjmpCond(g, sv, Jumps(Top(g), inv))
    ELSE IF sv.test = "1" THEN Gjmp(g, Jumps(Top(g), inv)) ELSE Jumps(Top(g), inv)
AfterTest(g, inv) ==
    LET sv == Wanted(Top(g), inv)
        jumped == IF sv.test \in Tests THEN AfterGjmpCond(g, sv)
                  ELSE IF sv.test = "1" THEN AfterGjmp(g) ELSE g IN
    Drop(Gsym(jumped, Jumps(Top(g), ~inv)))

(* vset_VT_JMP                                                                *)
VsetJmp(g) ==
    LET sv == Top(g)
        inv == sv.test = "1" IN
    IF sv.jtrue.used \/ sv.jfalse.used
    THEN PushValue(AfterTest(g, inv),
                   [Value(IF inv THEN "jmpi" ELSE "jmp", FALSE, 0)
                       EXCEPT !.jtrue = TestJumps(g, inv)])
    ELSE IF sv.test \in Tests THEN g ELSE SetTop(g, Const(Bit(sv.test = "1")))

(* vtop into the register that is got for it.                                 *)
LoadTop(got) ==
    LET Into(g) == SetTop(Load(g, got.r, Top(g)), Value(got.r, FALSE, 0)) IN
    Into(IF Top(got.g).r = "cmp" THEN VsetJmp(got.g) ELSE got.g)

(* Mutant: the pointer that other values share is not saved.                  *)
GvShared(g, class) ==
    IF Top(g).r \in class.regs /\ ~Top(g).lval THEN g
    ELSE LoadTop(IF Top(g).r \in class.regs THEN [g |-> g, r |-> Top(g).r]
                 ELSE GetReg(g, class))

(* gv: vtop in a register of the class; a pointer in one may be read into it. *)
Gv(g, class) ==
    IF Top(g).r \in class.regs /\ ~Top(g).lval THEN g
    ELSE LoadTop(IF Top(g).r \in class.regs
                 THEN [g |-> SaveRegUpstack(g, Top(g).r, 1), r |-> Top(g).r]
                 ELSE GetReg(g, class))

(* Mutant: the flags stay where they are.                                     *)
VcheckCmpNot(g) == g

(* vcheck_cmp: before the top of the stack is covered or code is generated.   *)
VcheckCmp(g) ==
    IF g.vs # <<>> /\ Top(g).r = "cmp" /\ g.nest = 0 THEN Gv(g, RC_INT) ELSE g

Vset(g, sv) == PushValue(VcheckCmp(g), sv)                            \* vsetc
Vdup(g) == PushValue(g, Top(g))
Vpop(g) ==
    IF Top(g).r = "cmp"
    THEN Drop(Gsym(Gsym(g, Top(g).jtrue), Top(g).jfalse))
    ELSE Drop(g)
Swapped(g) == SetUnder(SetTop(g, Under(g)), Top(g))
Vswap(g) == Swapped(VcheckCmp(g))
Vrotb3(g) ==
    LET n == Len(g.vs) IN
    [VcheckCmp(g) EXCEPT !.vs = SubSeq(@, 1, n - 3) \o <<@[n - 1], @[n], @[n - 2]>>]

(* Mutant: the first to be loaded is not looked at again.                     *)
Gv2Once(g, c1, c2) ==
    LET First(h) == Swapped(Gv(Swapped(h), c1)) IN
    IF Top(g).r # "cmp" /\ c1.rank <= c2.rank THEN Gv(First(g), c2) ELSE First(Gv(g, c2))

(* gv2: vtop[-1] and vtop in their classes; the first to be loaded may have   *)
(* been saved to make room for the second.  A test is loaded before a swap.   *)
Gv2(g, c1, c2) ==
    LET First(h) == Swapped(Gv(Swapped(h), c1))
        FirstAgain(h) == IF IsReg(Under(h).r) THEN h ELSE First(h)
        SecondAgain(h) == IF IsReg(Top(h).r) THEN h ELSE Gv(h, c2) IN
    IF Top(g).r # "cmp" /\ c1.rank <= c2.rank
    THEN FirstAgain(Gv(First(g), c2)) ELSE SecondAgain(First(Gv(g, c2)))

GvDup(g) ==
    LET Copied(got) == LoadTop([g |-> Vdup(got.g), r |-> got.r]) IN
    Copied(GetReg(Gv(g, RC_INT), RC_INT))

MoveReg(g, r, s) ==
    IF r = s THEN g ELSE Load(SaveReg(g, r), r, Value(s, FALSE, 0))

-----------------------------------------------------------------------------
(* Operations: gen_opi.                                                       *)
IsConst(sv) == sv.r = "const" /\ ~sv.lval

Alu(g, op, r, sv) ==
    Emit(g, [e \in Envs |->
        LET m == g.mc[e]
            v == ValueOn(sv, m) IN
        IF op \in Tests THEN [m EXCEPT !.flags = <<m.reg[r], v>>]
        ELSE [m EXCEPT !.reg[r] = Arith(op, @, v), !.flags = <<>>]])

Result(g, op) ==
    LET Done(h) == IF op \in Tests THEN SetTop(h, [Value("cmp", FALSE, 0) EXCEPT !.test = op])
                   ELSE h IN
    Done(Drop(Alu(g, op, Under(g).r, Top(g))))

(* A division by zero ends the program.                                       *)
Divided(g, fr) ==
    LET After(m) ==
            IF m.reg[fr] = 0 THEN m
            ELSE [m EXCEPT !.reg["rax"] = Arith("/", @, m.reg[fr]),
                           !.reg["rdx"] = IF Junk \in {m.reg["rax"], m.reg[fr]} THEN Junk
                                          ELSE m.reg["rax"] % m.reg[fr],
                           !.flags = <<>>]
        h == Emit(g, [e \in Envs |-> After(g.mc[e])]) IN
    IF NoCode(g) THEN h ELSE [h EXCEPT !.here = {e \in @ : g.mc[e].reg[fr] # 0}]

(* Mutant: rdx is overwritten, whoever uses it.                               *)
DivKeepsRdx(g) == SetTop(Divided(Drop(g), Top(g).r), Value("rax", FALSE, 0))

Quotient(g) == SetTop(Divided(SaveReg(Drop(g), "rdx"), Top(g).r), Value("rax", FALSE, 0))

GenOpi(g, op) ==
    LET Class1 == IF op = "/" THEN RC_RAX ELSE RC_INT
        Class2 == IF op \in {"/", "<<"} THEN RC_RCX ELSE RC_INT
        Done(h) == IF op = "/" THEN Quotient(h) ELSE Result(h, op) IN
    Done(IF op # "/" /\ IsConst(Top(g)) THEN Swapped(Gv(Swapped(g), RC_INT))
         ELSE Gv2(g, Class1, Class2))

(* gen_opic: constants are folded, and what does nothing is left out.         *)
Folded(op, a, b) == IF op \in Tests THEN Bit(True(op, a, b)) ELSE Arith(op, a, b)
Reduced(g, op, known) ==
    LET a == Under(g)
        b == Top(g) IN
    IF known /\ ((op = "/" /\ b.c = 1) \/ (op \in {"+", "-", "<<"} /\ b.c = 0)) THEN Drop(g)
    ELSE IF known /\ op \in {"+", "-"} /\ a.r = "local" /\ ~a.lval
    THEN SetTop(Drop(g), [a EXCEPT !.c = Arith(op, @, b.c)])
    ELSE GenOpi(g, op)
GenOpic(g, op) ==
    LET c1 == IsConst(Under(g))
        c2 == IsConst(Top(g))
        commute == c1 /\ op \in {"+", "==", "!="} IN
    IF c1 /\ c2 /\ ~(op = "/" /\ Top(g).c = 0)
    THEN SetTop(Drop(g), Const(Folded(op, Under(g).c, Top(g).c)))
    ELSE IF c1 /\ op = "<<" /\ Under(g).c = 0 THEN Vpop(g)
    ELSE Reduced(IF commute THEN Swapped(g) ELSE g, op, c2 \/ commute)

(* gen_op: two swaps, and casts to int between them that change nothing.      *)
GenOp(g, op) ==
    LET Loaded(h) == IF Top(h).lval THEN Gv(h, RC_INT) ELSE h IN
    Loaded(GenOpic(Swapped(Vswap(g)), op))

(* gen_test_zero(TOK_EQ)                                                      *)
TestZero(g) ==
    IF Top(g).r = "cmp"
    THEN SetTop(g, [Top(g) EXCEPT !.test = Inverse1(@), !.jtrue = Top(g).jfalse,
                                  !.jfalse = Top(g).jtrue])
    ELSE GenOp(Vset(g, Const(0)), "==")

(* gvtst_set, and gvtst: the jumps, and what follows them.                    *)
GvtstSet(g, inv, t) ==
    LET AsTest(h) ==
            IF Top(h).r = "cmp" THEN h
            ELSE SetTop(h, [Value("cmp", FALSE, 0) EXCEPT
                               !.test = IF Top(h).c # 0 THEN "1" ELSE "0"]) IN
    AppendJumps(AsTest(IF Top(g).r = "cmp" THEN g ELSE GenOp(Vset(g, Const(0)), "!=")), inv, t)
Gvtst(g, inv, t) ==
    LET Tested(h) == [g |-> AfterTest(h, inv), t |-> TestJumps(h, inv)] IN
    Tested(GvtstSet(g, inv, t))

(* vstore: vtop into the place under it; the value stays.                     *)
Vstore(g) ==
    LET Pointer(sv) == [Value("local", TRUE, sv.c) EXCEPT !.temp = sv.temp]
        Read(got) == SetUnder(Load(got.g, got.r, Pointer(Under(got.g))), Value(got.r, TRUE, 0))
        Ready(h) == IF Under(h).r = "llocal" THEN Read(GetReg(h, RC_INT)) ELSE h
        Stored(h) == Store(h, Top(h).r, Under(h)) IN
    Drop(Swapped(Stored(Ready(Gv(g, RC_INT)))))

(* inc: x++                                                                   *)
PostInc(g) ==
    LET copied == Vrotb3(Vrotb3(GvDup(Vdup(g)))) IN
    Vpop(Vstore(GenOp(Vset(copied, Const(1)), "+")))

(* indir, of a pointer that is not a constant, and gaddrof.                   *)
Indir(g) ==
    LET Place(h) == SetTop(h, [Top(h) EXCEPT !.lval = TRUE]) IN
    Place(IF Top(g).lval THEN Gv(g, RC_INT) ELSE g)
Gaddrof(g) ==
    SetTop(g, IF Top(g).r = "llocal" THEN [Top(g) EXCEPT !.r = "local"]
              ELSE [Top(g) EXCEPT !.lval = FALSE])

(* A call of a function without arguments: gfunc_call(0).  It may use every   *)
(* register; it gives what is in the first variable, or never returns.        *)
Call(g, returns) ==
    LET AfterCall(m) ==
            [m EXCEPT !.reg = [r \in RC_INT.regs |-> IF r = "rax" THEN m.mem[0] ELSE Junk],
                      !.flags = <<>>]
        Called(h) == Emit(h, [e \in Envs |-> AfterCall(h.mc[e])])
        Stopped(h) == CodeOff(IF NoCode(g) THEN h ELSE [h EXCEPT !.here = {}])
        Back(h) == IF returns THEN h ELSE Stopped(h) IN
    Back(Vset(Called(SaveRegs(Drop(VcheckCmp(Vset(g, Const(0)))), 0)), Value("rax", FALSE, 0)))
=============================================================================
