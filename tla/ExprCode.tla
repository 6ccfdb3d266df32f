----------------------------- MODULE ExprCode -------------------------------
(* The expressions of the compiler (tccgen.c): the parser calls the code      *)
(* generator of ValueStack after each token, and what it has not finished is  *)
(* on a stack of frames, one for each of its functions that is under way.     *)
(* sem is what C says of the same tokens: the value or the place each         *)
(* operand stands for, the variables, and the machines that evaluate the      *)
(* operand at hand.  Parentheses are not written down: a frame that is closed *)
(* at any time stands for them.                                               *)
EXTENDS ValueStack

(* A vocabulary is what an expression may be made of:                         *)
(*   variables (a subset of Word), constants,                                 *)
(*   leaves: "call" of a function, "stop" of one that never returns,          *)
(*   binary, unary ("!", "*", "&", "++"), stores ("=", "-=") and flow ("&&",  *)
(*   "||", "?", "?:", ","), and                                               *)
(*   size, a bound of its operands and unary operators.                       *)
CONSTANT Vocabularies

VARIABLES
    words,      \* the vocabulary of this expression
    gen,        \* the code generator
    frames,     \* what the parser has not finished
    mode,       \* what comes next: "operand", "operator", or "end"
    size,       \* operands and unary operators so far
    sem         \* [stack, mem, active, gone]: the meaning

vars == <<words, gen, frames, mode, size, sem>>

Init ==
    /\ words \in Vocabularies
    /\ gen = Start /\ frames = <<>> /\ mode = "operand" /\ size = 0
    /\ sem = [stack |-> <<>>, mem |-> Memories, active |-> Envs, gone |-> {}]

-----------------------------------------------------------------------------
(* The meaning.  An operand is a value, or a place whose value may be read;   *)
(* read is the variable it may still have to be read from.                    *)
All(c) == [e \in Envs |-> c]
Rvalue(v) == [place |-> FALSE, val |-> v, read |-> All(Junk)]
Place(v) == [place |-> TRUE, val |-> v, read |-> v]

STop(s) == Last(s.stack)
SUnder(s) == s.stack[Len(s.stack) - 1]
Val(s, x) == [e \in Envs |-> IF x.place THEN s.mem[e][x.val[e]] ELSE x.val[e]]
Truth(s) == {e \in Envs : Val(s, STop(s))[e] # 0}

Kept(s, x) == [place |-> FALSE, val |-> Val(s, x), read |-> x.read]

SPush(s, x) == [s EXCEPT !.stack = Append(@, x)]
SDrop(s) == [s EXCEPT !.stack = Front(@)]
SSetTop(s, x) == [s EXCEPT !.stack[Len(s.stack)] = x]
Stops(s, es) == [s EXCEPT !.gone = @ \cup es, !.active = @ \ es]

MeaningOfOp(s, op) ==
    LET a == Val(s, SUnder(s))
        b == Val(s, STop(s))
        dies == {e \in s.active : op = "/" /\ b[e] = 0}
        r == [e \in Envs |-> IF op = "/" /\ b[e] = 0 THEN 0 ELSE Folded(op, a[e], b[e])] IN
    SSetTop(Stops(SDrop(s), dies), Rvalue(r))

(* An assignment; C says nothing of a program that names the variable in an   *)
(* operand that is still to be read.                                          *)
MeaningOfStore(s) ==
    LET v == Val(s, STop(s))
        at == SUnder(s).val
        n == Len(s.stack) - 2
        undefined == {e \in s.active :
                        \E i \in 1 .. n : s.stack[i].read[e] = at[e]} IN
    [Stops(SSetTop(SDrop(s), Rvalue(v)), undefined) EXCEPT
        !.mem = [e \in Envs |-> IF e \in s.active THEN [@[e] EXCEPT ![at[e]] = v[e]] ELSE @[e]]]

MeaningOfLeaf(s, l) ==
    CASE l.k = "var" -> SPush(s, Place(All(l.c)))
      [] l.k = "const" -> SPush(s, Rvalue(All(l.c)))
      [] l.k = "call" -> SPush(s, Rvalue([e \in Envs |-> s.mem[e][0]]))
      [] l.k = "stop" -> Stops(SPush(s, Rvalue(All(0))), s.active)

(* x++ is x = x + 1 whose value is that of x before.                          *)
MeaningOfUnary(s, op) ==
    LET x == STop(s)
        old == Val(s, x) IN
    CASE op = "!" -> SSetTop(s, Rvalue([e \in Envs |-> Bit(old[e] = 0)]))
      [] op = "*" -> SSetTop(s, Place(old))
      [] op = "&" -> SSetTop(s, Rvalue(x.val))
      [] op = "++" ->
           SSetTop(MeaningOfStore(SPush(s, Rvalue([e \in Envs |-> (old[e] + 1) % 3]))), Rvalue(old))

-----------------------------------------------------------------------------
(* Operands and operators whose operands are always evaluated.                *)
Frame == Last(frames)
Within(k) == frames # <<>> /\ Frame.k = k
Open(f) == frames' = Append(frames, f)
Close == frames' = Front(frames)
Larger == size < words.size /\ size' = size + 1
Expects(m) == mode = m
Then(m) == mode' = m
MayGoOn == mode = "operator" /\ size < words.size

Operands ==
    [k : {"var"}, c : words.variables] \cup [k : {"const"}, c : words.constants]
        \cup [k : words.leaves, c : {0}]

Leaf(l) ==
    /\ Expects("operand") /\ Larger /\ Then("operator")
    /\ gen' = CASE l.k = "var" -> Vset(gen, Variable(l.c))
                [] l.k = "const" -> Vset(gen, Const(l.c))
                [] OTHER -> Call(gen, l.k = "call")
    /\ sem' = MeaningOfLeaf(sem, l)
    /\ UNCHANGED frames

(* A place for & and ++; what is dereferenced is no constant and no truth     *)
(* value.                                                                     *)
Applies(op) ==
    /\ op \in {"&", "++"} => STop(sem).place
    /\ op = "*" => Top(gen).r \notin {"const", "cmp"}

UnaryOp(op) ==
    /\ Expects("operator") /\ Larger /\ Applies(op)
    /\ gen' = CASE op = "!" -> TestZero(gen)
                [] op = "*" -> Indir(gen)
                [] op = "&" -> Gaddrof(gen)
                [] op = "++" -> PostInc(gen)
    /\ sem' = MeaningOfUnary(sem, op)
    /\ UNCHANGED <<frames, mode>>

BinaryOp(op) ==
    /\ MayGoOn /\ Then("operand") /\ Open([k |-> "op", op |-> op])
    /\ UNCHANGED <<gen, sem, size>>

BinaryEnd ==
    /\ Expects("operator") /\ Within("op") /\ Close
    /\ gen' = GenOp(gen, Frame.op)
    /\ sem' = MeaningOfOp(sem, Frame.op)
    /\ UNCHANGED <<mode, size>>

(* expr_eq                                                                    *)
Assign(op) ==
    /\ MayGoOn /\ STop(sem).place /\ Then("operand") /\ Open([k |-> "store", op |-> op])
    /\ gen' = IF op = "=" THEN gen ELSE Vdup(gen)
    /\ sem' = IF op = "=" THEN sem ELSE SPush(sem, STop(sem))
    /\ UNCHANGED size

AssignEnd ==
    /\ Expects("operator") /\ Within("store") /\ Close
    /\ gen' = Vstore(IF Frame.op = "=" THEN gen ELSE GenOp(gen, "-"))
    /\ sem' = MeaningOfStore(IF Frame.op = "=" THEN sem ELSE MeaningOfOp(sem, "-"))
    /\ UNCHANGED <<mode, size>>

(* gexpr                                                                      *)
Comma ==
    /\ MayGoOn /\ Then("operand")
    /\ IF Within("comma") THEN UNCHANGED frames ELSE Open([k |-> "comma"])
    /\ gen' = Vpop(gen) /\ sem' = SDrop(sem)
    /\ UNCHANGED size

CommaEnd ==
    /\ Expects("operator") /\ Within("comma") /\ Close
    /\ gen' = IF Top(gen).r = "const" /\ NoCode(gen) THEN Gv(gen, RC_INT) ELSE gen
    /\ sem' = SSetTop(sem, Kept(sem, STop(sem)))
    /\ UNCHANGED <<mode, size>>

-----------------------------------------------------------------------------
(* && and ||: expr_landor.                                                    *)
Unknown == 2
Condition3way(sv) == IF IsConst(sv) THEN Bit(sv.c # 0) ELSE Unknown
Nested(g, n) == [g EXCEPT !.nest = @ + n]

(* Mutant: values stay in registers across the jumps.                         *)
LandorSeenUnsaved(g, f, i) ==
    LET c == IF f.f THEN i ELSE Condition3way(Top(g)) IN
    IF c = Unknown THEN [g |-> g, f |-> [f EXCEPT !.cc = FALSE], c |-> c]
    ELSE IF c # i THEN [g |-> Nested(g, 1), f |-> [f EXCEPT !.f = TRUE], c |-> c]
    ELSE [g |-> g, f |-> f, c |-> c]

(* An operand has been parsed; i is the value that does not decide.           *)
LandorSeen(g, f, i) ==
    LET c == IF f.f THEN i ELSE Condition3way(Top(g)) IN
    IF c = Unknown THEN [g |-> SaveRegs(g, 1), f |-> [f EXCEPT !.cc = FALSE], c |-> c]
    ELSE IF c # i THEN [g |-> Nested(g, 1), f |-> [f EXCEPT !.f = TRUE], c |-> c]
    ELSE [g |-> g, f |-> f, c |-> c]

Landor(op) ==
    /\ MayGoOn /\ Then("operand") /\ UNCHANGED size
    /\ \E more \in BOOLEAN :
        /\ more => Within(op)
        /\ LET f == IF more THEN Frame
                    ELSE [k |-> op, t |-> NoJumps, cc |-> TRUE, f |-> FALSE, base |-> sem.active]
               Keep(f1) == frames' = Append(IF more THEN Front(frames) ELSE frames, f1) IN
           \E seen \in {LandorSeen(gen, f, Bit(op = "&&"))} :
              \/ /\ seen.c = Unknown
                 /\ \E test \in {Gvtst(seen.g, op = "&&", seen.f.t)} :
                       gen' = test.g /\ Keep([seen.f EXCEPT !.t = test.t])
              \/ seen.c # Unknown /\ gen' = Vpop(seen.g) /\ Keep(seen.f)
    /\ sem' = [SDrop(sem) EXCEPT
                 !.active = IF op = "&&" THEN @ \cap Truth(sem) ELSE @ \ Truth(sem)]

LandorEnd(op) ==
    /\ Expects("operator") /\ Within(op) /\ Close /\ UNCHANGED <<mode, size>>
    /\ LET i == Bit(op = "&&")
           Known(g, f) == Vset(Vpop(g), Const(IF f.f THEN 1 - i ELSE i)) IN
       \E seen \in {LandorSeen(gen, Frame, i)} :
          gen' = IF seen.f.cc \/ seen.f.f
                 THEN Nested(Gsym(Known(seen.g, seen.f), seen.f.t), IF seen.f.f THEN -1 ELSE 0)
                 ELSE GvtstSet(seen.g, i = 1, seen.f.t)
    /\ LET result == [e \in Envs |->
                        IF e \in sem.active THEN Bit(e \in Truth(sem)) ELSE Bit(op # "&&")] IN
       sem' = [SSetTop(sem, Rvalue(result)) EXCEPT !.active = Frame.base \ sem.gone]

-----------------------------------------------------------------------------
(* expr_cond: c ? a : b, and c ?: b whose first operand is its second as well.*)
Question ==
    /\ MayGoOn /\ Then("operand") /\ UNCHANGED size
    /\ LET c == Condition3way(Top(gen)) IN
       \E test \in {IF c = Unknown THEN Gvtst(SaveRegs(gen, 1), TRUE, NoJumps)
                    ELSE [g |-> Vpop(gen), t |-> NoJumps]} :
          /\ gen' = Nested(test.g, IF c = 0 THEN 1 ELSE 0)
          /\ Open([k |-> "?", c |-> c, tt |-> test.t, base |-> sem.active, yes |-> Truth(sem)])
    /\ sem' = [SDrop(sem) EXCEPT !.active = @ \cap Truth(sem)]

(* The second operand is kept in sv, not on the stack, while the third is     *)
(* parsed.                                                                    *)
Else(f, u) ==
    [k |-> ":", c |-> f.c, u |-> u, sv |-> Top(gen), base |-> f.base, yes |-> f.yes,
     second |-> Kept(sem, STop(sem))]
Third(f) == [SDrop(sem) EXCEPT !.active = (f.base \ f.yes) \ sem.gone]
NestThird(g, c) == Nested(g, CASE c = 0 -> -1 [] c = 1 -> 1 [] OTHER -> 0)

Colon ==
    /\ MayGoOn /\ Within("?") /\ Then("operand") /\ UNCHANGED size
    /\ LET f == Frame
           g == Drop(gen)
           jumped == Gsym(AfterGjmp(g), f.tt) IN
       /\ gen' = NestThird(IF f.c = Unknown THEN jumped ELSE g, f.c)
       /\ frames' = Append(Front(frames), Else(f, IF f.c = Unknown THEN Gjmp(g, NoJumps) ELSE NoJumps))
       /\ sem' = Third(f)

QuestionColon ==
    /\ MayGoOn /\ Then("operand") /\ UNCHANGED size
    /\ LET c == Condition3way(Top(gen))
           f == [c |-> c, base |-> sem.active, yes |-> Truth(sem)] IN
       /\ \E test \in {IF c = Unknown THEN Gvtst(GvDup(SaveRegs(gen, 1)), FALSE, NoJumps)
                       ELSE [g |-> gen, t |-> NoJumps]} :
             /\ gen' = Nested(Drop(test.g), IF c = 1 THEN 1 ELSE 0)
             /\ Open([Else(f, test.t) EXCEPT !.sv = Top(test.g)])
       /\ sem' = Third(f)

IsCondBool(sv) == sv.r = "cmp" \/ (IsConst(sv) /\ sv.c < 2)

(* Both are truth values: jumps go on from either to where the value is used. *)
BothBool(g, f) ==
    LET First(t1) == PushValue(Gsym(AfterGjmp(t1.g), f.u), f.sv)
        Both(t1) == GvtstSet(GvtstSet(First(t1), FALSE, t1.t), TRUE, Gjmp(t1.g, NoJumps)) IN
    Both(Gvtst(g, FALSE, NoJumps))

(* Mutant: the second operand stays in the register it happens to be in.      *)
OneRegisterEach(g, f) ==
    LET Second(third) == Gv(SetTop(Gsym(AfterGjmp(third), f.u), f.sv), RC_INT)
        Both(third) == Gsym(Second(third), Gjmp(third, NoJumps)) IN
    Both(Gv(g, RC_INT))

(* Otherwise both go to the register of the third.                            *)
OneRegister(g, f) ==
    LET Second(third) == Gv(SetTop(Gsym(AfterGjmp(third), f.u), f.sv), RC_INT)
        Moved(second, r) ==
            SetTop(MoveReg(second, r, Top(second).r), Value(r, FALSE, 0))
        Both(third) == Gsym(Moved(Second(third), Top(third).r), Gjmp(third, NoJumps)) IN
    Both(Gv(g, RC_INT))

CondEnd ==
    /\ Expects("operator") /\ Within(":") /\ Close /\ UNCHANGED <<mode, size>>
    /\ LET f == Frame
           both == IsCondBool(Top(gen)) /\ IsCondBool(f.sv) IN
       gen' = CASE f.c = Unknown /\ both -> BothBool(gen, f)
                [] f.c = Unknown /\ ~both -> OneRegister(gen, f)
                [] f.c = 0 -> Gsym(gen, f.u)
                [] f.c = 1 -> SetTop(Nested(Gsym(gen, f.u), -1), f.sv)
    /\ LET x == Frame.second
           y == Kept(sem, STop(sem)) IN
       sem' = [SSetTop(sem, [y EXCEPT
                        !.val = [e \in Envs |-> IF e \in Frame.yes THEN x.val[e] ELSE @[e]],
                        !.read = [e \in Envs |-> IF e \in Frame.yes THEN x.read[e] ELSE @[e]]])
               EXCEPT !.active = Frame.base \ sem.gone]

-----------------------------------------------------------------------------
(* The expression is a statement, or the condition of an if.                  *)
Statement ==
    /\ Expects("operator") /\ frames = <<>> /\ Then("end")
    /\ gen' = Vpop(gen) /\ sem' = SDrop(sem)
    /\ UNCHANGED <<frames, size>>

If ==
    /\ Expects("operator") /\ frames = <<>> /\ Then("end")
    /\ \E test \in {Gvtst(gen, TRUE, NoJumps)} :
          gen' = test.g /\ Open([k |-> "if", t |-> test.t, yes |-> Truth(sem)])
    /\ sem' = SDrop(sem)
    /\ UNCHANGED size

Step ==
    \/ \E l \in Operands : Leaf(l)
    \/ \E op \in words.unary : UnaryOp(op)
    \/ \E op \in words.binary : BinaryOp(op)
    \/ BinaryEnd
    \/ \E op \in words.stores : Assign(op)
    \/ AssignEnd
    \/ "," \in words.flow /\ (Comma \/ CommaEnd)
    \/ \E op \in words.flow \cap {"&&", "||"} : Landor(op) \/ LandorEnd(op)
    \/ "?" \in words.flow /\ (Question \/ Colon)
    \/ "?:" \in words.flow /\ QuestionColon
    \/ CondEnd
    \/ Statement
    \/ If

Next == Step /\ UNCHANGED words

Spec == Init /\ [][Next]_vars

-----------------------------------------------------------------------------
(* The machines that have evaluated vtop: those that are here, and, when it   *)
(* is a test whose jumps are pending, those that have jumped.                 *)
HasJumps == gen.vs # <<>> /\ Top(gen).r = "cmp"
JumpedTrue == IF HasJumps THEN Top(gen).jtrue.envs ELSE {}
JumpedFalse == IF HasJumps THEN Top(gen).jfalse.envs ELSE {}
Evaluated == (gen.here \cup JumpedTrue \cup JumpedFalse) \ sem.gone

Stands(sv, x, e) ==
    IF x.place THEN sv.lval /\ PlaceOn(sv, gen.mc[e]) = x.val[e]
    ELSE ValueOn(sv, gen.mc[e]) = x.val[e]

(* Wherever each value of the stack has been moved to, by whatever other      *)
(* operands needed its register or jumped over the code, it is there on every *)
(* machine that comes this way.                                               *)
ValuesHold ==
    gen.nest = 0 =>
        /\ Len(gen.vs) = Len(sem.stack)
        /\ \A e \in Evaluated : \A i \in 1 .. Len(gen.vs) :
             i < Len(gen.vs) \/ e \in gen.here => Stands(gen.vs[i], sem.stack[i], e)
        /\ \A e \in JumpedTrue \ sem.gone : STop(sem).val[e] = 1
        /\ \A e \in JumpedFalse \ sem.gone : STop(sem).val[e] = 0

(* The code of an operand runs on the machines for which C evaluates it, also *)
(* where code was left out because nothing can come there, and an if goes the *)
(* way its condition says.                                                    *)
RunsExactly ==
    /\ IF gen.nest > 0 THEN sem.active = {} ELSE Evaluated = sem.active
                       \/ (mode = "end" /\ frames # <<>>)
    /\ mode = "end" /\ frames # <<>> =>
         /\ gen.here \ sem.gone = sem.active \cap Frame.yes
         /\ Frame.t.envs \ sem.gone = sem.active \ Frame.yes

(* What is stored is stored where C says, on the machines that come this way. *)
StoresRight == \A e \in sem.active : gen.mc[e].mem = sem.mem[e]

(* A test whose code is not finished is on top of the stack only.             *)
TestsOnTop == gen.nest = 0 => \A i \in 1 .. Len(gen.vs) - 1 : gen.vs[i].r # "cmp"

CodeSound == ValuesHold /\ RunsExactly /\ StoresRight /\ TestsOnTop
=============================================================================
