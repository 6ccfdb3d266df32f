----------------------------- MODULE ScopeExits ------------------------------
(* Leaving scopes in a function (tccgen.c): what `defer' and the attribute    *)
(* cleanup register in a scope is called once on every way out of it, whether *)
(* the way is the end of the block, a break, a continue, a return or a goto,  *)
(* forward or backward.                                                       *)
(*                                                                            *)
(* The compiler keeps a chain of what is registered where it is in the text.  *)
(* The model runs the code as it is generated: a path is what the program has *)
(* registered and not called yet on a way that leads to a place of the code,  *)
(* and code.here are the paths to its present end.  An if has a jump for its  *)
(* statement, and the body of a loop or a switch is a block.                  *)
EXTENDS Naturals, Sequences, SequencesExt, FiniteSets

CONSTANTS
    Labels,
    MaxEntries, MaxScopes, MaxSteps,    \* bounds: registrations, scopes, statements
    Discipline      \* what programs keep to, a subset of:
                    \*   "into"   no jump passes a registration,
                    \*   "late"   none is made after a goto that leaves the scope,
                    \*   "mixed"  a label is reached from under cleanups, or not

VARIABLES
    code,       \* the code so far: [off, here]
    scopes,     \* cur_scope is the last, root_scope the first
    loop,       \* loop_scope, 0 for none
    switches,   \* cur_switch is the last
    labels,
    gotos,      \* under cleanups, to labels that were not defined yet
    rsym,       \* the jumps to the end of the function
    entries, steps, mode, astray

vars == <<code, scopes, loop, switches, labels, gotos, rsym, entries, steps, mode, astray>>

NoJumps == [used |-> FALSE, paths |-> {}]
Scope(kind, cl, bsym, csym) ==
    [kind |-> kind, cl |-> cl, bsym |-> bsym, csym |-> csym, a |-> NoJumps, b |-> NoJumps,
     outer |-> <<>>]

Init ==
    /\ code = [off |-> FALSE, here |-> {<<>>}]
    /\ scopes = <<Scope("root", <<>>, 0, 0), Scope("body", <<>>, 0, 0)>>
    /\ loop = 0 /\ switches = <<>> /\ gotos = <<>> /\ rsym = NoJumps
    /\ labels = [l \in Labels |-> [r |-> "none", jnext |-> NoJumps, cl |-> <<>>]]
    /\ entries = 0 /\ steps = 0 /\ mode = "open" /\ astray = FALSE

Top == Last(scopes)
Cl == Top.cl
Room == steps < MaxSteps /\ steps' = steps + 1
Open == mode = "open" /\ Top.kind # "init"

-----------------------------------------------------------------------------
(* gsym, gind, gjmp: a list of jumps is patched to here, here becomes a       *)
(* target, the list gets a jump from here.                                    *)
Off == [off |-> TRUE, here |-> {}]
Gsym(c, t) == IF t.used THEN [off |-> FALSE, here |-> c.here \cup t.paths] ELSE c
Gind(c) == [c EXCEPT !.off = FALSE]
Gjmp(c, t) == IF c.off THEN t ELSE [used |-> TRUE, paths |-> t.paths \cup c.here]
AfterGjmp(c) == IF c.off THEN c ELSE Off

(* A call of e where the path has not e to call next leaves it in disorder.   *)
Called(p, e) == IF p # <<>> /\ Last(p) = e THEN Front(p) ELSE Append(p, 0)
Unwind(p, from, to) ==
    FoldLeft(LAMBDA q, e : Called(q, e), p, Reverse(SubSeq(from, Len(to) + 1, Len(from))))

(* try_call_scope_cleanup: what the chain has beyond the one of the other     *)
(* scope, the newest first.                                                   *)
Cleanup(c, from, to) ==
    IF c.off THEN c ELSE [c EXCEPT !.here = {Unwind(p, from, to) : p \in @}]

(* What an if jumps over.                                                     *)
If(cond, after) == IF cond THEN Gsym(after, Gjmp(code, NoJumps)) ELSE after

(* Paths that come to an earlier place of the code, where the chain was cl.   *)
Comes(paths, cl) == astray' = (astray \/ \E p \in paths : p # cl)

-----------------------------------------------------------------------------
(* defer_statement, and the declaration of a variable with a cleanup.         *)
Registered(c, e) == [c EXCEPT !.here = {Append(p, e) : p \in @}]
Leaves(g) == g.pending /\ labels[g.label].r = "forward" /\ g.c > Len(scopes[Len(scopes) - 1].cl)

Register ==
    /\ Open /\ Room /\ entries < MaxEntries /\ entries' = entries + 1
    /\ "late" \in Discipline => \A i \in DOMAIN gotos : ~Leaves(gotos[i])
    /\ code' = Registered(code, entries + 1)
    /\ scopes' = [scopes EXCEPT ![Len(scopes)].cl = Append(@, entries + 1)]
    /\ UNCHANGED <<loop, switches, labels, gotos, rsym, mode, astray>>

(* new_scope copies the one around it.                                        *)
Block ==
    /\ Open /\ Room /\ Len(scopes) < MaxScopes
    /\ scopes' = Append(scopes, Scope("block", Cl, Top.bsym, Top.csym))
    /\ UNCHANGED <<code, loop, switches, labels, gotos, rsym, entries, mode, astray>>

(* lblock, for a block: inside, break and continue are of this loop or switch.*)
Inside(kind, ss, a) ==
    LET n == Len(ss)
        i == n + 1
        csym == IF kind = "switch" THEN ss[n].csym ELSE i IN
    Append([ss EXCEPT ![n].bsym = i, ![n].csym = csym],
           [Scope(kind, ss[n].cl, i, csym) EXCEPT
               !.a = a, !.outer = <<ss[n].bsym, ss[n].csym, loop>>])

While ==
    /\ Open /\ Room /\ Len(scopes) < MaxScopes
    /\ code' = Gind(code)
    /\ scopes' = Inside("while", scopes, Gjmp(Gind(code), NoJumps))
    /\ loop' = Len(scopes)
    /\ UNCHANGED <<switches, labels, gotos, rsym, entries, mode, astray>>

Do ==
    /\ Open /\ Room /\ Len(scopes) < MaxScopes
    /\ code' = Gind(code)
    /\ scopes' = Inside("do", scopes, NoJumps)
    /\ loop' = Len(scopes)
    /\ UNCHANGED <<switches, labels, gotos, rsym, entries, mode, astray>>

(* The first part of a for has a scope, and may declare a variable with a     *)
(* cleanup.                                                                   *)
For ==
    /\ Open /\ Room /\ Len(scopes) + 1 < MaxScopes
    /\ \E new \in 0 .. 1 :
        /\ entries + new <= MaxEntries /\ entries' = entries + new
        /\ LET own == IF new = 1 THEN <<entries + 1>> ELSE <<>>
               first == Gind(IF new = 1 THEN Registered(code, entries + 1) ELSE code) IN
           /\ code' = first
           /\ scopes' = Inside("while", Append(scopes, Scope("init", Cl \o own, Top.bsym, Top.csym)),
                               Gjmp(first, NoJumps))
    /\ loop' = Len(scopes) + 1
    /\ UNCHANGED <<switches, labels, gotos, rsym, mode, astray>>

Switch ==
    /\ Open /\ Room /\ Len(scopes) < MaxScopes
    /\ switches' = Append(switches,
            [scope |-> Len(scopes), bsym |-> Len(scopes) + 1, off |-> code.off,
             first |-> Gjmp(code, NoJumps), default |-> FALSE])
    /\ code' = AfterGjmp(code)
    /\ scopes' = Inside("switch", scopes, NoJumps)
    /\ UNCHANGED <<loop, labels, gotos, rsym, entries, mode, astray>>

(* The jump to a case is generated at the end of the switch; its paths are    *)
(* taken here.                                                                *)
Case(default) ==
    /\ Open /\ Room /\ switches # <<>>
    /\ LET sw == Last(switches) IN
       /\ default => ~sw.default
       /\ "into" \in Discipline => Cl = scopes[sw.scope].cl
       /\ code' = IF sw.off THEN code ELSE [off |-> FALSE, here |-> code.here \cup sw.first.paths]
    /\ switches' = [switches EXCEPT ![Len(switches)].default = @ \/ default]
    /\ UNCHANGED <<scopes, loop, labels, gotos, rsym, entries, mode, astray>>

-----------------------------------------------------------------------------
(* Jumps.  leave_scope calls what was registered since the scope o.           *)
LeaveScope(o) == IF o = 0 THEN code ELSE Cleanup(code, Cl, scopes[o].cl)

(* Mutant: a break in a switch leaves the loop around it.                     *)
BreakScopeLoop == loop

BreakScope ==
    IF switches # <<>> /\ Top.bsym = Last(switches).bsym THEN Last(switches).scope ELSE loop

Break(cond) ==
    /\ Open /\ Room /\ Top.bsym # 0
    /\ LET left == LeaveScope(BreakScope) IN
       /\ scopes' = [scopes EXCEPT ![Top.bsym].a = Gjmp(left, @)]
       /\ code' = If(cond, AfterGjmp(left))
    /\ UNCHANGED <<loop, switches, labels, gotos, rsym, entries, mode, astray>>

Continue(cond) ==
    /\ Open /\ Room /\ Top.csym # 0
    /\ LET left == LeaveScope(loop) IN
       /\ scopes' = [scopes EXCEPT ![Top.csym].b = Gjmp(left, @)]
       /\ code' = If(cond, AfterGjmp(left))
    /\ UNCHANGED <<loop, switches, labels, gotos, rsym, entries, mode, astray>>

(* The last statement of the function needs no jump.                          *)
Return(cond) ==
    /\ Open /\ Room
    /\ LET left == LeaveScope(1) IN
       \/ /\ rsym' = Gjmp(left, rsym) /\ code' = If(cond, AfterGjmp(left)) /\ UNCHANGED mode
       \/ /\ Top.kind = "body" /\ ~cond
          /\ code' = [left EXCEPT !.off = TRUE] /\ mode' = "last" /\ UNCHANGED rsym
    /\ UNCHANGED <<scopes, loop, switches, labels, gotos, entries, astray>>

(* Mutant: a goto backward calls nothing.                                     *)
CleanupGotoNone(c, cl) == c

(* try_call_cleanup_goto: down to what both chains have in common.            *)
CleanupGoto(c, cl) == IF Cl = <<>> THEN c ELSE Cleanup(c, Cl, LongestCommonPrefix({Cl, cl}))

GotoBack(l, cond) ==
    /\ Open /\ Room /\ labels[l].r = "defined"
    /\ "into" \in Discipline => IsPrefix(labels[l].cl, Cl)
    /\ LET left == CleanupGoto(code, labels[l].cl) IN
       Comes(left.here, labels[l].cl) /\ code' = If(cond, AfterGjmp(left))
    /\ UNCHANGED <<scopes, loop, switches, labels, gotos, rsym, entries, mode>>

(* A goto to a label that is not defined yet: under cleanups it is kept for   *)
(* the ends of the blocks it leaves.                                          *)
Waiting(l) == {i \in DOMAIN gotos : gotos[i].label = l /\ gotos[i].jnext.used}
GotoForward(l, cond) ==
    /\ Open /\ Room /\ labels[l].r # "defined"
    /\ IF Cl # <<>> /\ ~code.off
       THEN /\ "mixed" \in Discipline => ~labels[l].jnext.used
            /\ gotos' = Append(gotos, [label |-> l, c |-> Len(Cl), pending |-> TRUE,
                                       jnext |-> Gjmp(code, NoJumps)])
            /\ labels' = [labels EXCEPT ![l].r = "forward"]
       ELSE /\ "mixed" \in Discipline => Waiting(l) = {}
            /\ labels' = [labels EXCEPT ![l].r = "forward", ![l].jnext = Gjmp(code, @)]
            /\ UNCHANGED gotos
    /\ code' = If(cond, AfterGjmp(code))
    /\ UNCHANGED <<scopes, loop, switches, rsym, entries, mode, astray>>

(* Mutant: only the newest of the gotos that wait is patched.                 *)
PatchedNewest(l) == {i \in Waiting(l) : \A j \in Waiting(l) : j <= i}

Patched(l) == Waiting(l)

(* If there are any, the jumps of label l itself are not looked at.           *)
Label(l) ==
    /\ Open /\ Room /\ labels[l].r # "defined"
    /\ "into" \in Discipline =>
         /\ labels[l].jnext.used => Cl = <<>>
         /\ \A i \in Waiting(l) : Len(Cl) = IF gotos[i].pending THEN gotos[i].c ELSE 0
    /\ code' = Gind(Gsym(code,
                 IF Waiting(l) = {} THEN labels[l].jnext
                 ELSE [used |-> TRUE, paths |-> UNION {gotos[i].jnext.paths : i \in Patched(l)}]))
    /\ labels' = [labels EXCEPT ![l] =
                    [r |-> "defined", cl |-> Cl,
                     jnext |-> IF Waiting(l) = {} THEN NoJumps ELSE labels[l].jnext]]
    /\ gotos' = [i \in DOMAIN gotos |->
                    IF i \in Patched(l) THEN [gotos[i] EXCEPT !.jnext = NoJumps] ELSE gotos[i]]
    /\ UNCHANGED <<scopes, loop, switches, rsym, entries, mode, astray>>

-----------------------------------------------------------------------------
(* Ends of blocks.                                                            *)

(* block_cleanup, in the scope o of the chain to: the gotos that leave the    *)
(* block get calls of their own, which the code jumps over.  The newest comes *)
(* first, and the first that does not leave it ends the search.               *)
Seen(to) ==
    {i \in DOMAIN gotos :
        \A j \in i .. Len(gotos) : gotos[j].pending => gotos[j].c > Len(to)}

(* Mutant: the goto is taken to be as deep as before.                         *)
LoweredNot(g, from, to) ==
    IF ~g.pending THEN g
    ELSE IF labels[g.label].r = "forward"
    THEN [g EXCEPT !.jnext.paths = {Unwind(p, from, to) : p \in @}, !.pending = to # <<>>]
    ELSE [g EXCEPT !.pending = FALSE]

Lowered(g, from, to) ==
    IF ~g.pending THEN g
    ELSE IF labels[g.label].r = "forward"
    THEN [g EXCEPT !.jnext.paths = {Unwind(p, from, to) : p \in @},
                   !.c = Len(to), !.pending = to # <<>>]
    ELSE [g EXCEPT !.pending = FALSE]

Cleaned(from, to) ==
    IF from = to THEN gotos
    ELSE SelectSeq([i \in DOMAIN gotos |->
                       IF i \in Seen(to) THEN Lowered(gotos[i], from, to) ELSE gotos[i]],
                   LAMBDA g : g.pending \/ g.jnext.used)

(* prev_scope of the last scope, whose parent is the one before it.           *)
Under == scopes[Len(scopes) - 1]
PrevScope == gotos' = Cleaned(Cl, Under.cl)
Ended == Cleanup(code, Cl, Under.cl)

(* After lblock: the scope around it as it was.                               *)
Outside ==
    /\ scopes' = [Front(scopes) EXCEPT ![Len(scopes) - 1].bsym = Top.outer[1],
                                       ![Len(scopes) - 1].csym = Top.outer[2]]
    /\ loop' = Top.outer[3]

EndBlock ==
    /\ mode = "open" /\ Top.kind \in {"block", "init"} /\ PrevScope
    /\ code' = Ended
    /\ scopes' = Front(scopes)
    /\ UNCHANGED <<loop, switches, labels, rsym, entries, steps, mode, astray>>

EndWhile ==
    /\ mode = "open" /\ Top.kind = "while" /\ PrevScope /\ Outside
    /\ Comes(Ended.here \cup Top.b.paths, Under.cl)
    /\ code' = Gsym(AfterGjmp(Ended), Top.a)
    /\ UNCHANGED <<switches, labels, rsym, entries, steps, mode>>

EndDo ==
    /\ mode = "open" /\ Top.kind = "do" /\ PrevScope /\ Outside
    /\ Comes(Gsym(Ended, Top.b).here, Under.cl)
    /\ code' = Gsym(Gsym(Ended, Top.b), Top.a)
    /\ UNCHANGED <<switches, labels, rsym, entries, steps, mode>>

(* Without a default, what is in no case comes to the end.                    *)
EndSwitch ==
    /\ mode = "open" /\ Top.kind = "switch" /\ PrevScope /\ Outside
    /\ LET sw == Last(switches)
           none == IF sw.default THEN NoJumps ELSE sw.first IN
       code' = Gsym(Gsym(AfterGjmp(Ended), none), Gjmp(Ended, Top.a))
    /\ switches' = Front(switches)
    /\ UNCHANGED <<labels, rsym, entries, steps, mode, astray>>

(* The end of gen_function; a label that is not defined by then is an error.  *)
EndFunction ==
    /\ mode \in {"open", "last"} /\ Top.kind = "body" /\ PrevScope
    /\ \A l \in Labels : labels[l].r # "forward"
    /\ code' = Gind(Gsym(Ended, rsym))
    /\ mode' = "end" /\ rsym' = NoJumps
    /\ scopes' = Front(scopes)
    /\ UNCHANGED <<loop, switches, labels, entries, steps, astray>>

Next ==
    \/ Register \/ Block \/ While \/ Do \/ For \/ Switch
    \/ \E default \in BOOLEAN : Case(default)
    \/ \E cond \in BOOLEAN :
        \/ Break(cond) \/ Continue(cond) \/ Return(cond)
        \/ \E l \in Labels : GotoBack(l, cond) \/ GotoForward(l, cond)
    \/ \E l \in Labels : Label(l)
    \/ EndBlock \/ EndWhile \/ EndDo \/ EndSwitch \/ EndFunction

Spec == Init /\ [][Next]_vars

-----------------------------------------------------------------------------
(* On every way, what was registered and not called is what the compiler      *)
(* holds to be registered at that place of the text: nothing is called twice, *)
(* out of order or not at all, and at the end everything has been called.     *)
Unwound ==
    /\ \A p \in code.here : p = IF mode = "open" THEN Cl ELSE <<>>
    /\ \A p \in rsym.paths : p = <<>>
    /\ \A i \in 3 .. Len(scopes) :
         \A p \in scopes[i].a.paths \cup scopes[i].b.paths : p = scopes[i - 1].cl

(* A goto backward finds the chain that its label had.                        *)
Landed == ~astray

(* Code is left out only where nothing can come.                              *)
Reached == code.off /\ mode = "open" => code.here = {}

(* Every goto comes to its label, and those that wait are in the order in     *)
(* which the ends of their blocks look for them.                              *)
Arrives ==
    /\ \A l \in Labels : labels[l].r = "defined" => labels[l].jnext.paths = {} /\ Waiting(l) = {}
    /\ \A i, j \in DOMAIN gotos :
         i <= j /\ gotos[i].pending /\ gotos[j].pending => gotos[i].c <= gotos[j].c
    /\ \A i \in DOMAIN gotos :
         gotos[i].pending /\ labels[gotos[i].label].r = "forward" => gotos[i].c <= Len(Cl)

ExitsSound == Unwound /\ Landed /\ Reached /\ Arrives
=============================================================================
