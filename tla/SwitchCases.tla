---------------------------- MODULE SwitchCases ------------------------------
(* The cases of a switch (tccgen.c): they are collected as they come in the   *)
(* text, sorted, joined where one goes on in the next, and looked up by code  *)
(* that halves a long table and goes through a short one.  The code is        *)
(* modelled by where it jumps for each value.                                 *)
EXTENDS Naturals, Sequences, SequencesExt, TLC

CONSTANTS
    Values,     \* of the switched expression, an interval of numbers
    Short,      \* a longer table is halved (8)
    MaxCases    \* a bound

VARIABLES
    cases,      \* sw->p before it is sorted: [v1, v2, ind]
    inds        \* the number of different places they are at

vars == <<cases, inds>>

Init == cases = <<>> /\ inds = 0

(* case_sort                                                                  *)
InOrder == SortSeq(cases, LAMBDA p, q : p.v1 < q.v1)
Duplicate == \E i \in 1 .. Len(cases) - 1 : InOrder[i].v2 >= InOrder[i + 1].v1

(* A case of one value or of a range, at the place of the case before it or   *)
(* at one of its own.  Ranges are not empty; a table that will be refused is  *)
(* not made longer.                                                           *)
Case(v1, v2, apart) ==
    /\ Len(cases) < MaxCases /\ v1 <= v2 /\ ~Duplicate
    /\ apart \/ inds > 0
    /\ inds' = IF apart THEN inds + 1 ELSE inds
    /\ cases' = Append(cases, [v1 |-> v1, v2 |-> v2, ind |-> inds'])

Next == \E v1, v2 \in Values, apart \in BOOLEAN : Case(v1, v2, apart)

Spec == Init /\ [][Next]_vars

-----------------------------------------------------------------------------
(* Mutant: neighbours are joined wherever they are.                           *)
GoesOnAnywhere(p, q) == p.v2 + 1 = q.v1

GoesOn(p, q) == p.v2 + 1 = q.v1 /\ p.ind = q.ind
Joined(table, q) ==
    IF table # <<>> /\ GoesOn(Last(table), q)
    THEN Append(Front(table), [q EXCEPT !.v1 = Last(table).v1])
    ELSE Append(table, q)
CaseSort == FoldLeft(Joined, <<>>, InOrder)

(* Mutant: what is below a range that was looked at is the default.           *)
GcaseBelow(table, v) ==
    LET At[first \in 1 .. Len(table) + 1, len \in 0 .. Len(table)] ==
            LET l2 == IF len > Short THEN len \div 2 ELSE 0
                p == table[first + l2] IN
            IF len = 0 THEN 0
            ELSE IF v \in p.v1 .. p.v2 THEN p.ind
            ELSE IF v < p.v1 THEN 0
            ELSE At[first + l2 + 1, len - l2 - 1] IN
    At[1, Len(table)]

(* gcase: the place v is sent to, 0 for the default.                          *)
Gcase(table, v) ==
    LET At[first \in 1 .. Len(table) + 1, len \in 0 .. Len(table)] ==
            LET l2 == IF len > Short THEN len \div 2 ELSE 0
                p == table[first + l2] IN
            IF len = 0 THEN 0
            ELSE IF l2 = 0 /\ p.v1 = p.v2
            THEN IF v = p.v2 THEN p.ind ELSE At[first + 1, len - 1]
            ELSE IF v > p.v2 THEN At[first + l2 + 1, len - l2 - 1]
            ELSE IF v >= p.v1 THEN p.ind
            ELSE At[first, l2] IN
    At[1, Len(table)]

-----------------------------------------------------------------------------
Of(v) == {i \in DOMAIN cases : v \in cases[i].v1 .. cases[i].v2}

(* Each value goes to the case that has it, or to the default if none has; a  *)
(* table is refused just when two cases have a value.                         *)
CaseFound ==
    IF Duplicate THEN \E v \in Values : \E i, j \in Of(v) : i # j
    ELSE \A v \in Values :
           \/ Of(v) = {} /\ Gcase(CaseSort, v) = 0
           \/ \E i \in Of(v) : Of(v) = {i} /\ Gcase(CaseSort, v) = cases[i].ind
=============================================================================
