----------------------------- MODULE MessageBox -----------------------------
(* What msgsnd and msgrcv promise of one queue: it holds a bounded number of  *)
(* messages, and a receive gets one that its selection allows.                *)
EXTENDS Integers, FiniteSets, FiniteSetsExt

CONSTANTS
    Msgs,           \* messages
    Type,           \* Type[m]: the positive type of m
    Sels,           \* selections of receives
    Room            \* the most messages the queue can hold

VARIABLES
    held,           \* held[m]: how often m is in the queue
    got             \* the last receive: its selection and its message

Held == {m \in Msgs : held[m] > 0}
NoMessage == <<>>

(* 0 takes any message, a positive type one of it or (MSG_EXCEPT) one of any  *)
(* other, a negative one the lowest type up to it (_ipc.c:336).               *)
Allowed(sel) ==
    CASE sel.kind = "any" -> Held
      [] sel.kind = "of" -> {m \in Held : Type[m] = sel.type}
      [] sel.kind = "except" -> {m \in Held : Type[m] # sel.type}
      [] sel.kind = "upto" -> {m \in Held : /\ Type[m] <= sel.type
                                            /\ \A n \in Held : Type[m] <= Type[n]}

BoxInit == held = [m \in Msgs |-> 0] /\ got = NoMessage

Put(m) ==
    /\ MapThenSumSet(LAMBDA n : held[n], Msgs) < Room
    /\ held' = [held EXCEPT ![m] = @ + 1]
    /\ UNCHANGED got

Take(sel) ==
    \E m \in Allowed(sel) :
        /\ held' = [held EXCEPT ![m] = @ - 1]
        /\ got' = <<sel, m>>

(* msgget makes an empty queue of the entry.                                  *)
Renew == held' = [m \in Msgs |-> 0] /\ UNCHANGED got

BoxNext == Renew \/ (\E m \in Msgs : Put(m)) \/ (\E sel \in Sels : Take(sel))

BoxSpec == BoxInit /\ [][BoxNext]_<<held, got>>
=============================================================================
