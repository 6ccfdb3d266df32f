--------------------------- MODULE PriorityQueue ---------------------------
(* What a POSIX message queue promises: a bounded queue that gives out the    *)
(* message of the highest priority, the oldest one first.                     *)
EXTENDS Naturals, Sequences

CONSTANTS
    Msgs,           \* messages
    Prio,           \* Prio[m]: the priority of m
    Room            \* the most messages the queue can hold

VARIABLE queue      \* the messages, in the order in which they arrived

QueueInit == queue = <<>>

Enqueue(m) ==
    /\ Len(queue) < Room
    /\ queue' = Append(queue, m)

(* The first of the messages of the highest priority.                         *)
Foremost(i) ==
    /\ \A j \in DOMAIN queue : Prio[queue[j]] <= Prio[queue[i]]
    /\ \A j \in 1 .. (i - 1) : Prio[queue[j]] < Prio[queue[i]]

Dequeue ==
    \E i \in DOMAIN queue :
        /\ Foremost(i)
        /\ queue' = [j \in 1 .. (Len(queue) - 1) |-> queue[IF j < i THEN j ELSE j + 1]]

QueueNext == (\E m \in Msgs : Enqueue(m)) \/ Dequeue

QueueSpec == QueueInit /\ [][QueueNext]_queue
=============================================================================
