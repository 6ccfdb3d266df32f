------------------------------- MODULE DaList -------------------------------
(* dalist, the list under the records of children, sections and mounts        *)
(* (dalist/src/dalist.c, dalist_memfn.c): a doubly linked list in key order,  *)
(* a list of free nodes fed by blocks of memory, and counters of both.  Its   *)
(* users call it under a lock, so that a call is one step.                    *)
EXTENDS Integers, Sequences, FiniteSets

CONSTANTS
    Keys,       \* keys of nodes
    BlockCap,   \* blocks of memory NT gives
    PerBlock    \* nodes in a block

Nodes == 1 .. (BlockCap * PerBlock)
Null == 0
Block(b) == ((b - 1) * PerBlock + 1) .. (b * PerBlock)

VARIABLES
    list,       \* the list: [head, tail, free, listNodes, freeNodes]
    next,       \* node->next
    prev,       \* node->prev
    key,        \* node->key
    blocks      \* blocks taken so far

vars == <<list, next, prev, key, blocks>>

(* A list and its nodes, as the library's functions see and return them.      *)
Lib == [list |-> list, next |-> next, prev |-> prev, key |-> key, blocks |-> blocks]
Becomes(d) ==
    /\ list' = d.list /\ next' = d.next /\ prev' = d.prev /\ key' = d.key
    /\ blocks' = d.blocks

Init ==
    /\ list = [head |-> Null, tail |-> Null, free |-> Null, listNodes |-> 0, freeNodes |-> 0]
    /\ next = [n \in Nodes |-> Null] /\ prev = [n \in Nodes |-> Null]
    /\ key \in [Nodes -> {CHOOSE k \in Keys : TRUE}]
    /\ blocks = 0

-----------------------------------------------------------------------------
(* The free nodes.                                                            *)

(* A block is chained and put before what is free.                            *)
DepositBlock(d) ==
    LET b == Block(d.blocks + 1)
        first == d.blocks * PerBlock + 1
        last == (d.blocks + 1) * PerBlock
    IN  [d EXCEPT
          !.next = [n \in Nodes |-> CASE n \in b \ {last} -> n + 1
                                      [] n = last -> d.list.free
                                      [] OTHER -> @[n]],
          !.prev = [n \in Nodes |-> CASE n \in b \ {first} -> n - 1
                                      [] n = first -> Null
                                      [] n = d.list.free -> last
                                      [] OTHER -> @[n]],
          !.list = [@ EXCEPT !.free = first, !.freeNodes = @ + PerBlock],
          !.blocks = @ + 1]

(* Mutant: the next free node is lost with the one that is taken.             *)
TakeFreeAll(d) ==
    LET n == d.list.free IN
    [d EXCEPT !.list = [@ EXCEPT !.free = Null, !.freeNodes = @ - 1],
              !.next[n] = Null, !.prev[n] = Null]

TakeFree(d) ==
    LET n == d.list.free
        rest == d.next[n]
    IN  [d EXCEPT !.list = [@ EXCEPT !.free = rest, !.freeNodes = @ - 1],
                  !.next[n] = Null,
                  !.prev = [m \in Nodes |-> IF m \in {n, rest} THEN Null ELSE @[m]]]

(* dalist_get_free_node: the free list as it is, or after one more block.     *)
CanGetFree(d) == d.list.free # Null \/ d.blocks < BlockCap
Refilled(d) == IF d.list.free # Null THEN d ELSE DepositBlock(d)

DepositFree(d, n) ==
    [d EXCEPT !.next[n] = d.list.free, !.prev[n] = Null,
              !.list = [@ EXCEPT !.free = n, !.freeNodes = @ + 1]]

-----------------------------------------------------------------------------
(* The list.                                                                  *)

(* The node a walk meets first whose key is not below k.                      *)
From(d, k) ==
    LET step[i \in 0 .. Cardinality(Nodes)] ==
            IF i = 0 THEN d.list.head
            ELSE LET n == step[i - 1] IN IF n # Null /\ d.key[n] < k THEN d.next[n] ELSE n
    IN  step[Cardinality(Nodes)]

Holds(d, k) == From(d, k) # Null /\ d.key[From(d, k)] = k

(* Mutant: the node before the new one goes on to the node after it.          *)
InsertBeforeHalf(d, at, n) ==
    [d EXCEPT
      !.prev = [@ EXCEPT ![n] = d.prev[at], ![at] = n],
      !.next = [@ EXCEPT ![n] = at],
      !.list = [@ EXCEPT !.head = IF d.prev[at] = Null THEN n ELSE @]]

InsertBefore(d, at, n) ==
    [d EXCEPT
      !.prev = [@ EXCEPT ![n] = d.prev[at], ![at] = n],
      !.next = [m \in Nodes |-> CASE m = n -> at
                                  [] m = d.prev[at] -> n
                                  [] OTHER -> @[m]],
      !.list = [@ EXCEPT !.head = IF d.prev[at] = Null THEN n ELSE @]]

(* After the tail, or as the only node.                                       *)
InsertLast(d, n) ==
    LET t == d.list.tail IN
    [d EXCEPT
      !.prev[n] = t,
      !.next = [m \in Nodes |-> CASE m = n -> Null
                                  [] m = t -> n
                                  [] OTHER -> @[m]],
      !.list = [@ EXCEPT !.head = IF t = Null THEN n ELSE @, !.tail = n]]

InsertByKey(d, n) ==
    LET at == From(d, d.key[n])
        d1 == IF at # Null THEN InsertBefore(d, at, n) ELSE InsertLast(d, n)
    IN  [d1 EXCEPT !.list = [@ EXCEPT !.listNodes = @ + 1]]

(* Mutant: the tail stays where it is.                                        *)
UnlinkNotTail(d, n) ==
    LET p == d.prev[n]
        s == d.next[n]
    IN  [d EXCEPT
          !.next = [m \in Nodes |-> IF m = p THEN s ELSE @[m]],
          !.prev = [m \in Nodes |-> IF m = s THEN p ELSE @[m]],
          !.list = [@ EXCEPT !.head = IF p = Null THEN s ELSE @,
                             !.listNodes = @ - 1]]

Unlink(d, n) ==
    LET p == d.prev[n]
        s == d.next[n]
    IN  [d EXCEPT
          !.next = [m \in Nodes |-> IF m = p THEN s ELSE @[m]],
          !.prev = [m \in Nodes |-> IF m = s THEN p ELSE @[m]],
          !.list = [@ EXCEPT !.head = IF p = Null THEN s ELSE @,
                             !.tail = IF s = Null THEN p ELSE @,
                             !.listNodes = @ - 1]]

-----------------------------------------------------------------------------
(* The calls of its users.                                                    *)

(* dalist_get_node_by_key with DALIST_NODE_TYPE_NEW (sections), or a get, a   *)
(* free node and an insert (mounts): a key that is there is left alone.       *)
GetOrAdd(k) ==
    /\ ~ Holds(Lib, k) /\ CanGetFree(Lib)
    /\ LET d == Refilled(Lib)
           n == d.list.free
       IN  Becomes(InsertByKey([TakeFree(d) EXCEPT !.key[n] = k], n))

(* dalist_get_free_node, and dalist_insert_node_by_key that refuses a key     *)
(* which is there: the node goes back (mounts), or is lost (children, whose   *)
(* keys only grow).                                                           *)
InsertRefused(k) ==
    /\ Holds(Lib, k) /\ CanGetFree(Lib)
    /\ LET d == Refilled(Lib)
           n == d.list.free
       IN  Becomes(DepositFree([TakeFree(d) EXCEPT !.key[n] = k], n))

Discard(k) ==
    /\ Holds(Lib, k)
    /\ LET n == From(Lib, k) IN Becomes(DepositFree(Unlink(Lib, n), n))

(* A block that a user has of its own.                                        *)
GiveBlock ==
    /\ blocks < BlockCap
    /\ Becomes(DepositBlock(Lib))

Next == GiveBlock \/ \E k \in Keys : GetOrAdd(k) \/ InsertRefused(k) \/ Discard(k)
Spec == Init /\ [][Next]_vars

-----------------------------------------------------------------------------
(* Properties.                                                                *)

(* The nodes from n on, followed by next or by prev.                          *)
Chain(n, link) ==
    LET c[i \in 0 .. Cardinality(Nodes)] ==
            IF i = 0 THEN SelectSeq(<<n>>, LAMBDA m : m # Null)
            ELSE LET s == c[i - 1] IN
                 IF s = <<>> \/ link[s[Len(s)]] = Null THEN s ELSE Append(s, link[s[Len(s)]])
    IN  c[Cardinality(Nodes)]
Elems(s) == {s[i] : i \in 1 .. Len(s)}

TypeOK ==
    /\ list \in [head : 0 .. Cardinality(Nodes), tail : 0 .. Cardinality(Nodes),
                 free : 0 .. Cardinality(Nodes), listNodes : Nat, freeNodes : Nat]
    /\ next \in [Nodes -> Nodes \cup {Null}] /\ prev \in [Nodes -> Nodes \cup {Null}]
    /\ key \in [Nodes -> Keys] /\ blocks \in 0 .. BlockCap

(* The list reads the same from both ends, and its counter counts its nodes.  *)
BothWays ==
    LET there == Chain(list.head, next)
        back == Chain(list.tail, prev)
    IN  /\ Len(there) = Len(back) /\ Len(there) = list.listNodes
        /\ \A i \in 1 .. Len(there) : there[i] = back[Len(back) + 1 - i]

(* Every node of the blocks taken is either in the list or free, and the free *)
(* ones are counted.                                                          *)
NodesConserved ==
    LET used == Elems(Chain(list.head, next))
        spare == Elems(Chain(list.free, next))
    IN  /\ used \cap spare = {}
        /\ used \cup spare = 1 .. (blocks * PerBlock)
        /\ Cardinality(spare) = list.freeNodes

(* The list is a set of keys in ascending order.                              *)
Sorted == INSTANCE SortedKeys WITH
    walk <- [i \in 1 .. Len(Chain(list.head, next)) |-> key[Chain(list.head, next)[i]]]
ImplementsSortedKeys == Sorted!Spec
=============================================================================
