------------------------------ MODULE MCParts ------------------------------
(* Parts of the system that share no state, side by side: the sync blocks of  *)
(* ntapi (this module extends them), interval timers, dalists, and waiting    *)
(* for children.  A behaviour is of one part, so that the states of the parts *)
(* add up.                                                                    *)
EXTENDS SyncBlock

CONSTANTS
    Waiters, Last, Budgets,     \* of waiting for children: threads, children, calls
    MaxSets, MaxExpiries        \* of timers: how often one is set, and expires

VARIABLES
    part,                                               \* the part that runs
    client, port, daemon, instance, handle, thr, kill, native, expiries, latest, alarms, cur,
    stack, sigctx, apcs, suspended, crossed, early,
    list, next, prev, key, blocks,
    exited, waitable, lock, at, phase, node, alerted, count, status, pid, event,
    helper, alerting, alert, left, result, taken, reports

alarmVars == <<client, port, daemon, instance, handle, thr, kill, native, expiries, latest,
               alarms, cur, stack, sigctx, apcs, suspended, crossed, early>>
listVars == <<list, next, prev, key, blocks>>
waitVars == <<exited, waitable, lock, at, phase, node, alerted, count, status, pid,
              event, helper, alerting, alert, left, result, taken, reports>>

(* No NT call fails in a delivery.                                            *)
Alarm == INSTANCE Alarms WITH Discipline <- {"sound"}

(* Two blocks of two nodes, for three keys.                                   *)
List == INSTANCE DaList WITH Keys <- {1, 2, 3}, BlockCap <- 2, PerBlock <- 2

(* No NT call fails.                                                          *)
Wait == INSTANCE Waits WITH Discipline <- {"sound"}, calls <- left

(* Of two threads, each waits once, or the first one twice.                   *)
OnceOrTwice == {<<1, 1>>, <<2, 0>>}

ASSUME PartsAssumption ==
    /\ Wait!WaitsAssumption
    /\ MaxSets \in Nat /\ MaxExpiries \in Nat

Others(p) ==
    /\ UNCHANGED part
    /\ p # "sync" => UNCHANGED vars
    /\ p # "alarms" => UNCHANGED alarmVars
    /\ p # "list" => UNCHANGED listVars
    /\ p # "wait" => UNCHANGED waitVars

PartsInit ==
    /\ part \in {"sync", "alarms", "list", "wait"}
    /\ Init /\ Alarm!Init /\ List!Init /\ Wait!Init
    /\ part # "wait" => left = CHOOSE budget \in Budgets : TRUE

PartsNext ==
    \/ part = "sync" /\ Next /\ Others("sync")
    \/ part = "alarms" /\ Alarm!Next /\ Others("alarms")
    \/ part = "list" /\ List!Next /\ Others("list")
    \/ part = "wait" /\ Wait!Next /\ Others("wait")

(* Fairness of each thread inside a call under a sync block, which may spin.  *)
(* The other calls repeat no step without end, but for a program that a signal*)
(* has met too early: there, some step that can be taken by a timer, the      *)
(* daemon, a waiting thread or a helper is taken.                             *)
OtherStep ==
    \/ /\ part = "alarms"
       /\ \/ \E g \in Alarm!Gens : Alarm!TimerStep(g)
          \/ Alarm!Expire \/ Alarm!Daemon \/ (~ early /\ Alarm!Program)
       /\ Others("alarms")
    \/ /\ part = "wait"
       /\ \E t \in Waiters :
            \/ Wait!CallerStep(t) \/ Wait!HelperAlerts(t)
            \/ \E c \in Wait!Children : Wait!HelperStep(t, c)
       /\ Others("wait")

(* TLC does not follow a behaviour beyond a step that uses the instance of a  *)
(* timer while a timer thread is arming; what such a step does is checked.    *)
Uncrossed == ~ crossed

allVars == <<part, vars, alarmVars, listVars, waitVars>>
PartsSpec == PartsInit /\ [][PartsNext]_allVars /\ Fairness /\ WF_allVars(OtherStep)

-----------------------------------------------------------------------------
(* Waiting: the helpers of a call are counted, a child that a call that slept *)
(* returns has exited and is given to nobody else, and no exit is lost.       *)
ChildrenReported == Wait!HelpersCounted /\ Wait!SleptReports /\ Wait!NoChildLost

(* Every call that spins or sleeps on others comes to an end: those under     *)
(* sync blocks unless a thread outside has kept the lock, the waits once the  *)
(* children have exited, and the spins on helpers although children run.  A   *)
(* sleep on helpers ends: thread 1 stands for both, and makes as many calls.  *)
Asked ==
    \/ part = "sync" /\ \E t \in Threads : pc[t] # "idle"
    \/ part = "wait" /\ (exited = Wait!Children \/ \E t \in Waiters : at[t] = "drain")
Served ==
    \/ part = "sync" /\ (Kept \/ \A t \in Threads : pc[t] = "idle")
    \/ /\ part = "wait" /\ \A t \in Waiters : at[t] # "drain"
       /\ exited = Wait!Children => Wait!LockKept \/ \A t \in Waiters : Wait!Returned(t)
CallsEnd == (Asked ~> Served) /\ Wait!SleeperWakes(1)

(* Timers: what is stale signals nobody, a timer without an interval signals  *)
(* once, a handler goes back where it came from, an alarm comes as long as the*)
(* daemon serves, and the program goes on after it.                           *)
NoStaleAlarm == Alarm!NoStaleAlarm
ReturnsExact == Alarm!TypeOK /\ Alarm!OneShotOnce /\ Alarm!GoesBackWhereItWas
AlarmsServed == Alarm!AlarmsSettle

(* Lists: both directions, the free nodes and the counters agree, and a walk  *)
(* meets a set of keys in order.                                              *)
NodesExact == List!TypeOK /\ List!BothWays /\ List!NodesConserved
ImplementsSortedKeys == List!ImplementsSortedKeys
=============================================================================
