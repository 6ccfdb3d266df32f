-------------------------------- MODULE Waits --------------------------------
(* wait4 and waitid of psxscl (session/_wait.c): the threads of a process     *)
(* wait for its children.  A thread that finds no child that has exited       *)
(* starts one helper thread per child and sleeps; the helpers race to claim   *)
(* a child, write what they found into the tlca of the thread they serve, and *)
(* the last to leave alerts it.  The words they share with it (wait_count,    *)
(* wait_status, wait_pid) and with each other (waitable) have no lock.        *)
EXTENDS Naturals, FiniteSets

CONSTANTS
    Waiters,        \* threads of the parent
    Last,           \* children 1 .. Last, in the order of ctx->offsprings
    Budgets,        \* bound: the calls the threads make, budget[t] by t
    Discipline      \* {"sound"}: no NT call fails; {}: any may

WaitsAssumption ==
    /\ Last \in Nat \ {0} /\ Budgets \subseteq [Waiters -> Nat]
    /\ Discipline \subseteq {"sound"}

Children == 1 .. Last
None == 0
Stranger == 0                   \* an argument that is no child's pid
Any == Last + 1                 \* the argument -1
EINTR == Last + 2               \* wait_pid = -EINTR
MayFail == "sound" \notin Discipline

VARIABLES
    exited,     \* children that have exited
    waitable,   \* children whose rec->waitable is set
    lock,       \* who holds the pid lock, a set of at most one thread
    at,         \* at[t]: where t is in __wait_in_vain
    phase,      \* phase[t]: "pid", "poll", "pool", the part of it
    node,       \* node[t]: the child it looks at
    alerted,    \* alerted[t]: the status its sleep ended with
    count,      \* tlca->wait_count
    status,     \* tlca->wait_status
    pid,        \* tlca->wait_pid
    event,      \* tlca->hevent
    helper,     \* helper[t][c]: where the helper of t for c is
    alerting,   \* helpers of t that are about to alert it
    alert,      \* NT: an alert of t is pending
    calls,      \* calls[t]: calls t has left
    result,     \* history: result[t], what the last call returned
    taken,      \* history: children the helpers of t's last call have taken
    reports     \* history: reports[c], calls that slept and returned c

tlcaV == <<count, status, pid, event>>
childV == <<exited, waitable>>
walkV == <<lock, at, phase, node, alerted>>
helperV == <<helper, alerting, alert>>
historyV == <<result, taken, reports>>
vars == <<childV, walkV, tlcaV, helperV, calls, historyV>>

NoResult == [pid |-> None, slept |-> FALSE]

Init ==
    /\ exited = {} /\ waitable = Children /\ lock = {}
    /\ at = [t \in Waiters |-> "idle"]
    /\ phase = [t \in Waiters |-> "pid"]
    /\ node = [t \in Waiters |-> 1]
    /\ alerted = [t \in Waiters |-> FALSE]
    /\ count = [t \in Waiters |-> 0]
    /\ status = [t \in Waiters |-> "success"]
    /\ pid = [t \in Waiters |-> None]
    /\ event = [t \in Waiters |-> FALSE]
    /\ helper = [t \in Waiters |-> [c \in Children |-> "none"]]
    /\ alerting = [t \in Waiters |-> 0]
    /\ alert = [t \in Waiters |-> FALSE]
    /\ calls \in Budgets
    /\ result = [t \in Waiters |-> NoResult]
    /\ taken = [t \in Waiters |-> {}]
    /\ reports = [c \in Children |-> 0]

Exit(c) ==
    /\ c \notin exited
    /\ exited' = exited \cup {c}
    /\ UNCHANGED <<waitable, walkV, tlcaV, helperV, calls, historyV>>

-----------------------------------------------------------------------------
(* The caller.                                                                *)

Go(t, l) == at' = [at EXCEPT ![t] = l]

(* What a call gives back is a pid alone: wait4 ends with the exit code of the*)
(* calling thread in the place of the child's (_wait.c:417-418), and waitid   *)
(* asks for none.                                                             *)
Return(t, p, slept) ==
    /\ Go(t, "idle")
    /\ result' = [result EXCEPT ![t] = [pid |-> p, slept |-> slept]]
    /\ reports' = [c \in Children |-> reports[c] + IF slept /\ c = p THEN 1 ELSE 0]

Call(t, target) ==
    /\ at[t] = "idle" /\ calls[t] > 0
    /\ calls' = [calls EXCEPT ![t] = @ - 1]
    /\ node' = [node EXCEPT ![t] = target]
    /\ Go(t, "round")
    /\ UNCHANGED <<childV, lock, phase, alerted, tlcaV, helperV, historyV>>

(* It spins until the helpers of its last call have left.                     *)
Round(t) ==
    /\ at[t] = "round" /\ count[t] = 0
    /\ pid' = [pid EXCEPT ![t] = None]
    /\ status' = [status EXCEPT ![t] = "pending"]
    /\ event' = [event EXCEPT ![t] = FALSE]
    /\ IF node[t] = Any
       THEN UNCHANGED phase /\ Go(t, "lock")
       ELSE phase' = [phase EXCEPT ![t] = "pid"] /\ Go(t, "find")
    /\ taken' = [taken EXCEPT ![t] = {}]
    /\ UNCHANGED <<childV, lock, node, alerted, count, helperV, calls, result, reports>>

(* The pid lock lets its holder in again, and counts nothing.                 *)
Grants(t) == lock \subseteq {t}

(* __psx_get_process_record returns with the lock when it finds no child.     *)
Find(t) ==
    /\ at[t] = "find" /\ Grants(t)
    /\ IF node[t] = Stranger
       THEN lock' = {t} /\ Return(t, None, FALSE)
       ELSE lock' = {} /\ Go(t, "look") /\ UNCHANGED <<result, reports>>
    /\ UNCHANGED <<childV, phase, node, alerted, tlcaV, helperV, calls, taken>>

Lock(t) ==
    /\ at[t] = "lock" /\ Grants(t)
    /\ lock' = {t}
    /\ phase' = [phase EXCEPT ![t] = "poll"]
    /\ node' = [node EXCEPT ![t] = 1]
    /\ Go(t, "look")
    /\ UNCHANGED <<childV, alerted, tlcaV, helperV, calls, historyV>>

(* The next child of the walk; the first of the second walk; the sleep.       *)
Advance(t) ==
    CASE node[t] < Last ->
            node' = [node EXCEPT ![t] = @ + 1] /\ Go(t, "look") /\ UNCHANGED <<lock, phase>>
      [] node[t] = Last /\ phase[t] = "poll" ->
            /\ node' = [node EXCEPT ![t] = 1] /\ phase' = [phase EXCEPT ![t] = "pool"]
            /\ Go(t, "look") /\ UNCHANGED lock
      [] OTHER -> Go(t, "sleep") /\ lock' = {} /\ UNCHANGED <<node, phase>>

Look(t) ==
    /\ at[t] = "look"
    /\ CASE node[t] \in waitable ->
              Go(t, "test") /\ UNCHANGED <<lock, phase, node, result, reports>>
         [] node[t] \notin waitable /\ phase[t] = "pid" ->
              Return(t, None, FALSE) /\ UNCHANGED <<lock, phase, node>>
         [] OTHER -> Advance(t) /\ UNCHANGED <<result, reports>>
    /\ UNCHANGED <<childV, alerted, tlcaV, helperV, calls, taken>>

(* __wait_for_nobody: has the child exited?  If not, count a helper, then     *)
(* create it.                                                                 *)
Test(t) ==
    /\ at[t] = "test"
    /\ CASE node[t] \in exited /\ phase[t] # "pool" ->
              Go(t, "answer") /\ UNCHANGED <<lock, phase, node>>
         [] node[t] \notin exited /\ phase[t] # "poll" ->
              Go(t, "count") /\ UNCHANGED <<lock, phase, node>>
         [] OTHER -> Advance(t)
    /\ UNCHANGED <<childV, alerted, tlcaV, helperV, calls, historyV>>

(* Mutant: the helper counts itself, once it runs.                            *)
CountLate(t) ==
    /\ at[t] = "count"
    /\ Go(t, "create")
    /\ UNCHANGED <<childV, lock, phase, node, alerted, tlcaV, helperV, calls, historyV>>

Count(t) ==
    /\ at[t] = "count"
    /\ count' = [count EXCEPT ![t] = @ + 1]
    /\ Go(t, "create")
    /\ UNCHANGED <<childV, lock, phase, node, alerted, status, pid, event, helperV,
                   calls, historyV>>

Create(t) ==
    /\ at[t] = "create"
    /\ \/ /\ helper' = [helper EXCEPT ![t][node[t]] = "wait"]
          /\ IF phase[t] = "pid"
             THEN Go(t, "answer") /\ UNCHANGED <<lock, phase, node>>
             ELSE Advance(t)
          /\ UNCHANGED <<count, result, reports>>
       \/ /\ MayFail
          /\ count' = [count EXCEPT ![t] = @ - 1]
          /\ IF phase[t] = "pid"
             THEN Return(t, None, FALSE) /\ UNCHANGED <<lock, phase, node>>
             ELSE Advance(t) /\ UNCHANGED <<result, reports>>
          /\ UNCHANGED helper
    /\ UNCHANGED <<childV, alerted, status, pid, event, alerting, alert, calls, taken>>

(* __wait_no_more by the caller itself, which does not clear waitable.        *)
Answer(t) ==
    /\ at[t] = "answer"
    /\ \/ /\ pid' = [pid EXCEPT ![t] = node[t]]
          /\ status' = [status EXCEPT ![t] = "success"]
          /\ Return(t, node[t], FALSE)
          /\ lock' = lock \ {t} /\ UNCHANGED <<phase, node>>
       \/ /\ MayFail
          /\ IF phase[t] = "pid"
             THEN Return(t, None, FALSE) /\ UNCHANGED <<lock, phase, node>>
             ELSE Advance(t) /\ UNCHANGED <<result, reports>>
          /\ UNCHANGED <<pid, status>>
    /\ UNCHANGED <<childV, alerted, count, event, helperV, calls, taken>>

(* The sleep is on an event nobody sets: an alert ends it, once no helper is  *)
(* left, or an APC.                                                           *)
Wake(t) ==
    /\ at[t] = "sleep" /\ alert[t]
    /\ alert' = [alert EXCEPT ![t] = FALSE]
    /\ IF count[t] > 0
       THEN UNCHANGED <<at, alerted>>
       ELSE Go(t, "end") /\ alerted' = [alerted EXCEPT ![t] = TRUE]
    /\ UNCHANGED <<childV, lock, phase, node, tlcaV, helper, alerting, calls, historyV>>

Apc(t) ==
    /\ at[t] = "sleep"
    /\ alerted' = [alerted EXCEPT ![t] = FALSE]
    /\ Go(t, "end")
    /\ UNCHANGED <<childV, lock, phase, node, tlcaV, helperV, calls, historyV>>

(* Mutant: the helpers are not told that the sleep is over.                   *)
EndQuietly(t) ==
    /\ at[t] = "end"
    /\ Go(t, "drain")
    /\ UNCHANGED <<childV, lock, phase, node, alerted, tlcaV, helperV, calls, historyV>>

(* The event releases the helpers whose child is still running.               *)
End(t) ==
    /\ at[t] = "end"
    /\ event' = [event EXCEPT ![t] = @ \/ count[t] > 0]
    /\ Go(t, "drain")
    /\ UNCHANGED <<childV, lock, phase, node, alerted, count, status, pid, helperV,
                   calls, historyV>>

(* What the call returns is read once all of them have left.                  *)
Finish(t) ==
    LET p == IF pid[t] = None /\ alerted[t] THEN EINTR ELSE pid[t] IN
    /\ pid' = [pid EXCEPT ![t] = p]
    /\ Return(t, p, TRUE)
    /\ UNCHANGED <<childV, lock, phase, node, alerted, count, status, event, helperV,
                   calls, taken>>

(* Mutant: it does not wait for the helpers.                                  *)
DrainNot(t) == at[t] = "drain" /\ Finish(t)

Drain(t) == at[t] = "drain" /\ count[t] = 0 /\ Finish(t)

-----------------------------------------------------------------------------
(* The helper of t for c: __wait_for_one.                                     *)

Step(t, c, l) == helper' = [helper EXCEPT ![t][c] = l]
HelperOnly == UNCHANGED <<exited, walkV, alerting, alert, calls, result, reports>>

HelperWakes(t, c) ==
    /\ helper[t][c] = "wait" /\ (c \in exited \/ event[t])
    /\ Step(t, c, "check")
    /\ HelperOnly /\ UNCHANGED <<taken, waitable, tlcaV>>

(* Mutant: a helper that is called off claims its child all the same.         *)
HelperChecksNot(t, c) ==
    /\ helper[t][c] = "check"
    /\ Step(t, c, "cas")
    /\ HelperOnly /\ UNCHANGED <<taken, waitable, tlcaV>>

(* Only a helper whose child has exited goes on to claim it.                  *)
HelperChecks(t, c) ==
    /\ helper[t][c] = "check"
    /\ Step(t, c, IF c \in exited THEN "cas" ELSE "leave")
    /\ HelperOnly /\ UNCHANGED <<taken, waitable, tlcaV>>

(* wait_status decides among the helpers of t; while one is deciding, the     *)
(* others spin.                                                               *)
HelperCas(t, c) ==
    /\ helper[t][c] = "cas" /\ status[t] # "more"
    /\ IF status[t] = "pending"
       THEN status' = [status EXCEPT ![t] = "more"] /\ Step(t, c, "claim")
       ELSE UNCHANGED status /\ Step(t, c, "leave")
    /\ HelperOnly /\ UNCHANGED <<taken, waitable, count, pid, event>>

(* Mutant: waitable is cleared, and not tested.                               *)
HelperClaimsBlindly(t, c) ==
    /\ helper[t][c] = "claim"
    /\ waitable' = waitable \ {c} /\ Step(t, c, "publish")
    /\ taken' = [taken EXCEPT ![t] = @ \cup {c}]
    /\ HelperOnly /\ UNCHANGED tlcaV

(* waitable decides among the helpers for c of different threads.             *)
HelperClaims(t, c) ==
    /\ helper[t][c] = "claim"
    /\ waitable' = waitable \ {c}
    /\ Step(t, c, IF c \in waitable THEN "publish" ELSE "giveBack")
    /\ taken' = [taken EXCEPT ![t] = @ \cup ({c} \cap waitable)]
    /\ HelperOnly /\ UNCHANGED tlcaV

HelperGivesBack(t, c) ==
    /\ helper[t][c] = "giveBack"
    /\ status' = [status EXCEPT ![t] = IF @ = "more" THEN "pending" ELSE @]
    /\ Step(t, c, "leave")
    /\ HelperOnly /\ UNCHANGED <<taken, waitable, count, pid, event>>

(* __wait_no_more: the status word is written last, and not at all when the   *)
(* exit code cannot be had.                                                   *)
HelperPublishes(t, c) ==
    /\ helper[t][c] = "publish"
    /\ \/ /\ pid' = [pid EXCEPT ![t] = c]
          /\ Step(t, c, "settle")
       \/ MayFail /\ Step(t, c, "leave") /\ UNCHANGED pid
    /\ HelperOnly /\ UNCHANGED <<taken, waitable, count, status, event>>

HelperSettles(t, c) ==
    /\ helper[t][c] = "settle"
    /\ status' = [status EXCEPT ![t] = "success"]
    /\ Step(t, c, "leave")
    /\ HelperOnly /\ UNCHANGED <<taken, waitable, count, pid, event>>

(* Mutant: the first to leave alerts, not the last.                           *)
HelperLeavesFirst(t, c) ==
    /\ helper[t][c] = "leave"
    /\ count' = [count EXCEPT ![t] = @ - 1]
    /\ alerting' = [alerting EXCEPT ![t] = @ + IF count[t] = Last THEN 1 ELSE 0]
    /\ Step(t, c, "none")
    /\ UNCHANGED <<childV, walkV, status, pid, event, alert, calls, historyV>>

(* Only the last one to leave alerts the thread they served.                  *)
HelperLeaves(t, c) ==
    /\ helper[t][c] = "leave"
    /\ count' = [count EXCEPT ![t] = @ - 1]
    /\ alerting' = [alerting EXCEPT ![t] = @ + IF count[t] = 1 THEN 1 ELSE 0]
    /\ Step(t, c, "none")
    /\ UNCHANGED <<childV, walkV, status, pid, event, alert, calls, historyV>>

HelperAlerts(t) ==
    /\ alerting[t] > 0
    /\ alerting' = [alerting EXCEPT ![t] = @ - 1]
    /\ alert' = [alert EXCEPT ![t] = TRUE]
    /\ UNCHANGED <<childV, walkV, tlcaV, helper, calls, historyV>>

-----------------------------------------------------------------------------
CallerStep(t) ==
    \/ Round(t) \/ Find(t) \/ Lock(t) \/ Look(t) \/ Test(t) \/ Count(t) \/ Create(t) \/ Answer(t)
    \/ Wake(t) \/ End(t) \/ Drain(t)
HelperStep(t, c) ==
    \/ HelperWakes(t, c) \/ HelperChecks(t, c) \/ HelperCas(t, c) \/ HelperClaims(t, c)
    \/ HelperGivesBack(t, c) \/ HelperPublishes(t, c) \/ HelperSettles(t, c)
    \/ HelperLeaves(t, c)

Next ==
    \/ \E c \in Children : Exit(c)
    \/ \E t \in Waiters :
        \/ \E target \in Children \cup {Stranger, Any} : Call(t, target)
        \/ CallerStep(t) \/ Apc(t) \/ HelperAlerts(t)
        \/ \E c \in Children : HelperStep(t, c)

Spec == Init /\ [][Next]_vars

(* NT schedules every thread; a child need not exit and no APC need come.     *)
Fairness ==
    /\ \A t \in Waiters :
        /\ WF_vars(CallerStep(t)) /\ WF_vars(HelperAlerts(t))
        /\ \A c \in Children : WF_vars(HelperStep(t, c))

FairSpec == Spec /\ Fairness

-----------------------------------------------------------------------------
(* Properties.                                                                *)

Places == {"idle", "round", "find", "lock", "look", "test", "count", "create", "answer",
           "sleep", "end", "drain"}
HelperPlaces == {"none", "wait", "check", "cas", "claim", "giveBack", "publish", "settle",
                 "leave"}
Pids == 0 .. Last + 2

TypeOK ==
    /\ exited \subseteq Children /\ waitable \subseteq Children
    /\ lock \subseteq Waiters /\ Cardinality(lock) <= 1
    /\ at \in [Waiters -> Places] /\ phase \in [Waiters -> {"pid", "poll", "pool"}]
    /\ node \in [Waiters -> Stranger .. Any] /\ alerted \in [Waiters -> BOOLEAN]
    /\ count \in [Waiters -> 0 .. Last]
    /\ status \in [Waiters -> {"pending", "more", "success"}]
    /\ pid \in [Waiters -> Pids]
    /\ event \in [Waiters -> BOOLEAN]
    /\ helper \in [Waiters -> [Children -> HelperPlaces]]
    /\ alerting \in [Waiters -> Nat] /\ alert \in [Waiters -> BOOLEAN]
    /\ calls \in [Waiters -> Nat]
    /\ result \in [Waiters -> [pid : Pids, slept : BOOLEAN]]
    /\ taken \in [Waiters -> SUBSET Children] /\ reports \in [Children -> Nat]

(* The number a thread spins on and sleeps on is the number of its helpers,   *)
(* those about to be created included: no call returns, and no next call sets *)
(* the words up again, while a helper of a sleep may write to them.           *)
CountExact ==
    \A t \in Waiters :
        count[t] = Cardinality({c \in Children : helper[t][c] # "none"})
                   + IF at[t] = "create" THEN 1 ELSE 0

(* A call that slept and reports a child reports one that has exited and that *)
(* nobody can wait for any more, however the helpers and an interruption meet.*)
SleptReportsTheDead ==
    \A t \in Waiters :
        result[t].slept /\ result[t].pid \in Children =>
            result[t].pid \in exited \ waitable

(* No child is reported by two calls that slept.                              *)
SleptReportsOnce == \A c \in Children : reports[c] <= 1

(* The helpers of a call are counted at every step, whichever of them leave   *)
(* while others start (_wait.c:141, 165).                                     *)
HelpersCounted == TypeOK /\ CountExact

(* What the calls that slept report is the exit of that child, to one of them.*)
SleptReports == SleptReportsTheDead /\ SleptReportsOnce

(* A child that a helper has taken for a thread is what the call of that      *)
(* thread returns, whatever ended its sleep: it is not lost.                  *)
NoChildLost == \A t \in Waiters : at[t] = "idle" => taken[t] \subseteq {result[t].pid}

(* A call that has returned, or sleeps without a helper; and the pid lock in  *)
(* the hands of a thread whose last call looked for a stranger.               *)
Returned(t) == at[t] = "idle" \/ (at[t] = "sleep" /\ count[t] = 0)
LockKept == \E t \in lock : at[t] = "idle"

(* A thread that sleeps on its helpers is woken once the children have        *)
(* exited, also when another thread takes every one of them.                  *)
SleeperWakes(t) == exited = Children /\ at[t] = "sleep" /\ count[t] > 0 ~> at[t] # "sleep"
============================================================================
