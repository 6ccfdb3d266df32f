------------------------------- MODULE Alarms -------------------------------
(* An interval timer, from setitimer to the signal handler.  A call is a      *)
(* message to the daemon, which replaces the timer's thread by a new one      *)
(* (daemon/signal/psx_daemon_setitimer.c).  That thread arms an NT timer and  *)
(* sends the daemon a message each time it expires (internal/psx_timer.c).    *)
(* The daemon interrupts the program, which runs the handler and goes on      *)
(* where it was (daemon/signal/psx_daemon_sig{send,deliver}.c).               *)
(* The instance of the timer tells a new thread from those it replaces.       *)
(* Two history variables record what the code leaves to luck: that the        *)
(* instance was used while a timer thread had it one less (crossed), and that *)
(* a signal came before the trampoline of the last one had begun (early).     *)
EXTENDS Integers, Sequences

CONSTANTS
    MaxSets,        \* bound: calls of setitimer
    MaxExpiries,    \* bound: expiries of a periodic timer
    Discipline      \* {"sound"}: no NT call fails in a delivery; {}: any may

Gens == 1 .. MaxSets            \* the k-th timer thread
None == 0
Modes == {"off", "once", "every"}

VARIABLES
    client,     \* "idle", "waiting": the caller of setitimer
    port,       \* messages the daemon has not received
    daemon,     \* [at, mode]: what the daemon is doing, with which new value
    instance,   \* timer->instance
    handle,     \* timer->hthread, the generation it is a handle of
    thr,        \* thr[g]: the timer thread and its struct __timer_ctx
    kill,       \* timer threads with the terminating APC queued
    native,     \* the NT timer: whose it is, whether it expired, APC queued
    expiries,   \* expiries[g] so far
    latest,     \* history: the last setitimer that has been handled
    alarms,     \* history: alarms[g], the signals delivered for a generation
    cur,        \* what the program executes: [at, home, uctx]
    stack,      \* contexts saved on the program's stack
    sigctx,     \* tlca->sig_ucontext
    apcs,       \* signal APCs queued to the program
    suspended,  \* a delivery failed half-way
    crossed,    \* history: the instance was used while a timer thread was arming
    early       \* history: a delivery came before the last trampoline began

timerV == <<instance, handle, thr, kill, native, expiries, latest, crossed>>
programV == <<cur, stack, sigctx, apcs, suspended, early>>
vars == <<client, port, daemon, timerV, alarms, programV>>

User == [at |-> "user", home |-> 0, uctx |-> None]
MaxDepth == MaxSets * MaxExpiries
Depths == 1 .. MaxDepth

Init ==
    /\ client = "idle" /\ port = <<>>
    /\ daemon = [at |-> "receive", mode |-> "off"]
    /\ instance = 1 /\ handle = None
    /\ thr = [g \in Gens |-> [at |-> "none", ti |-> 0, mode |-> "off"]]
    /\ kill = {}
    /\ native = [gen |-> None, due |-> FALSE, apc |-> FALSE]
    /\ expiries = [g \in Gens |-> 0]
    /\ latest = None
    /\ alarms = [g \in Gens |-> 0]
    /\ cur = User /\ stack = [d \in Depths |-> User]
    /\ sigctx = None /\ apcs = 0 /\ suspended = FALSE
    /\ crossed = FALSE /\ early = FALSE

-----------------------------------------------------------------------------
(* The timer thread: __psx_timer_routine.                                     *)

Move(g, l) == thr' = [thr EXCEPT ![g].at = l]

(* A use of the instance, which another timer thread may have one less.       *)
Arming == \E g \in Gens : thr[g].at \in {"arm", "restore"}
UseInstance == crossed' = (crossed \/ Arming)

(* A timer that is switched off needs no thread.                              *)
Start(g) ==
    /\ thr[g].at = "start"
    /\ Move(g, IF thr[g].mode = "off" THEN "done" ELSE "claim")
    /\ UNCHANGED <<client, port, daemon, instance, handle, kill, native, expiries,
                   latest, crossed, alarms, programV>>

(* The instance is one less while the thread arms its timer.                  *)
Claim(g) ==
    /\ thr[g].at = "claim" /\ UseInstance
    /\ IF instance = thr[g].ti
       THEN instance' = instance - 1 /\ Move(g, "arm")
       ELSE Move(g, "done") /\ UNCHANGED instance
    /\ UNCHANGED <<client, port, daemon, handle, kill, native, expiries, latest,
                   alarms, programV>>

Arm(g) ==
    /\ thr[g].at = "arm"
    /\ native' = [gen |-> g, due |-> FALSE, apc |-> FALSE]
    /\ Move(g, "restore")
    /\ UNCHANGED <<client, port, daemon, instance, handle, kill, expiries, latest,
                   crossed, alarms, programV>>

(* Mutant: the instance stays one less.                                       *)
RestoreForgotten(g) ==
    /\ thr[g].at = "restore"
    /\ Move(g, "wait")
    /\ UNCHANGED <<client, port, daemon, instance, handle, kill, native, expiries,
                   latest, crossed, alarms, programV>>

Restore(g) ==
    /\ thr[g].at = "restore"
    /\ instance' = instance + 1
    /\ Move(g, "wait")
    /\ UNCHANGED <<client, port, daemon, handle, kill, native, expiries, latest,
                   crossed, alarms, programV>>

(* The wait for the timer is alertable: it ends with the timer or an APC.     *)
WaitEnds(g) ==
    /\ thr[g].at = "wait" /\ native.gen = g /\ native.due
    /\ Move(g, "delay")
    /\ UNCHANGED <<client, port, daemon, instance, handle, kill, native, expiries,
                   latest, crossed, alarms, programV>>

(* Mutant: a timer that is due once is armed again.                           *)
NextRoundAlways(g) == "claim"

(* The value is used up, the interval is left.                                *)
NextRound(g) == IF thr[g].mode = "every" THEN "claim" ELSE "done"

(* The delay lets a queued APC run, else it lasts one more interval.          *)
DelayEnds(g) ==
    /\ thr[g].at = "delay" /\ ~ (native.gen = g /\ native.apc) /\ g \notin kill
    /\ Move(g, NextRound(g))
    /\ UNCHANGED <<client, port, daemon, instance, handle, kill, native, expiries,
                   latest, crossed, alarms, programV>>

(* __psx_timer_apc: an old timer keeps silent.                                *)
TimerApc(g) ==
    /\ thr[g].at \in {"wait", "delay"} /\ native.gen = g /\ native.apc
    /\ native' = [native EXCEPT !.apc = FALSE]
    /\ LET after == IF thr[g].at = "wait" THEN "delay" ELSE NextRound(g) IN
       thr' = [thr EXCEPT ![g].at = IF thr[g].ti # instance THEN after
                                    ELSE IF after = "delay" THEN "post"
                                    ELSE "postLate"]
    /\ UNCHANGED <<client, port, daemon, instance, handle, kill, expiries, latest,
                   crossed, alarms, programV>>

Post(g) ==
    /\ thr[g].at \in {"post", "postLate"}
    /\ port' = Append(port, [kind |-> "alarm", gen |-> g, ti |-> thr[g].ti, mode |-> "off"])
    /\ Move(g, IF thr[g].at = "post" THEN "delay" ELSE NextRound(g))
    /\ UNCHANGED <<client, daemon, instance, handle, kill, native, expiries, latest,
                   crossed, alarms, programV>>

(* The other APC: __psx_terminate_internal_thread.                            *)
Killed(g) ==
    /\ thr[g].at \in {"wait", "delay"} /\ g \in kill
    /\ Move(g, "done")
    /\ UNCHANGED <<client, port, daemon, instance, handle, kill, native, expiries,
                   latest, crossed, alarms, programV>>

(* NT: an armed timer expires, is signalled and queues its APC.               *)
Expire ==
    /\ native.gen # None /\ ~ native.due
    /\ expiries[native.gen] < MaxExpiries
    /\ native' = [native EXCEPT !.due = TRUE, !.apc = TRUE]
    /\ expiries' = [expiries EXCEPT ![native.gen] = @ + 1]
    /\ UNCHANGED <<client, port, daemon, instance, handle, thr, kill, latest, crossed,
                   alarms, programV>>

-----------------------------------------------------------------------------
(* __sys_setitimer sends its message and waits for the reply.                 *)
SetItimer(m) ==
    /\ client = "idle"
    /\ latest < MaxSets
    /\ client' = "waiting"
    /\ port' = Append(port, [kind |-> "set", gen |-> None, ti |-> 0, mode |-> m])
    /\ UNCHANGED <<daemon, timerV, alarms, programV>>

(* __psx_daemon_loop takes the messages one by one.  __psx_daemon_setitimer:  *)
(* a new instance; then the old thread is told to end and its timer stopped;  *)
(* then the instance is read again for the thread that takes over.            *)
DaemonSet ==
    /\ daemon.at = "receive" /\ port # <<>> /\ Head(port).kind = "set"
    /\ UseInstance
    /\ port' = Tail(port)
    /\ instance' = instance + 1
    /\ daemon' = [at |-> IF handle = None THEN "create" ELSE "kill",
                  mode |-> Head(port).mode]
    /\ UNCHANGED <<client, handle, thr, kill, native, expiries, latest, alarms, programV>>

DaemonKill ==
    /\ daemon.at = "kill"
    /\ kill' = kill \cup {handle}
    /\ daemon' = [daemon EXCEPT !.at = "cancel"]
    /\ UNCHANGED <<client, port, instance, handle, thr, native, expiries, latest, crossed,
                   alarms, programV>>

(* Cancelling a timer takes its APC back.                                     *)
DaemonCancel ==
    /\ daemon.at = "cancel"
    /\ native' = [gen |-> None, due |-> FALSE, apc |-> FALSE]
    /\ daemon' = [daemon EXCEPT !.at = "create"]
    /\ UNCHANGED <<client, port, instance, handle, thr, kill, expiries, latest, crossed,
                   alarms, programV>>

(* The reply ends the call.  Without a thread it fails, and the handle is the *)
(* closed one of the old thread.                                              *)
DaemonCreate ==
    /\ daemon.at = "create"
    /\ latest' = latest + 1
    /\ \/ /\ thr' = [thr EXCEPT ![latest + 1] =
                       [at |-> "start", ti |-> instance, mode |-> daemon.mode]]
          /\ handle' = latest + 1
       \/ UNCHANGED <<thr, handle>>
    /\ client' = "idle"
    /\ daemon' = [at |-> "receive", mode |-> "off"]
    /\ UNCHANGED <<port, instance, kill, native, expiries, crossed, alarms, programV>>

-----------------------------------------------------------------------------
(* __psx_daemon_sigdeliver: the program is suspended, its context is saved on *)
(* its stack, the APC of the handler is queued, and it resumes in the         *)
(* trampoline.  What fails after the suspension leaves it suspended.          *)
Deliver ==
    LET d == cur.home + 1 IN
    \/ /\ stack' = [stack EXCEPT ![d] = cur]
       /\ cur' = [at |-> "entry", home |-> d, uctx |-> None]
       /\ sigctx' = d
       /\ apcs' = apcs + 1
       /\ early' = (early \/ cur.at = "entry")
       /\ UNCHANGED suspended
    \/ "sound" \notin Discipline /\ UNCHANGED programV       \* no page, no suspension
    \/ "sound" \notin Discipline /\ suspended' = TRUE
       /\ \/ UNCHANGED <<cur, stack, sigctx, apcs, early>>
          \/ /\ stack' = [stack EXCEPT ![d] = cur] /\ sigctx' = d
             /\ apcs' \in {apcs, apcs + 1}
             /\ UNCHANGED <<cur, early>>

(* Mutant: the daemon trusts the timer thread.                                *)
DaemonAlarmUnchecked ==
    /\ daemon.at = "receive" /\ port # <<>> /\ Head(port).kind = "alarm"
    /\ UseInstance
    /\ port' = Tail(port)
    /\ alarms' = [alarms EXCEPT ![Head(port).gen] = @ + 1] /\ Deliver
    /\ UNCHANGED <<client, daemon, instance, handle, thr, kill, native, expiries, latest>>

(* __psx_daemon_sigsend delivers the alarms of the timer that was set last.   *)
(* That of an older one it cancels, but leaves the key of the message: the    *)
(* loop replies to what was no request, the call that should reply and receive*)
(* fails, and the daemon ends.                                                *)
DaemonAlarm ==
    /\ daemon.at = "receive" /\ port # <<>> /\ Head(port).kind = "alarm"
    /\ UseInstance
    /\ port' = Tail(port)
    /\ \/ /\ Head(port).ti = instance
          /\ alarms' = [alarms EXCEPT ![Head(port).gen] = @ + 1] /\ Deliver
          /\ UNCHANGED daemon
       \/ /\ Head(port).ti # instance
          /\ daemon' = [daemon EXCEPT !.at = "ended"]
          /\ UNCHANGED <<alarms, programV>>
    /\ UNCHANGED <<client, instance, handle, thr, kill, native, expiries, latest>>

(* The trampoline __do_the_thing: it reads where the interrupted context is,  *)
(* waits for no time so that the queued APCs run, and continues there.        *)
Running(l) == ~ suspended /\ cur.at = l

Entry ==
    /\ Running("entry")
    /\ cur' = [cur EXCEPT !.at = "delay", !.uctx = sigctx]
    /\ UNCHANGED <<client, port, daemon, timerV, alarms, stack, sigctx, apcs, suspended, early>>

(* __psx_signal_apc calls the handler.                                        *)
Handle ==
    /\ Running("delay") \/ Running("handler")
    /\ apcs > 0
    /\ apcs' = apcs - 1
    /\ cur' = [cur EXCEPT !.at = "handler"]
    /\ UNCHANGED <<client, port, daemon, timerV, alarms, stack, sigctx, suspended, early>>

(* Mutant: where to go back to is read again after the delay.                 *)
DelayOverReads ==
    /\ Running("delay") \/ Running("handler")
    /\ apcs = 0
    /\ cur' = [cur EXCEPT !.at = "continue", !.uctx = sigctx]
    /\ UNCHANGED <<client, port, daemon, timerV, alarms, stack, sigctx, apcs, suspended, early>>

DelayOver ==
    /\ Running("delay") \/ Running("handler")
    /\ apcs = 0
    /\ cur' = [cur EXCEPT !.at = "continue"]
    /\ UNCHANGED <<client, port, daemon, timerV, alarms, stack, sigctx, apcs, suspended, early>>

(* Mutant: the context is that of the last delivery, not of this one.         *)
ContinueLast ==
    /\ Running("continue")
    /\ cur' = stack[sigctx]
    /\ UNCHANGED <<client, port, daemon, timerV, alarms, stack, sigctx, apcs, suspended, early>>

Continue ==
    /\ Running("continue")
    /\ cur' = stack[cur.uctx]
    /\ UNCHANGED <<client, port, daemon, timerV, alarms, stack, sigctx, apcs, suspended, early>>

-----------------------------------------------------------------------------
TimerStep(g) ==
    \/ Start(g) \/ Claim(g) \/ Arm(g) \/ Restore(g) \/ WaitEnds(g) \/ DelayEnds(g)
    \/ TimerApc(g) \/ Post(g) \/ Killed(g)
Daemon == DaemonSet \/ DaemonKill \/ DaemonCancel \/ DaemonCreate \/ DaemonAlarm
Program == Entry \/ Handle \/ DelayOver \/ Continue

Next ==
    \/ \E m \in Modes : SetItimer(m)
    \/ \E g \in Gens : TimerStep(g)
    \/ Expire \/ Daemon \/ Program

Spec == Init /\ [][Next]_vars

(* NT schedules the timer threads, the daemon and the program, and time goes  *)
(* on.                                                                        *)
Fairness ==
    /\ \A g \in Gens : WF_vars(TimerStep(g))
    /\ WF_vars(Expire) /\ WF_vars(Daemon) /\ WF_vars(Program)

FairSpec == Spec /\ Fairness

-----------------------------------------------------------------------------
(* Properties.                                                                *)

ThreadPlaces == {"none", "start", "claim", "arm", "restore", "wait", "delay", "post",
                 "postLate", "done"}
Contexts == [at : {"user", "entry", "delay", "handler", "continue"},
             home : 0 .. MaxDepth, uctx : 0 .. MaxDepth]

TypeOK ==
    /\ client \in {"idle", "waiting"}
    /\ \A i \in DOMAIN port : port[i].kind \in {"set", "alarm"}
    /\ daemon \in [at : {"receive", "kill", "cancel", "create", "ended"}, mode : Modes]
    /\ instance \in Int /\ handle \in 0 .. MaxSets /\ latest \in 0 .. MaxSets
    /\ thr \in [Gens -> [at : ThreadPlaces, ti : Int, mode : Modes]]
    /\ kill \subseteq Gens
    /\ native \in [gen : 0 .. MaxSets, due : BOOLEAN, apc : BOOLEAN]
    /\ expiries \in [Gens -> 0 .. MaxExpiries] /\ alarms \in [Gens -> 0 .. MaxExpiries]
    /\ cur \in Contexts /\ stack \in [Depths -> Contexts]
    /\ sigctx \in 0 .. MaxDepth /\ apcs \in 0 .. MaxDepth /\ suspended \in BOOLEAN
    /\ crossed \in BOOLEAN /\ early \in BOOLEAN

(* An alarm reaches the program only from the timer that was set last,        *)
(* whatever an older timer still had under way (an APC that runs, a message   *)
(* behind others in the port), unless the instance was used while a timer     *)
(* thread was arming.                                                         *)
NoStaleAlarm ==
    [][\A g \in Gens : alarms'[g] # alarms[g] => g = latest \/ crossed']_vars

(* A timer without an interval signals once.                                  *)
OneShotOnce == \A g \in Gens : thr[g].mode # "every" => alarms[g] <= 1

(* A trampoline goes back to the context it interrupted, also when another    *)
(* signal interrupts it or the handler it runs, as long as none came before a *)
(* trampoline had read where its context is.                                  *)
GoesBackWhereItWas ==
    early \/ \A c \in {cur} \cup {stack[d] : d \in 1 .. cur.home} :
                c.at \in {"delay", "handler", "continue"} => c.uctx = c.home

(* A timer that is set with a value signals, unless it is set again, the      *)
(* instance was used while a timer thread was arming, or the daemon has ended.*)
Awaited == latest \in Gens /\ thr[latest].mode # "off" /\ alarms[latest] = 0
Answered == ~ Awaited \/ crossed \/ daemon.at = "ended"

(* The interrupted program goes on, with every handler run, unless a signal   *)
(* came too early or a delivery failed half-way.                              *)
Undisturbed == cur.at = "user" /\ apcs = 0
GoesOn == Undisturbed \/ early \/ suspended

(* Whoever waits for an alarm, or has been interrupted by one, comes to a     *)
(* moment when the alarm has come and the program runs.                       *)
AlarmsSettle == (Awaited \/ cur.at # "user") ~> (Answered /\ GoesOn)
=============================================================================
