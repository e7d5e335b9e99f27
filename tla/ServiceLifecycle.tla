-------------------------- MODULE ServiceLifecycle --------------------------
(***************************************************************************)
(* createService (bootstrap/src/service.ts): resources started in order    *)
(* and stopped in reverse within one deadline, signals, and health probes. *)
(* Resources are the numbers of their registration.  What a resource's     *)
(* start and stop do is up to it: a start settles one way or the other, a  *)
(* stop may also hang.                                                     *)
(*                                                                         *)
(* A stretch of the code without an await, with the microtasks that run    *)
(* before the next event, is one step.  Timers count down with Tick, and   *)
(* the event loop is responsive: time does not pass while a timer is due.  *)
(*                                                                         *)
(* A definition marked "Faulty" is not the code: it is a plausible mistake *)
(* in the definition that follows, which some property must catch.         *)
(***************************************************************************)
EXTENDS Integers

CONSTANTS
  N,                \* how many resources there are to register
  StopOrder,        \* stopOrder of each
  Timeout,          \* shutdownTimeoutMs
  Drain,            \* drainDelayMs
  Reentrant         \* may a resource's start call shutdown, synchronously?

Resources == 1 .. N

ASSUME NAssumption == N \in Nat
ASSUME StopOrderAssumption == StopOrder \in [Resources -> Int]
ASSUME TimesAssumption == Timeout \in Nat \ {0} /\ Drain \in Nat
ASSUME ReentrantAssumption == Reentrant \in BOOLEAN

VARIABLES
  state,       \* the service's state
  registered,  \* the resources are those up to this number
  resource,    \* what has become of each
  listening,   \* are the signal handlers installed?
  queue,       \* the resources stopAll still has to see stopped
  budget,      \* what is left of its deadline
  failed,      \* the resources whose stop threw
  pending,     \* the resources the deadline left behind
  shutdown,    \* where the shutdown promise is
  drainLeft,   \* what is left of the drain delay
  elapsed,     \* time since shutdown was called
  calledIn,    \* history: the state it was called in
  bySignal,    \* was it called by a signal?
  ok,          \* its result
  exitCode,    \* what exit was called with
  probe,       \* is an evaluation of each probe in flight?
  answer       \* what each probe last answered

stopVars == << queue, budget, failed, pending >>
shutdownVars == << shutdown, drainLeft, elapsed, calledIn, bySignal, ok, exitCode >>
probeVars == << probe, answer >>
vars == << state, registered, resource, listening, stopVars, shutdownVars, probeVars >>

ServiceState == {"idle", "starting", "running", "stopping", "stopped", "failed"}

\* down: not started, or its start threw.  stuck: its stop threw.
ResourceState == {"down", "starting", "up", "stopping", "stopped", "stuck", "abandoned"}

Probes == {"liveness", "readiness"}

\* Bound: elapsed is not counted further than any comparison needs.
LongEnough == Timeout + Drain + 1

SmallerOf(a, b) == IF a <= b THEN a ELSE b

Init ==
  /\ state = "idle"
  /\ registered = 0
  /\ resource = [r \in Resources |-> "down"]
  /\ listening = FALSE
  /\ queue = {} /\ budget = 0 /\ failed = {} /\ pending = {}
  /\ shutdown = "none"
  /\ drainLeft = 0 /\ elapsed = 0 /\ calledIn = "idle"
  /\ bySignal = FALSE /\ ok = FALSE /\ exitCode = "none"
  /\ probe = [p \in Probes |-> FALSE]
  /\ answer = [p \in Probes |-> "none"]

-----------------------------------------------------------------------------
(* stopAll.                                                                *)

\* Faulty: registration order.
StopsInStartOrder(a, b) ==
  StopOrder[a] < StopOrder[b] \/ (StopOrder[a] = StopOrder[b] /\ a < b)

\* The sort: a is stopped before b.
StopsBefore(a, b) ==
  StopOrder[a] < StopOrder[b] \/ (StopOrder[a] = StopOrder[b] /\ a > b)

\* The ones of a list whose stop is called next: one, if there is any.
First(list) == {r \in list : \A s \in list \ {r} : StopsBefore(r, s)}

\* Entering stopAll with list, when resources are as in was: the first stop
\* is called, unless the budget is gone or there is nothing to stop.
StopAll(list, allowance, was) ==
  /\ failed' = {}
  /\ budget' = allowance
  /\ IF allowance <= 0
       THEN queue' = {} /\ pending' = list /\ resource' = was
       ELSE /\ queue' = list
            /\ pending' = {}
            /\ resource' = [r \in Resources |->
                             IF r \in First(list) THEN "stopping" ELSE was[r]]

\* The stop under way came to outcome, and the next one is called.
Advance(outcome) ==
  LET done == First(queue)
      rest == queue \ done
  IN /\ queue' = rest
     /\ resource' = [r \in Resources |->
                      IF r \in done THEN outcome
                      ELSE IF r \in First(rest) THEN "stopping"
                      ELSE resource[r]]
     /\ failed' = IF outcome = "stuck" THEN failed \cup done ELSE failed
     /\ UNCHANGED << budget, pending >>

\* Faulty: the slice leaves out the resource that is being stopped.
LeaveBehindRest == pending' = queue \ First(queue)

LeaveBehind == pending' = queue

\* The deadline passes: what is stopping is abandoned, the rest not reached.
Abandon ==
  /\ LeaveBehind
  /\ resource' = [r \in Resources |->
                    IF r \in First(queue) THEN "abandoned" ELSE resource[r]]
  /\ queue' = {}
  /\ UNCHANGED << budget, failed >>

-----------------------------------------------------------------------------
(* Registration and start.                                                 *)

AddResource ==
  /\ state = "idle"
  /\ registered < N
  /\ registered' = registered + 1
  /\ UNCHANGED << state, resource, listening, stopVars, shutdownVars, probeVars >>

Registered == 1 .. registered

Starting == {r \in Registered : resource[r] = "starting"}

\* start calls the first resource's start before it returns its promise; a
\* shutdown called from in there has no startPromise to wait for.
Start ==
  /\ state = "idle"
  /\ IF registered = 0
       THEN state' = "running" /\ UNCHANGED resource
       ELSE state' = "starting" /\ resource' = [resource EXCEPT ![1] = "starting"]
  /\ \/ /\ listening' = TRUE
        /\ UNCHANGED shutdownVars
     \/ /\ Reentrant /\ registered > 0 /\ shutdown = "none"
        /\ listening' = FALSE
        /\ shutdown' = "returned" /\ ok' = TRUE /\ calledIn' = "starting"
        /\ UNCHANGED << drainLeft, elapsed, bySignal, exitCode >>
  /\ UNCHANGED << registered, stopVars, probeVars >>

StartResolves(r) ==
  /\ r \in Starting
  /\ resource' = [s \in Resources |->
                   IF s = r THEN "up"
                   ELSE IF s = r + 1 /\ s \in Registered THEN "starting"
                   ELSE resource[s]]
  /\ state' = IF r = registered THEN "running" ELSE state
  /\ UNCHANGED << registered, listening, stopVars, shutdownVars, probeVars >>

\* Faulty: everything registered is stopped.
StartedAll == Registered

Started == {r \in Registered : resource[r] = "up"}

\* Those that had started are stopped again, with a deadline of their own.
StartThrows(r) ==
  /\ r \in Starting
  /\ StopAll(Started, Timeout, [resource EXCEPT ![r] = "down"])
  /\ IF Started = {}
       THEN state' = "failed" /\ listening' = FALSE
       ELSE UNCHANGED << state, listening >>
  /\ UNCHANGED << registered, shutdownVars, probeVars >>

\* The end of a start that failed.
GiveUp == state' = "failed" /\ listening' = FALSE

-----------------------------------------------------------------------------
(* shutdown.                                                               *)

\* Faulty: whatever did not overrun was clean.
CleanUnlessLate(threw, left) == left = {}

Clean(threw, left) == threw = {} /\ left = {}

\* Settling the promise with the outcome of stopAll.
Finish(threw, left) ==
  /\ state' = "stopped"
  /\ listening' = FALSE
  /\ shutdown' = "returned"
  /\ ok' = Clean(threw, left)
  /\ UNCHANGED << elapsed, drainLeft, calledIn, bySignal, exitCode >>

\* Faulty: a deadline of its own.
RemainingInFull == Timeout

Remaining == Timeout - elapsed

\* After the drain: stopAll, which may be over at once.
StopEverything ==
  /\ StopAll(Registered, Remaining, resource)
  /\ IF Remaining <= 0 \/ registered = 0
       THEN Finish({}, pending')
       ELSE /\ state' = "stopping"
            /\ shutdown' = "stopping"
            /\ UNCHANGED << listening, elapsed, drainLeft, calledIn, bySignal, ok, exitCode >>

\* From running: readiness fails from here on, the drain delay begins.
BeginDrain ==
  /\ state' = "stopping"
  /\ shutdown' = "draining"
  /\ drainLeft' = SmallerOf(Drain, Timeout)

\* Nothing is running: never started, or startup failed and cleaned up.
NothingRunning ==
  /\ shutdown' = "returned"
  /\ ok' = (state # "failed")
  /\ state' = IF state = "idle" THEN "stopped" ELSE state
  /\ listening' = FALSE

Shutdown(signalled) ==
  /\ shutdown = "none"
  /\ calledIn' = state
  /\ bySignal' = signalled
  /\ \/ /\ state = "starting"
        /\ shutdown' = "waiting"
        /\ UNCHANGED << state, listening, drainLeft, ok >>
     \/ /\ state = "running"
        /\ BeginDrain
        /\ UNCHANGED << listening, ok >>
     \/ /\ state \in {"idle", "failed"}
        /\ NothingRunning
        /\ UNCHANGED drainLeft
  /\ UNCHANGED << registered, resource, stopVars, elapsed, exitCode, probeVars >>

\* service.shutdown(): every later call is given the same promise.
CallShutdown == Shutdown(FALSE)

\* onSignal: while a shutdown is under way a signal is ignored.
Signal == listening /\ Shutdown(TRUE)

\* startPromise has settled, for a shutdown called during starting.
StartAwaited ==
  /\ shutdown = "waiting"
  /\ \/ state = "running" /\ BeginDrain /\ UNCHANGED << listening, ok >>
     \/ state = "failed" /\ NothingRunning /\ UNCHANGED drainLeft
  /\ UNCHANGED << registered, resource, stopVars, elapsed, calledIn, bySignal,
                  exitCode, probeVars >>

DrainEnds ==
  /\ shutdown = "draining"
  /\ drainLeft = 0
  /\ StopEverything
  /\ UNCHANGED << registered, probeVars >>

\* stopAll returned to the one who called it.
Stopped ==
  IF shutdown = "stopping"
    THEN Finish(failed', pending')
    ELSE GiveUp /\ UNCHANGED shutdownVars

StopSettles ==
  /\ queue # {}
  /\ \E outcome \in {"stopped", "stuck"} : Advance(outcome)
  /\ IF queue \ First(queue) = {} THEN Stopped
     ELSE UNCHANGED << state, listening, shutdownVars >>
  /\ UNCHANGED << registered, probeVars >>

\* Faulty: the deadline aborts the signal, and nobody looks at it.
DeadlineOnlyAborts ==
  /\ queue # {}
  /\ budget <= 0
  /\ UNCHANGED vars

DeadlinePasses ==
  /\ queue # {}
  /\ budget <= 0
  /\ Abandon
  /\ Stopped
  /\ UNCHANGED << registered, probeVars >>

\* Only a shutdown that a signal began ends the process (exit is process.exit
\* by default).
Exit ==
  /\ shutdown = "returned" /\ bySignal /\ exitCode = "none"
  /\ exitCode' = IF ok THEN "0" ELSE "1"
  /\ UNCHANGED << state, registered, resource, listening, stopVars, shutdown, drainLeft,
                  elapsed, calledIn, bySignal, ok, probeVars >>

-----------------------------------------------------------------------------
(* checkLiveness and checkReadiness.                                       *)

\* The states in which the state alone decides the answer.
FailsAtOnce(p) == IF p = "liveness" THEN state = "failed" ELSE state # "running"

\* A probe that finds none in flight starts an evaluation; one that does
\* shares it, and changes nothing.
Ask(p) ==
  /\ ~ probe[p]
  /\ probe' = [probe EXCEPT ![p] = ~ FailsAtOnce(p)]
  /\ answer' = [answer EXCEPT ![p] = IF FailsAtOnce(p) THEN "fail" ELSE "none"]
  /\ UNCHANGED << state, registered, resource, listening, stopVars, shutdownVars >>

\* Faulty: readiness is judged by the state the probe arrived in.
VerdictOnArrival(p, folded) == folded

\* runChecks folds the checks' results; a readiness answer is then judged
\* again by the state of now.
Verdict(p, folded) == IF p = "readiness" /\ FailsAtOnce(p) THEN "fail" ELSE folded

ChecksEnd(p) ==
  /\ probe[p]
  /\ probe' = [probe EXCEPT ![p] = FALSE]
  /\ \E folded \in {"pass", "warn", "fail"} :
       answer' = [answer EXCEPT ![p] = Verdict(p, folded)]
  /\ UNCHANGED << state, registered, resource, listening, stopVars, shutdownVars >>

-----------------------------------------------------------------------------
TimerDue ==
  \/ queue # {} /\ budget <= 0
  \/ shutdown = "draining" /\ drainLeft = 0
  \/ shutdown = "waiting" /\ state \in {"running", "failed"}

Decrement(n) == IF n > 0 THEN n - 1 ELSE n

Tick ==
  /\ ~ TimerDue
  /\ queue # {} \/ shutdown \in {"waiting", "draining", "stopping"}
  /\ budget' = IF queue # {} THEN Decrement(budget) ELSE budget
  /\ drainLeft' = Decrement(drainLeft)
  /\ elapsed' = IF shutdown \in {"waiting", "draining", "stopping"}
                  THEN SmallerOf(elapsed + 1, LongEnough) ELSE elapsed
  /\ UNCHANGED << state, registered, resource, listening, queue, failed, pending,
                  shutdown, calledIn, bySignal, ok, exitCode, probeVars >>

Alive == exitCode = "none"

\* Nothing more has to happen.
Rest ==
  /\ ~ Alive \/ shutdown = "returned"
  /\ UNCHANGED vars

Next ==
  \/ /\ Alive
     /\ \/ AddResource \/ Start \/ CallShutdown \/ Signal
        \/ \E r \in Resources : StartResolves(r) \/ StartThrows(r)
        \/ StartAwaited \/ DrainEnds \/ StopSettles \/ DeadlinePasses \/ Exit
        \/ \E p \in Probes : Ask(p) \/ ChecksEnd(p)
        \/ Tick
  \/ Rest

Spec == Init /\ [][Next]_vars

\* Timers fire and continuations run; a resource's start settles, which is
\* the resource's obligation.  Nothing is assumed of a stop.
Fairness ==
  /\ \A r \in Resources : WF_vars(Alive /\ (StartResolves(r) \/ StartThrows(r)))
  /\ WF_vars(Alive /\ (StartAwaited \/ DrainEnds \/ DeadlinePasses \/ Exit))
  /\ WF_vars(Alive /\ Tick)
  /\ \A p \in Probes : WF_vars(Alive /\ ChecksEnd(p))

FairSpec == Spec /\ Fairness
=============================================================================
