----------------------- MODULE ServiceLifecycleProofs -----------------------
(***************************************************************************)
(* What holds of a service of any number of resources, with any stop       *)
(* orders, deadline and drain delay, whatever its resources do.  What has  *)
(* become of each resource is said by where the service is: on its way up  *)
(* (GoingUp), when it runs, while stopAll unwinds it (Unwinding), and at   *)
(* the end (Reported).  The deadline rests on one sum: what has gone by    *)
(* and what is left never exceed it (Within).                              *)
(***************************************************************************)
EXTENDS ServiceLifecycleProps, TLAPS

AllUp ==
  /\ \A r \in Registered : resource[r] = "up"
  /\ \A r \in Resources \ Registered : resource[r] = "down"

AllDown == \A r \in Resources : resource[r] = "down"

\* At most one resource is starting: those before it are up, those after it
\* have not been touched.
GoingUp ==
  /\ \A r \in Resources : resource[r] \in {"down", "starting", "up"}
  /\ \A r \in Resources \ Registered : resource[r] = "down"
  /\ \A r, s \in Resources :
       resource[r] = "starting" =>
         /\ s < r => resource[s] = "up"
         /\ s > r => resource[s] = "down"

\* stopAll is under way: the queue is what is still up, and the first of it
\* is being stopped.
Unwinding ==
  /\ pending = {} /\ failed \cap queue = {} /\ queue \subseteq Registered
  /\ \A r \in queue : resource[r] = IF r \in First(queue) THEN "stopping" ELSE "up"
  /\ \A r \in Resources \ queue : resource[r] \in {"down", "stopped", "stuck"}
  /\ failed = {r \in Resources : resource[r] = "stuck"}

\* A shutdown also accounts for every registered resource.
Accounted ==
  /\ \A r \in Registered : resource[r] # "down"
  /\ \A r \in Resources \ Registered : resource[r] = "down"

\* What a shutdown that had something to stop leaves behind.
Reported ==
  /\ failed = {r \in Registered : resource[r] = "stuck"}
  /\ pending = {r \in Registered : resource[r] \in {"up", "abandoned"}}
  /\ \A r \in Registered : resource[r] \in {"up", "abandoned", "stuck", "stopped"}
  /\ \A r \in Resources \ Registered : resource[r] = "down"
  /\ ok = (failed = {} /\ pending = {})

WhereItStands ==
  /\ queue # {} => state = "starting" \/ shutdown = "stopping"
  /\ state = "idle" => shutdown = "none" /\ AllDown
  /\ state = "starting" =>
       /\ shutdown \in {"none", "waiting"}
       /\ IF queue = {} THEN GoingUp ELSE Unwinding
  /\ state = "running" => shutdown \in {"none", "waiting"} /\ AllUp
  /\ state = "stopping" =>
       \/ shutdown = "draining" /\ AllUp
       \/ shutdown = "stopping" /\ queue # {} /\ Unwinding /\ Accounted
  /\ state = "stopped" =>
       /\ shutdown = "returned"
       /\ IF calledIn = "idle" THEN AllDown ELSE Reported
  /\ state = "failed" =>
       /\ shutdown \in {"none", "waiting", "returned"}
       /\ shutdown = "returned" => ~ok
       /\ \A r \in Resources : resource[r] \notin {"starting", "stopping"}
  /\ shutdown \in {"draining", "stopping"} => state = "stopping"
  /\ shutdown \in {"waiting", "draining", "stopping"} => calledIn # "idle"
  /\ shutdown = "returned" => state \in {"stopped", "failed"}

Within ==
  /\ shutdown = "none" => elapsed = 0
  /\ calledIn = "running" =>
       /\ shutdown \in {"draining", "stopping", "returned"}
       /\ shutdown = "draining" => elapsed + drainLeft <= Timeout
       /\ shutdown = "stopping" => 0 <= budget /\ elapsed + budget <= Timeout

IInv == TypeOK /\ WhereItStands /\ Within
-----------------------------------------------------------------------------
(* Types.                                                                  *)

LEMMA RegisteredAreResources ==
  ASSUME TypeOK
  PROVE  Registered \subseteq Resources /\ registered \in Nat /\ registered <= N
BY NAssumption DEF TypeOK, Registered, Resources

LEMMA StopAllTypes ==
  ASSUME NEW list \in SUBSET Resources, NEW allowance \in Int,
         NEW was \in [Resources -> ResourceState], StopAll(list, allowance, was)
  PROVE  /\ failed' = {} /\ budget' = allowance
         /\ queue' \subseteq list /\ pending' \subseteq list
         /\ resource' \in [Resources -> ResourceState]
<1>1. CASE allowance <= 0
  BY <1>1 DEF StopAll
<1>2. CASE ~(allowance <= 0)
  BY <1>2 DEF StopAll, ResourceState
<1> QED BY <1>1, <1>2

LEMMA AdvanceTypes ==
  ASSUME TypeOK, NEW outcome \in {"stopped", "stuck"}, Advance(outcome)
  PROVE  /\ queue' \subseteq queue /\ failed' \subseteq Resources
         /\ resource' \in [Resources -> ResourceState]
         /\ budget' = budget /\ pending' = pending
BY DEF TypeOK, Advance, First, ResourceState

LEMMA AbandonTypes ==
  ASSUME TypeOK, Abandon
  PROVE  /\ queue' = {} /\ pending' = queue /\ failed' = failed /\ budget' = budget
         /\ resource' \in [Resources -> ResourceState]
BY DEF TypeOK, Abandon, LeaveBehind, First, ResourceState

LEMMA StoppedTypes ==
  ASSUME TypeOK, Stopped
  PROVE  /\ state' \in ServiceState /\ listening' \in BOOLEAN
         /\ shutdown' \in {"none", "waiting", "draining", "stopping", "returned"}
         /\ ok' \in BOOLEAN
         /\ UNCHANGED << elapsed, drainLeft, calledIn, bySignal, exitCode >>
<1>1. CASE shutdown = "stopping"
  BY <1>1 DEF Stopped, Finish, Clean, ServiceState
<1>2. CASE shutdown # "stopping"
  BY <1>2 DEF Stopped, GiveUp, shutdownVars, TypeOK, ServiceState
<1> QED BY <1>1, <1>2

LEMMA DrainTypes ==
  ASSUME BeginDrain
  PROVE  /\ state' = "stopping" /\ shutdown' = "draining"
         /\ drainLeft' \in 0 .. Timeout
BY TimesAssumption DEF BeginDrain, SmallerOf

LEMMA NothingRunningTypes ==
  ASSUME TypeOK, NothingRunning
  PROVE  /\ state' = IF state = "idle" THEN "stopped" ELSE state
         /\ shutdown' = "returned" /\ listening' = FALSE
         /\ ok' \in BOOLEAN /\ (ok' <=> state # "failed")
BY DEF NothingRunning

LEMMA TypeInit == Init => TypeOK
<1> SUFFICES ASSUME Init PROVE TypeOK
  OBVIOUS
<1>1. /\ state \in ServiceState /\ registered \in 0 .. N /\ budget \in Int
      /\ resource \in [Resources -> ResourceState]
  BY NAssumption DEF Init, ServiceState, ResourceState
<1>2. drainLeft \in 0 .. Timeout /\ elapsed \in 0 .. LongEnough
  BY TimesAssumption DEF Init, LongEnough
<1>3. /\ probe \in [Probes -> BOOLEAN]
      /\ answer \in [Probes -> {"none", "pass", "warn", "fail"}]
  BY DEF Init
<1>4. calledIn \in ServiceState /\ ok \in BOOLEAN /\ bySignal \in BOOLEAN
  BY DEF Init, ServiceState
<1> QED BY <1>1, <1>2, <1>3, <1>4 DEF Init, TypeOK

LEMMA TypeStep == TypeOK /\ [Next]_vars => TypeOK'
<1> SUFFICES ASSUME TypeOK, [Next]_vars PROVE TypeOK'
  OBVIOUS
<1> USE NAssumption, TimesAssumption
<1>1. CASE AddResource
  BY <1>1 DEF AddResource, TypeOK, stopVars, shutdownVars, probeVars
<1>2. CASE Start
  <2>1. /\ state' \in ServiceState /\ resource' \in [Resources -> ResourceState]
        /\ UNCHANGED << registered, stopVars, probeVars >>
    BY <1>2 DEF Start, TypeOK, ServiceState, ResourceState
  <2>2. /\ listening' \in BOOLEAN /\ ok' \in BOOLEAN /\ calledIn' \in ServiceState
        /\ shutdown' \in {"none", "waiting", "draining", "stopping", "returned"}
        /\ UNCHANGED << drainLeft, elapsed, bySignal, exitCode >>
    BY <1>2 DEF Start, TypeOK, ServiceState, shutdownVars
  <2> QED BY <2>1, <2>2 DEF TypeOK, stopVars, probeVars
<1>3. CASE CallShutdown \/ Signal
  <2>1. PICK by \in BOOLEAN : Shutdown(by)
    BY <1>3 DEF CallShutdown, Signal
  <2>2. /\ calledIn' \in ServiceState /\ bySignal' \in BOOLEAN
        /\ UNCHANGED << registered, resource, stopVars, elapsed, exitCode, probeVars >>
    BY <2>1 DEF Shutdown, TypeOK
  <2>3. /\ state' \in ServiceState /\ listening' \in BOOLEAN /\ ok' \in BOOLEAN
        /\ drainLeft' \in 0 .. Timeout
        /\ shutdown' \in {"none", "waiting", "draining", "stopping", "returned"}
    BY <2>1, DrainTypes, NothingRunningTypes DEF Shutdown, TypeOK, ServiceState
  <2> QED BY <2>2, <2>3 DEF TypeOK, stopVars, probeVars
<1>4. ASSUME NEW r \in Resources, StartResolves(r) PROVE TypeOK'
  <2>1. state' \in ServiceState /\ resource' \in [Resources -> ResourceState]
    BY <1>4 DEF StartResolves, TypeOK, ServiceState, ResourceState
  <2> QED BY <1>4, <2>1 DEF StartResolves, TypeOK, stopVars, shutdownVars, probeVars
<1>5. ASSUME NEW r \in Resources, StartThrows(r) PROVE TypeOK'
  <2>1. Started \in SUBSET Resources /\ [resource EXCEPT ![r] = "down"] \in [Resources -> ResourceState]
    BY RegisteredAreResources DEF TypeOK, Started, ResourceState
  <2>2. /\ failed' = {} /\ budget' = Timeout
        /\ queue' \subseteq Started /\ pending' \subseteq Started
        /\ resource' \in [Resources -> ResourceState]
    <3>1. Timeout \in Int
      OBVIOUS
    <3> QED BY <1>5, <2>1, <3>1, StopAllTypes DEF StartThrows
  <2>3. state' \in ServiceState /\ listening' \in BOOLEAN
    BY <1>5 DEF StartThrows, TypeOK, ServiceState
  <2> QED BY <1>5, <2>1, <2>2, <2>3 DEF StartThrows, TypeOK, shutdownVars, probeVars
<1>6. CASE StartAwaited
  <2>1. UNCHANGED << registered, resource, stopVars, elapsed, calledIn, bySignal, exitCode, probeVars >>
    BY <1>6 DEF StartAwaited
  <2>2. /\ state' \in ServiceState /\ listening' \in BOOLEAN /\ ok' \in BOOLEAN
        /\ drainLeft' \in 0 .. Timeout
        /\ shutdown' \in {"none", "waiting", "draining", "stopping", "returned"}
    BY <1>6, DrainTypes, NothingRunningTypes DEF StartAwaited, TypeOK, ServiceState
  <2> QED BY <2>1, <2>2 DEF TypeOK, stopVars, probeVars
<1>7. CASE DrainEnds
  <2>1. Registered \in SUBSET Resources /\ Remaining \in Int /\ resource \in [Resources -> ResourceState]
    BY RegisteredAreResources DEF TypeOK, Remaining, LongEnough
  <2>2. /\ failed' = {} /\ budget' = Remaining
        /\ queue' \subseteq Registered /\ pending' \subseteq Registered
        /\ resource' \in [Resources -> ResourceState]
    BY <1>7, <2>1, StopAllTypes DEF DrainEnds, StopEverything
  <2>3. /\ state' \in ServiceState /\ listening' \in BOOLEAN /\ ok' \in BOOLEAN
        /\ shutdown' \in {"none", "waiting", "draining", "stopping", "returned"}
        /\ UNCHANGED << elapsed, drainLeft, calledIn, bySignal, exitCode >>
    BY <1>7 DEF DrainEnds, StopEverything, Finish, Clean, TypeOK, ServiceState
  <2> QED BY <1>7, <2>1, <2>2, <2>3 DEF DrainEnds, TypeOK, probeVars
<1>8. CASE StopSettles
  <2>1. PICK outcome \in {"stopped", "stuck"} : Advance(outcome)
    BY <1>8 DEF StopSettles
  <2>2. /\ state' \in ServiceState /\ listening' \in BOOLEAN
        /\ shutdown' \in {"none", "waiting", "draining", "stopping", "returned"}
        /\ ok' \in BOOLEAN
        /\ UNCHANGED << elapsed, drainLeft, calledIn, bySignal, exitCode >>
    BY <1>8, StoppedTypes DEF StopSettles, TypeOK, shutdownVars
  <2> QED BY <1>8, <2>1, <2>2, AdvanceTypes DEF StopSettles, TypeOK, probeVars
<1>9. CASE DeadlinePasses
  BY <1>9, AbandonTypes, StoppedTypes DEF DeadlinePasses, TypeOK, probeVars
<1>10. CASE Exit
  BY <1>10 DEF Exit, TypeOK, stopVars, probeVars
<1>11. ASSUME NEW p \in Probes, Ask(p) \/ ChecksEnd(p) PROVE TypeOK'
  <2>1. /\ probe' \in [Probes -> BOOLEAN]
        /\ answer' \in [Probes -> {"none", "pass", "warn", "fail"}]
    BY <1>11 DEF Ask, ChecksEnd, Verdict, FailsAtOnce, TypeOK
  <2>2. UNCHANGED << state, registered, resource, listening, stopVars, shutdownVars >>
    BY <1>11 DEF Ask, ChecksEnd
  <2> QED BY <2>1, <2>2 DEF TypeOK, stopVars, shutdownVars
<1>12. CASE Tick
  <2>1. budget' \in Int /\ drainLeft' \in 0 .. Timeout /\ elapsed' \in 0 .. LongEnough
    BY <1>12 DEF Tick, Decrement, SmallerOf, LongEnough, TypeOK
  <2> QED BY <1>12, <2>1 DEF Tick, TypeOK, probeVars
<1>13. CASE UNCHANGED vars
  BY <1>13 DEF vars, TypeOK, stopVars, shutdownVars, probeVars
<1> QED
  BY <1>1, <1>2, <1>3, <1>4, <1>5, <1>6, <1>7, <1>8, <1>9, <1>10, <1>11, <1>12, <1>13
     DEF Next, Rest

-----------------------------------------------------------------------------
(* stopAll.                                                                *)

(* It unwinds what it was given, or is over at once: nothing was up.       *)
LEMMA StopAllUnwinds ==
  ASSUME TypeOK, NEW list \in SUBSET Registered, NEW allowance \in Int,
         NEW was \in [Resources -> ResourceState],
         allowance > 0, StopAll(list, allowance, was), registered' = registered,
         \A r \in list : was[r] = "up",
         \A r \in Resources \ list : was[r] = "down"
  PROVE  /\ queue' = list /\ failed' = {} /\ pending' = {}
         /\ Unwinding'
         /\ \A r \in Resources :
              resource'[r] = IF r \in First(list) THEN "stopping" ELSE was[r]
<1>1. ~(allowance <= 0)
  OBVIOUS
<1>2. /\ queue' = list /\ failed' = {} /\ pending' = {}
      /\ \A r \in Resources : resource'[r] = IF r \in First(list) THEN "stopping" ELSE was[r]
  BY <1>1 DEF StopAll
<1>3. /\ First(queue)' = First(list) /\ First(list) \subseteq list /\ Registered' = Registered
      /\ list \subseteq Resources
  BY <1>2, RegisteredAreResources DEF First, StopsBefore, Registered
<1>4. \A r \in Resources :
        resource'[r] \in IF r \in list THEN {"stopping", "up"} ELSE {"down"}
  BY <1>2, <1>3
<1>5. failed' = {r \in Resources : resource'[r] = "stuck"}
  BY <1>2, <1>4
<1>6. \A r \in Resources \ queue' : resource'[r] \in {"down", "stopped", "stuck"}
  BY <1>2, <1>4
<1>7. \A r \in queue' : resource'[r] = IF r \in First(queue)' THEN "stopping" ELSE "up"
  BY <1>2, <1>3
<1> QED BY <1>2, <1>3, <1>5, <1>6, <1>7 DEF Unwinding

(* A stop that has settled leaves the rest to be unwound.                  *)
LEMMA AdvanceUnwinds ==
  ASSUME TypeOK, Unwinding, registered' = registered,
         NEW outcome \in {"stopped", "stuck"}, Advance(outcome)
  PROVE  /\ Unwinding'
         /\ queue' = queue \ First(queue)
         /\ \A r \in Resources :
              resource'[r] = IF r \in First(queue) THEN outcome
                             ELSE IF r \in First(queue') THEN "stopping" ELSE resource[r]
<1>1. /\ queue' = queue \ First(queue) /\ pending' = pending
      /\ \A r \in Resources :
           resource'[r] = IF r \in First(queue) THEN outcome
                          ELSE IF r \in First(queue') THEN "stopping" ELSE resource[r]
      /\ failed' = IF outcome = "stuck" THEN failed \cup First(queue) ELSE failed
  BY DEF Advance
<1>2. /\ First(queue)' = First(queue') /\ First(queue') \subseteq queue'
      /\ First(queue) \subseteq queue /\ Registered' = Registered
      /\ queue \subseteq Resources
  BY DEF First, StopsBefore, Registered, TypeOK
<1>3. /\ pending' = {} /\ failed' \cap queue' = {} /\ queue' \subseteq Registered'
  BY <1>1, <1>2 DEF Unwinding
<1>4. \A r \in queue' : resource'[r] = IF r \in First(queue') THEN "stopping" ELSE "up"
  BY <1>1, <1>2 DEF Unwinding
<1>5. \A r \in Resources \ queue' : resource'[r] \in {"down", "stopped", "stuck"}
  BY <1>1, <1>2 DEF Unwinding
<1>6. failed' = {r \in Resources : resource'[r] = "stuck"}
  <2>1. \A r \in Resources : r \in failed' <=> resource'[r] = "stuck"
    BY <1>1, <1>2 DEF Unwinding
  <2>2. failed' \subseteq Resources
    BY <1>1, <1>2 DEF TypeOK
  <2> QED BY <2>1, <2>2
<1> QED BY <1>1, <1>2, <1>3, <1>4, <1>5, <1>6 DEF Unwinding

-----------------------------------------------------------------------------
(* Where the service stands, one action after another.                     *)

LEMMA StandsInit == Init => WhereItStands /\ Within
BY DEF Init, WhereItStands, AllDown, Within

LEMMA StandsStart ==
  ASSUME IInv, ~Reentrant, Start
  PROVE  WhereItStands' /\ Within'
<1> USE DEF IInv
<1>1. /\ state = "idle" /\ shutdown = "none" /\ AllDown /\ queue = {}
      /\ UNCHANGED << registered, queue, shutdown, elapsed, calledIn >>
  BY DEF Start, WhereItStands, stopVars, shutdownVars
<1>2. Registered' = Registered
  BY <1>1 DEF Registered
<1>3. Within'
  BY <1>1 DEF Within, Start, shutdownVars, stopVars
<1>4. CASE registered = 0
  <2>1. state' = "running" /\ resource' = resource /\ Registered = {}
    BY <1>4 DEF Start, Registered
  <2> QED BY <1>1, <1>2, <1>3, <2>1 DEF WhereItStands, AllUp, AllDown
<1>5. CASE registered # 0
  <2>1. state' = "starting" /\ resource' = [resource EXCEPT ![1] = "starting"]
    BY <1>5 DEF Start
  <2>2. 1 \in Registered /\ Registered \subseteq Resources /\ Resources \subseteq Nat
    BY <1>5, RegisteredAreResources DEF Registered, Resources
  <2>3. GoingUp'
    <3>1. \A r \in Resources : resource'[r] = IF r = 1 THEN "starting" ELSE "down"
      BY <1>1, <2>1 DEF AllDown, TypeOK
    <3>2. \A s \in Resources : ~(s < 1)
      BY DEF Resources
    <3> QED BY <1>2, <2>2, <3>1, <3>2 DEF GoingUp
  <2> QED BY <1>1, <1>3, <2>1, <2>3 DEF WhereItStands
<1> QED BY <1>4, <1>5

LEMMA StandsAdd ==
  ASSUME IInv, AddResource
  PROVE  WhereItStands' /\ Within'
BY DEF IInv, AddResource, WhereItStands, Within, AllDown, shutdownVars, stopVars

LEMMA StandsResolve ==
  ASSUME IInv, NEW r \in Resources, StartResolves(r)
  PROVE  WhereItStands' /\ Within'
<1> USE DEF IInv
<1>1. /\ r \in Registered /\ resource[r] = "starting"
      /\ UNCHANGED << registered, listening, stopVars, shutdownVars, probeVars >>
  BY DEF StartResolves, Starting
<1>2. Within'
  BY <1>1 DEF Within, shutdownVars, stopVars
<1>3. state = "starting" /\ queue = {} /\ GoingUp /\ shutdown \in {"none", "waiting"}
  BY <1>1, RegisteredAreResources
     DEF WhereItStands, TypeOK, ServiceState, AllUp, AllDown, Unwinding, Reported
<1>4. /\ \A s \in Resources : s < r => resource[s] = "up"
      /\ \A s \in Resources : s > r => resource[s] = "down"
  BY <1>1, <1>3 DEF GoingUp
<1>5. \A s \in Resources :
        resource'[s] = IF s <= r THEN "up"
                       ELSE IF s = r + 1 /\ s \in Registered THEN "starting" ELSE "down"
  BY <1>4 DEF StartResolves, Resources
<1>6. Registered' = Registered /\ Registered \subseteq Resources
      /\ Registered = 1 .. registered /\ Resources \subseteq Int
  BY <1>1, RegisteredAreResources DEF Registered, Resources
<1>7. CASE r = registered
  <2>1. state' = "running" /\ AllUp'
    BY <1>5, <1>6, <1>7 DEF StartResolves, AllUp, Resources
  <2> QED BY <1>1, <1>2, <1>3, <2>1 DEF WhereItStands, shutdownVars, stopVars
<1>8. CASE r # registered
  <2>1. state' = "starting" /\ GoingUp'
    BY <1>1, <1>3, <1>5, <1>6, <1>8 DEF StartResolves, GoingUp, Resources
  <2> QED BY <1>1, <1>2, <1>3, <2>1 DEF WhereItStands, shutdownVars, stopVars
<1> QED BY <1>7, <1>8

LEMMA StandsThrow ==
  ASSUME IInv, NEW r \in Resources, StartThrows(r)
  PROVE  WhereItStands' /\ Within'
<1> USE DEF IInv
<1>1. /\ r \in Registered /\ resource[r] = "starting"
      /\ UNCHANGED << registered, shutdownVars, probeVars >>
  BY DEF StartThrows, Starting
<1>2. /\ state = "starting" /\ queue = {} /\ GoingUp /\ shutdown \in {"none", "waiting"}
      /\ calledIn # "running"
  BY <1>1, RegisteredAreResources
     DEF WhereItStands, TypeOK, ServiceState, AllUp, AllDown, Unwinding, Reported, Within
<1>3. Within'
  BY <1>1, <1>2 DEF Within, shutdownVars
<1> DEFINE was == [resource EXCEPT ![r] = "down"]
<1>4. /\ was \in [Resources -> ResourceState] /\ Started \subseteq Registered
      /\ \A s \in Started : was[s] = "up"
      /\ \A s \in Resources \ Started : was[s] = "down"
  <2>1. /\ \A s \in Resources : resource[s] \in {"down", "starting", "up"}
        /\ \A s \in Resources : s # r => resource[s] \in {"down", "up"}
        /\ \A s \in Resources : resource[s] = "up" => s \in Registered
    BY <1>1, <1>2 DEF GoingUp, Resources
  <2>2. /\ was \in [Resources -> ResourceState]
        /\ \A s \in Resources : was[s] = IF s = r THEN "down" ELSE resource[s]
    BY DEF TypeOK, ResourceState
  <2> HIDE DEF was
  <2> QED BY <1>1, <2>1, <2>2, RegisteredAreResources DEF Started
<1>5. /\ queue' = Started /\ Unwinding'
      /\ \A s \in Resources :
           resource'[s] = IF s \in First(Started) THEN "stopping" ELSE was[s]
  <2>1. StopAll(Started, Timeout, was) /\ registered' = registered
    BY <1>1 DEF StartThrows
  <2>2. Timeout \in Int /\ Timeout > 0
    BY TimesAssumption
  <2> HIDE DEF was
  <2> QED BY <1>4, <2>1, <2>2, StopAllUnwinds
<1>6. CASE Started = {}
  <2>1. state' = "failed" /\ \A s \in Resources : resource'[s] = "down"
    BY <1>4, <1>5, <1>6 DEF StartThrows, First
  <2> QED BY <1>1, <1>2, <1>3, <1>5, <1>6, <2>1 DEF WhereItStands, shutdownVars
<1>7. CASE Started # {}
  <2>1. state' = "starting"
    BY <1>2, <1>7 DEF StartThrows
  <2> QED BY <1>1, <1>2, <1>3, <1>5, <1>7, <2>1 DEF WhereItStands, shutdownVars
<1> QED BY <1>6, <1>7

(* From a service that runs, the drain begins with the whole deadline left. *)
LEMMA StandsBeginDrain ==
  ASSUME IInv, state = "running", BeginDrain, shutdown \in {"none", "waiting"},
         calledIn' # "idle", calledIn' = "running" => elapsed = 0,
         UNCHANGED << registered, resource, queue, elapsed >>
  PROVE  WhereItStands' /\ Within'
<1>1. state' = "stopping" /\ shutdown' = "draining" /\ drainLeft' \in 0 .. Timeout
  BY DrainTypes
<1>2. AllUp' /\ queue = {}
  BY DEF IInv, WhereItStands, AllUp, Registered
<1>3. ASSUME calledIn' = "running" PROVE elapsed' + drainLeft' <= Timeout
  <2>1. elapsed' = 0
    BY <1>3
  <2>2. \A x \in 0 .. Timeout : 0 + x <= Timeout
    BY TimesAssumption
  <2> QED BY <1>1, <2>1, <2>2
<1> QED BY <1>1, <1>2, <1>3 DEF WhereItStands, Within

LEMMA StandsShutdown ==
  ASSUME IInv, NEW by \in BOOLEAN, Shutdown(by)
  PROVE  WhereItStands' /\ Within'
<1> USE DEF IInv
<1>1. /\ shutdown = "none" /\ calledIn' = state /\ elapsed = 0
      /\ UNCHANGED << registered, resource, queue, budget, failed, pending, elapsed >>
  BY DEF Shutdown, Within, stopVars
<1>2. CASE state = "starting"
  <2>1. shutdown' = "waiting" /\ state' = state
    BY <1>2 DEF Shutdown, BeginDrain, NothingRunning
  <2> QED BY <1>1, <1>2, <2>1
          DEF WhereItStands, Within, GoingUp, Unwinding, First, StopsBefore, Registered
<1>3. CASE state = "running"
  BY <1>1, <1>3, StandsBeginDrain DEF Shutdown
<1>4. CASE state \in {"idle", "failed"}
  <2>1. /\ shutdown' = "returned" /\ (ok' <=> state # "failed")
        /\ state' = IF state = "idle" THEN "stopped" ELSE state
    BY <1>4, NothingRunningTypes DEF Shutdown
  <2> QED BY <1>1, <1>4, <2>1 DEF WhereItStands, Within, AllDown
<1> QED BY <1>2, <1>3, <1>4 DEF Shutdown

LEMMA StandsAwaited ==
  ASSUME IInv, StartAwaited
  PROVE  WhereItStands' /\ Within'
<1> USE DEF IInv
<1>1. /\ shutdown = "waiting" /\ calledIn # "running" /\ calledIn' = calledIn
      /\ UNCHANGED << registered, resource, queue, budget, failed, pending, elapsed >>
  BY DEF StartAwaited, Within, stopVars
<1>2. CASE state = "running" /\ BeginDrain
  <2>1. calledIn' # "idle"
    BY <1>1 DEF WhereItStands
  <2> QED BY <1>1, <1>2, <2>1, StandsBeginDrain
<1>3. CASE state = "failed" /\ NothingRunning
  <2>1. shutdown' = "returned" /\ ~ok' /\ state' = "failed"
    BY <1>3, NothingRunningTypes
  <2> QED BY <1>1, <1>3, <2>1 DEF WhereItStands, Within
<1> QED BY <1>2, <1>3 DEF StartAwaited

LEMMA StandsDrainEnds ==
  ASSUME IInv, DrainEnds
  PROVE  WhereItStands' /\ Within'
<1> USE DEF IInv
<1>1. /\ state = "stopping" /\ shutdown = "draining" /\ AllUp /\ queue = {} /\ drainLeft = 0
      /\ calledIn # "idle" /\ StopAll(Registered, Remaining, resource)
      /\ UNCHANGED << registered, elapsed, drainLeft, calledIn >>
  BY DEF DrainEnds, StopEverything, Finish, WhereItStands
<1>2. /\ Registered' = Registered /\ Registered \subseteq Resources /\ Remaining \in Int
      /\ resource \in [Resources -> ResourceState]
  BY <1>1, RegisteredAreResources, TimesAssumption
     DEF Registered, Remaining, TypeOK, LongEnough
<1>3. CASE Remaining <= 0
  <2>1. /\ queue' = {} /\ pending' = Registered /\ failed' = {} /\ resource' = resource
    BY <1>1, <1>3 DEF StopAll
  <2>2. state' = "stopped" /\ shutdown' = "returned" /\ ok' = Clean({}, pending')
    BY <1>3 DEF DrainEnds, StopEverything, Finish
  <2>3. Reported'
    BY <1>1, <1>2, <2>1, <2>2 DEF Reported, AllUp, Clean
  <2> QED BY <1>1, <2>1, <2>2, <2>3 DEF WhereItStands, Within
<1>4. CASE Remaining > 0
  <2>1. /\ queue' = Registered /\ failed' = {} /\ pending' = {} /\ Unwinding'
        /\ \A r \in Resources :
             resource'[r] = IF r \in First(Registered) THEN "stopping" ELSE resource[r]
    <3>1. /\ \A r \in Registered : resource[r] = "up"
          /\ \A r \in Resources \ Registered : resource[r] = "down"
          /\ registered' = registered
      BY <1>1 DEF AllUp
    <3>2. PICK n \in Int : n = Remaining /\ n > 0
      BY <1>2, <1>4
    <3>3. StopAll(Registered, n, resource)
      BY <1>1, <3>2
    <3> DEFINE list == Registered
               was == resource
    <3>4. /\ list \in SUBSET Registered /\ was \in [Resources -> ResourceState]
          /\ StopAll(list, n, was) /\ n > 0 /\ n \in Int /\ registered' = registered
          /\ \A r \in list : was[r] = "up"
          /\ \A r \in Resources \ list : was[r] = "down"
      BY <1>2, <3>1, <3>2, <3>3
    <3>5. list = Registered /\ was = resource
      OBVIOUS
    <3> HIDE DEF list, was
    <3>6. /\ queue' = list /\ failed' = {} /\ pending' = {}
          /\ Unwinding'
          /\ \A r \in Resources :
               resource'[r] = IF r \in First(list) THEN "stopping" ELSE was[r]
      BY <3>4, StopAllUnwinds
    <3> QED BY <3>5, <3>6
  <2>2. CASE registered = 0
    <3>1. Registered = {} /\ First(Registered) = {}
      BY <2>2 DEF Registered, First
    <3>2. state' = "stopped" /\ shutdown' = "returned" /\ ok' = Clean({}, pending')
      BY <2>2 DEF DrainEnds, StopEverything, Finish
    <3>3. Reported'
      BY <1>1, <1>2, <2>1, <3>1, <3>2 DEF Reported, AllUp, Clean
    <3> QED BY <1>1, <2>1, <3>1, <3>2, <3>3 DEF WhereItStands, Within
  <2>3. CASE registered # 0
    <3>1. state' = "stopping" /\ shutdown' = "stopping"
      BY <1>4, <2>3, <1>2 DEF DrainEnds, StopEverything
    <3>2. Registered # {} /\ First(Registered) \subseteq Registered
      BY <2>3, RegisteredAreResources DEF Registered, First
    <3>3. Accounted'
      BY <1>1, <1>2, <2>1, <3>2 DEF Accounted, AllUp
    <3>4. budget' = Timeout - elapsed
      BY <1>1, <1>4, <1>2 DEF StopAll, Remaining
    <3>5. Within'
      BY <1>1, <1>4, <3>1, <3>4, TimesAssumption DEF Within, TypeOK, Remaining, LongEnough
    <3> QED BY <1>1, <2>1, <3>1, <3>2, <3>3, <3>5 DEF WhereItStands
  <2> QED BY <2>2, <2>3
<1> QED BY <1>2, <1>3, <1>4

(* While there is a queue, either a start is being undone or a shutdown is  *)
(* at work.                                                                *)
LEMMA WhoUnwinds ==
  ASSUME IInv, queue # {}
  PROVE  /\ Unwinding
         /\ \/ state = "starting" /\ shutdown \in {"none", "waiting"} /\ calledIn # "running"
            \/ /\ state = "stopping" /\ shutdown = "stopping"
               /\ calledIn # "idle" /\ Accounted
BY DEF IInv, WhereItStands, Within

(* The end of a start that was undone.                                     *)
LEMMA StandsGivenUp ==
  ASSUME IInv, queue # {}, shutdown # "stopping", GiveUp, queue' = {},
         UNCHANGED << shutdownVars, registered >>,
         \A r \in Resources : resource'[r] \notin {"starting", "stopping"}
  PROVE  WhereItStands' /\ Within'
<1>1. /\ shutdown \in {"none", "waiting"} /\ calledIn # "running"
      /\ shutdown = "waiting" => calledIn # "idle"
      /\ shutdown = "none" => elapsed = 0
  BY WhoUnwinds DEF IInv, WhereItStands, Within
<1>2. state' = "failed" /\ UNCHANGED << shutdown, calledIn, elapsed >>
  BY DEF GiveUp, shutdownVars
<1> QED BY <1>1, <1>2 DEF WhereItStands, Within

(* The end of a shutdown.                                                  *)
LEMMA StandsFinished ==
  ASSUME IInv, queue # {}, shutdown = "stopping", Finish(failed', pending'), queue' = {},
         registered' = registered,
         failed' = {r \in Registered : resource'[r] = "stuck"},
         pending' = {r \in Registered : resource'[r] \in {"up", "abandoned"}},
         \A r \in Registered : resource'[r] \in {"up", "abandoned", "stuck", "stopped"},
         \A r \in Resources \ Registered : resource'[r] = "down"
  PROVE  WhereItStands' /\ Within'
<1>1. /\ state' = "stopped" /\ shutdown' = "returned" /\ ok' = (failed' = {} /\ pending' = {})
      /\ calledIn' = calledIn /\ calledIn # "idle" /\ Registered' = Registered
  BY WhoUnwinds DEF Finish, Clean, Registered
<1>2. Reported'
  BY <1>1 DEF Reported
<1> QED BY <1>1, <1>2 DEF WhereItStands, Within

LEMMA StandsSettles ==
  ASSUME IInv, StopSettles
  PROVE  WhereItStands' /\ Within'
<1>1. PICK outcome \in {"stopped", "stuck"} : Advance(outcome)
  BY DEF StopSettles
<1>2. /\ queue # {} /\ queue \subseteq Resources /\ registered' = registered
      /\ Registered' = Registered /\ TypeOK /\ Unwinding /\ queue \subseteq Registered
      /\ Registered \subseteq Resources
  BY WhoUnwinds, RegisteredAreResources DEF StopSettles, Registered, IInv, TypeOK, Unwinding
<1>3. /\ Unwinding' /\ queue' = queue \ First(queue)
      /\ budget' = budget /\ pending' = pending
      /\ \A r \in Resources :
           resource'[r] = IF r \in First(queue) THEN outcome
                          ELSE IF r \in First(queue') THEN "stopping" ELSE resource[r]
  BY <1>1, <1>2, AdvanceUnwinds, AdvanceTypes
<1>4. CASE queue' # {}
  <2>1. UNCHANGED << state, listening, shutdownVars >>
    BY <1>3, <1>4 DEF StopSettles
  <2>2. Accounted => Accounted'
    BY <1>2, <1>3 DEF Accounted, First
  <2>3. Within'
    BY <1>3, <2>1 DEF IInv, Within, shutdownVars
  <2> QED BY <1>2, <1>3, <1>4, <2>1, <2>2, <2>3, WhoUnwinds DEF IInv, WhereItStands, shutdownVars
<1>5. CASE queue' = {}
  <2>1. Stopped
    BY <1>3, <1>5 DEF StopSettles
  <2>2. /\ \A r \in Resources : resource'[r] \in {"down", "stopped", "stuck"}
        /\ failed' = {r \in Resources : resource'[r] = "stuck"} /\ pending' = {}
    BY <1>3, <1>5 DEF Unwinding
  <2>3. CASE shutdown = "stopping"
    <3>1. /\ \A r \in Registered : resource'[r] # "down"
          /\ \A r \in Resources \ Registered : resource'[r] = "down"
      <4>1. Accounted /\ First(queue) \subseteq queue /\ First(queue') = {}
        BY <1>2, <1>5, <2>3, WhoUnwinds DEF First
      <4> QED BY <1>2, <1>3, <4>1 DEF Accounted
    <3>2. Finish(failed', pending')
      BY <2>1, <2>3 DEF Stopped
    <3>3. /\ failed' = {r \in Registered : resource'[r] = "stuck"}
          /\ pending' = {r \in Registered : resource'[r] \in {"up", "abandoned"}}
          /\ \A r \in Registered : resource'[r] \in {"up", "abandoned", "stuck", "stopped"}
      BY <1>2, <2>2, <3>1
    <3> QED BY <1>2, <1>5, <2>3, <3>1, <3>2, <3>3, StandsFinished
  <2>4. CASE shutdown # "stopping"
    <3>1. GiveUp /\ UNCHANGED shutdownVars
      BY <2>1, <2>4 DEF Stopped
    <3> QED BY <1>2, <1>5, <2>2, <2>4, <3>1, StandsGivenUp
  <2> QED BY <2>3, <2>4
<1> QED BY <1>4, <1>5

LEMMA StandsDeadline ==
  ASSUME IInv, DeadlinePasses
  PROVE  WhereItStands' /\ Within'
<1>1. /\ queue # {} /\ queue \subseteq Resources /\ registered' = registered
      /\ TypeOK /\ Unwinding /\ queue \subseteq Registered /\ Registered \subseteq Resources
  BY WhoUnwinds, RegisteredAreResources DEF DeadlinePasses, IInv, TypeOK, Unwinding
<1>2. /\ queue' = {} /\ pending' = queue /\ failed' = failed
      /\ \A r \in Resources :
           resource'[r] = IF r \in First(queue) THEN "abandoned" ELSE resource[r]
  BY DEF DeadlinePasses, Abandon, LeaveBehind
<1>3. First(queue) \subseteq queue
  BY DEF First
<1>4. /\ \A r \in queue : resource'[r] \in {"up", "abandoned"}
      /\ \A r \in Resources \ queue : resource'[r] = resource[r]
      /\ \A r \in Resources \ queue : resource'[r] \in {"down", "stopped", "stuck"}
  BY <1>1, <1>2, <1>3 DEF Unwinding
<1>5. CASE shutdown = "stopping"
  <2>1. Accounted /\ Finish(failed', pending')
    BY <1>1, <1>5, WhoUnwinds DEF DeadlinePasses, Stopped
  <2>2. /\ \A r \in Registered : resource'[r] \in {"up", "abandoned", "stuck", "stopped"}
        /\ \A r \in Resources \ Registered : resource'[r] = "down"
    BY <1>1, <1>4, <2>1 DEF Accounted
  <2>3. pending' = {r \in Registered : resource'[r] \in {"up", "abandoned"}}
    BY <1>1, <1>2, <1>4
  <2>4. failed' = {r \in Registered : resource'[r] = "stuck"}
    BY <1>1, <1>2, <1>4, <2>1 DEF Unwinding, Accounted
  <2> QED BY <1>1, <1>2, <1>5, <2>1, <2>2, <2>3, <2>4, StandsFinished
<1>6. CASE shutdown # "stopping"
  <2>1. GiveUp /\ UNCHANGED shutdownVars
    BY <1>6 DEF DeadlinePasses, Stopped
  <2>2. \A r \in Resources : resource'[r] \notin {"starting", "stopping"}
    BY <1>4
  <2> QED BY <1>1, <1>2, <1>6, <2>1, <2>2, StandsGivenUp
<1> QED BY <1>5, <1>6

(* What goes by is taken from what is left.                                *)
LEMMA SumStays ==
  ASSUME NEW gone \in Int, NEW left \in Int, NEW all \in Int, gone + left <= all,
         NEW goneNext \in Int, goneNext <= gone + 1, NEW leftNext \in Int, leftNext = left - 1
  PROVE  goneNext + leftNext <= all
OBVIOUS

LEMMA StandsTick ==
  ASSUME IInv, Tick
  PROVE  WhereItStands' /\ Within'
<1> USE DEF IInv
<1>1. UNCHANGED << state, registered, resource, queue, failed, pending, shutdown, calledIn, ok >>
  BY DEF Tick
<1>2. WhereItStands'
  BY <1>1 DEF WhereItStands, GoingUp, Unwinding, Accounted, Reported, AllUp, AllDown,
              First, StopsBefore, Registered
<1>3. /\ shutdown = "none" => elapsed = 0
      /\ calledIn = "running" =>
           /\ shutdown \in {"draining", "stopping", "returned"}
           /\ shutdown = "draining" => elapsed + drainLeft <= Timeout
           /\ shutdown = "stopping" => 0 <= budget /\ elapsed + budget <= Timeout
  BY DEF Within
<1>4. shutdown = "none" => elapsed' = elapsed
  BY DEF Tick
<1>5. ASSUME calledIn = "running", shutdown = "draining"
      PROVE  elapsed' + drainLeft' <= Timeout
  <2>1. drainLeft \in Nat \ {0} /\ drainLeft' = drainLeft - 1
    BY <1>5, TimesAssumption DEF Tick, TimerDue, Decrement, TypeOK
  <2>2. elapsed \in Nat /\ elapsed' \in Int /\ elapsed' <= elapsed + 1
    BY TimesAssumption DEF Tick, SmallerOf, TypeOK, LongEnough
  <2>3. elapsed + drainLeft <= Timeout /\ Timeout \in Nat
    BY <1>3, <1>5, TimesAssumption
  <2>4. elapsed \in Int /\ drainLeft \in Int /\ drainLeft' \in Int /\ Timeout \in Int
    BY <2>1, <2>2, <2>3
  <2> QED BY ONLY <2>1, <2>2, <2>3, <2>4, SumStays
<1>6. ASSUME calledIn = "running", shutdown = "stopping"
      PROVE  0 <= budget' /\ elapsed' + budget' <= Timeout
  <2>1. budget \in Int /\ 1 <= budget /\ budget' = budget - 1
    BY <1>6 DEF Tick, TimerDue, Decrement, TypeOK, WhereItStands
  <2>2. elapsed \in Nat /\ elapsed' \in Int /\ elapsed' <= elapsed + 1
    BY TimesAssumption DEF Tick, SmallerOf, TypeOK, LongEnough
  <2>3. elapsed + budget <= Timeout /\ Timeout \in Nat
    BY <1>3, <1>6, TimesAssumption
  <2>4. elapsed \in Int /\ budget' \in Int /\ Timeout \in Int /\ 0 <= budget'
    BY <2>1, <2>2, <2>3
  <2> QED BY ONLY <2>1, <2>2, <2>3, <2>4, SumStays
<1>7. shutdown' = shutdown /\ calledIn' = calledIn
  BY <1>1
<1> QED BY <1>2, <1>3, <1>4, <1>5, <1>6, <1>7 DEF Within

(* Nothing that WhereItStands and Within speak of changes.                 *)
LEMMA StandsStill ==
  ASSUME IInv,
         UNCHANGED << state, registered, resource, stopVars, shutdown, drainLeft, elapsed,
                      calledIn, ok >>
  PROVE  WhereItStands' /\ Within'
BY DEF IInv, WhereItStands, GoingUp, Unwinding, Accounted, Reported, AllUp, AllDown,
       First, StopsBefore, Registered, Within, stopVars

LEMMA Step ==
  ASSUME ~Reentrant, IInv, [Next]_vars
  PROVE  IInv'
<1>1. TypeOK'
  BY TypeStep DEF IInv
<1>2. CASE AddResource \/ Start \/ StartAwaited \/ DrainEnds \/ StopSettles \/ DeadlinePasses \/ Tick
  BY <1>1, <1>2, StandsAdd, StandsStart, StandsAwaited, StandsDrainEnds, StandsSettles,
     StandsDeadline, StandsTick DEF IInv
<1>3. CASE CallShutdown \/ Signal
  BY <1>1, <1>3, StandsShutdown DEF IInv, CallShutdown, Signal
<1>4. CASE \E r \in Resources : StartResolves(r) \/ StartThrows(r)
  BY <1>1, <1>4, StandsResolve, StandsThrow DEF IInv
<1>5. CASE Exit \/ (\E p \in Probes : Ask(p) \/ ChecksEnd(p)) \/ UNCHANGED vars
  <2>1. UNCHANGED << state, registered, resource, stopVars, shutdown, drainLeft, elapsed,
                     calledIn, ok >>
    BY <1>5 DEF Exit, Ask, ChecksEnd, vars, shutdownVars
  <2> QED BY <1>1, <2>1, StandsStill DEF IInv
<1> QED BY <1>2, <1>3, <1>4, <1>5 DEF Next, Rest

-----------------------------------------------------------------------------
(* The order of the stops.                                                 *)

(* What is being stopped is the first of the queue.                        *)
LEMMA StoppingIsFirst ==
  ASSUME IInv', NEW r \in Resources, resource'[r] = "stopping"
  PROVE  Unwinding' /\ r \in First(queue')
<1>1. Unwinding'
  BY DEF IInv, TypeOK, ServiceState, WhereItStands, GoingUp, AllUp, AllDown, Reported,
         Registered, Resources
<1>2. First(queue)' = First(queue')
  BY DEF First, StopsBefore
<1> QED BY <1>1, <1>2 DEF Unwinding

(* A stop is called of something that was up.                              *)
LEMMA OnlyUpIsStopped ==
  ASSUME ~Reentrant, IInv, [Next]_vars,
         NEW r \in Resources, resource'[r] = "stopping", resource[r] # "stopping"
  PROVE  resource[r] = "up"
<1> USE DEF IInv
<1>1. CASE \E s \in Resources : StartThrows(s)
  <2>1. PICK s \in Resources : StartThrows(s)
    BY <1>1
  <2>2. r \in First(Started)
    BY <2>1, TimesAssumption DEF StartThrows, StopAll, TypeOK
  <2> QED BY <2>2 DEF First, Started
<1>2. CASE DrainEnds
  <2>1. AllUp /\ StopAll(Registered, Remaining, resource)
    BY <1>2 DEF DrainEnds, StopEverything, WhereItStands
  <2>2. r \in First(Registered)
    BY <2>1 DEF StopAll, TypeOK
  <2> QED BY <2>1, <2>2 DEF First, AllUp
<1>3. CASE StopSettles
  <2>1. Unwinding
    BY <1>3, WhoUnwinds DEF StopSettles
  <2>2. r \in queue
    BY <1>3 DEF StopSettles, Advance, First, TypeOK
  <2> QED BY <2>1, <2>2 DEF Unwinding
<1>4. CASE DeadlinePasses
  BY <1>4 DEF DeadlinePasses, Abandon, TypeOK
<1>5. CASE Start
  BY <1>5 DEF Start, TypeOK
<1>6. CASE \E s \in Resources : StartResolves(s)
  BY <1>6 DEF StartResolves, TypeOK
<1>7. CASE UNCHANGED resource
  BY <1>7
<1>8. \/ UNCHANGED resource \/ Start \/ DrainEnds \/ StopSettles \/ DeadlinePasses
      \/ \E s \in Resources : StartResolves(s) \/ StartThrows(s)
  BY DEF Next, Rest, vars, AddResource, CallShutdown, Signal, Shutdown, StartAwaited, Exit,
         Ask, ChecksEnd, Tick
<1> QED BY <1>1, <1>2, <1>3, <1>4, <1>5, <1>6, <1>7, <1>8

-----------------------------------------------------------------------------
(* The theorems.  A start that calls shutdown before it has returned is    *)
(* left out of those that it falsifies.                                    *)

(* The variables of a service keep the shapes that their declarations give *)
(* them.                                                                   *)
THEOREM TypeCorrect == Spec => []TypeOK
BY TypeInit, TypeStep, PTL DEF Spec

LEMMA Inductive ==
  ASSUME ~Reentrant
  PROVE  Spec => []IInv
<1>1. Init => IInv
  BY TypeInit, StandsInit DEF IInv
<1>2. IInv /\ [Next]_vars => IInv'
  BY Step
<1> QED BY <1>1, <1>2, PTL DEF Spec

(* A shutdown that answers ok has left nothing running or half stopped,    *)
(* however many resources there are and whenever it was called.            *)
THEOREM OkIsDown ==
  ASSUME ~Reentrant
  PROVE  Spec => []OkMeansDown
<1>1. IInv => OkMeansDown
  BY DEF IInv, WhereItStands, AllDown, Reported, OkMeansDown, Registered, Resources
<1> QED BY Inductive, <1>1, PTL

(* What a shutdown reports as failed, pending or stopped is what has       *)
(* become of each resource.                                                *)
THEOREM ReportHolds ==
  ASSUME ~Reentrant
  PROVE  Spec => []ReportIsExact
<1>1. IInv => ReportIsExact
  BY DEF IInv, WhereItStands, Reported, ReportIsExact
<1> QED BY Inductive, <1>1, PTL

(* Drain and stops of a running service share one deadline.                *)
THEOREM DeadlineHolds ==
  ASSUME ~Reentrant
  PROVE  Spec => []DeadlineKept
<1>1. IInv => DeadlineKept
  BY TimesAssumption DEF IInv, TypeOK, LongEnough, Within, DeadlineKept
<1> QED BY Inductive, <1>1, PTL

(* A readiness probe never answers that a service is ready unless it runs  *)
(* at that moment.                                                         *)
THEOREM ReadinessHolds == Spec => ReadyOnlyWhileRunning
<1>1. ASSUME TypeOK, [Next]_vars
      PROVE  [answer["readiness"] = "none" /\ answer'["readiness"] \in {"pass", "warn"}
                => state = "running"]_vars
  <2>1. ASSUME NEW p \in Probes, Ask(p) \/ ChecksEnd(p),
               answer["readiness"] = "none", answer'["readiness"] \in {"pass", "warn"}
        PROVE  state = "running"
    <3>1. answer'["readiness"] =
            IF p # "readiness" THEN answer["readiness"] ELSE answer'[p]
      BY <1>1, <2>1 DEF Ask, ChecksEnd, TypeOK, Probes
    <3>2. p = "readiness"
      BY <2>1, <3>1
    <3>3. FailsAtOnce("readiness") => answer'["readiness"] \in {"fail", "none"}
      BY <1>1, <2>1, <3>2 DEF Ask, ChecksEnd, Verdict, TypeOK
    <3> QED BY <2>1, <3>3 DEF FailsAtOnce
  <2>2. CASE UNCHANGED answer
    BY <2>2
  <2>3. CASE ~UNCHANGED answer
    <3>1. \E p \in Probes : Ask(p) \/ ChecksEnd(p)
      BY <1>1, <2>3 DEF Next, Rest, vars, probeVars, AddResource, Start, CallShutdown, Signal,
         Shutdown, StartResolves, StartThrows, StartAwaited, DrainEnds, StopSettles,
         DeadlinePasses, Exit, Tick
    <3> QED BY <2>1, <3>1
  <2> QED BY <2>2, <2>3
<1> QED BY <1>1, TypeCorrect, PTL DEF Spec, ReadyOnlyWhileRunning

(* Resources are stopped one at a time, in the order of stopOrder and, with *)
(* equal ones, the last started first; and only those that are up.         *)
THEOREM OrderHolds ==
  ASSUME ~Reentrant
  PROVE  Spec => StopsInOrder
<1>1. ASSUME IInv, IInv', [Next]_vars,
             NEW r \in Resources, resource'[r] = "stopping", resource[r] # "stopping"
      PROVE  /\ resource[r] = "up"
             /\ \A s \in Resources \ {r} :
                  GoesFirst(s, r) => resource'[s] \notin {"starting", "up", "stopping"}
             /\ \A s \in Resources \ {r} : resource'[s] # "stopping"
  <2>1. resource[r] = "up"
    BY <1>1, OnlyUpIsStopped
  <2>2. Unwinding' /\ r \in First(queue') /\ First(queue)' = First(queue')
    BY <1>1, StoppingIsFirst DEF First, StopsBefore
  <2>3. ASSUME NEW s \in Resources, s # r, s \in queue'
        PROVE  ~GoesFirst(s, r) /\ s \notin First(queue')
    <3>1. StopsBefore(r, s) /\ StopOrder[r] \in Int /\ StopOrder[s] \in Int /\ r \in Int /\ s \in Int
      BY <2>2, <2>3, StopOrderAssumption DEF First, Resources
    <3>2. ~GoesFirst(s, r)
      BY <3>1 DEF StopsBefore, GoesFirst
    <3>3. ~StopsBefore(s, r)
      BY <3>1 DEF StopsBefore
    <3> QED BY <2>2, <2>3, <3>2, <3>3 DEF First
  <2>4. \A s \in Resources \ {r} : resource'[s] # "stopping"
    BY <1>1, <2>3, StoppingIsFirst DEF First
  <2>5. \A s \in Resources : s \notin queue' => resource'[s] \in {"down", "stopped", "stuck"}
    BY <2>2 DEF Unwinding
  <2> QED BY <2>1, <2>3, <2>4, <2>5
<1>2. IInv /\ IInv' /\ [Next]_vars =>
        [\A r \in Resources :
           resource'[r] = "stopping" /\ resource[r] # "stopping" =>
             /\ resource[r] = "up"
             /\ \A s \in Resources \ {r} :
                  GoesFirst(s, r) => resource'[s] \notin {"starting", "up", "stopping"}
             /\ \A s \in Resources \ {r} : resource'[s] # "stopping"]_vars
  BY <1>1
<1> QED BY <1>2, Inductive, PTL DEF Spec, StopsInOrder
=============================================================================
