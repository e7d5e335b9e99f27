----------------------- MODULE ServiceLifecycleProps -----------------------
(***************************************************************************)
(* What must hold of ServiceLifecycle.                                     *)
(***************************************************************************)
EXTENDS ServiceLifecycle

\* The variables have the shapes the code's declarations give them.
TypeOK ==
  /\ state \in ServiceState
  /\ registered \in 0 .. N
  /\ resource \in [Resources -> ResourceState]
  /\ listening \in BOOLEAN
  /\ queue \subseteq Resources
  /\ budget \in Int
  /\ failed \subseteq Resources /\ pending \subseteq Resources
  /\ shutdown \in {"none", "waiting", "draining", "stopping", "returned"}
  /\ drainLeft \in 0 .. Timeout
  /\ elapsed \in 0 .. LongEnough
  /\ calledIn \in ServiceState
  /\ bySignal \in BOOLEAN /\ ok \in BOOLEAN
  /\ exitCode \in {"none", "0", "1"}
  /\ probe \in [Probes -> BOOLEAN]
  /\ answer \in [Probes -> {"none", "pass", "warn", "fail"}]

Up == {r \in Resources : resource[r] \in {"starting", "up", "stopping"}}

-----------------------------------------------------------------------------
\* Lower stopOrder first; with equal ones, what was registered later first.
GoesFirst(s, r) ==
  \/ StopOrder[s] < StopOrder[r]
  \/ StopOrder[s] = StopOrder[r] /\ s > r

\* A resource is stopped once everything that stops before it is out of the
\* way, one at a time, on the way down and after a failed start alike
\* (Resource.stopOrder: "by default the last resource started is the first
\* stopped"), and only if its own start had resolved.
StopsInOrder ==
  [][ \A r \in Resources :
        resource'[r] = "stopping" /\ resource[r] # "stopping" =>
          /\ resource[r] = "up"
          /\ \A s \in Resources \ {r} :
               GoesFirst(s, r) => resource'[s] \notin {"starting", "up", "stopping"}
          /\ \A s \in Resources \ {r} : resource'[s] # "stopping" ]_vars

\* "`true` only if every resource stopped cleanly inside the deadline": once
\* shutdown has answered ok, nothing is left running or half stopped.
OkMeansDown ==
  shutdown = "returned" /\ ok =>
    \A r \in Resources : resource[r] \in {"down", "stopped"}

\* The result tells the truth about each resource: `failed` are those whose
\* stop threw, `pending` those still stopping or never reached, and the rest
\* were stopped.
ReportIsExact ==
  state = "stopped" /\ calledIn # "idle" =>
    /\ failed = {r \in Registered : resource[r] = "stuck"}
    /\ pending = {r \in Registered : resource[r] \in {"up", "abandoned"}}
    /\ Registered \ (failed \cup pending) = {r \in Registered : resource[r] = "stopped"}

\* A shutdown of a running service is over by its deadline, the drain delay
\* included, whatever the resources do.
DeadlineKept ==
  calledIn = "running" /\ shutdown \in {"draining", "stopping"} => elapsed <= Timeout

\* /readyz: "`fail` in any state but `running`", at the moment it answers,
\* and not only when the probe arrived.
ReadyOnlyWhileRunning ==
  [][ answer["readiness"] = "none" /\ answer'["readiness"] \in {"pass", "warn"}
        => state = "running" ]_vars

\* Whenever shutdown is called, and however the resources stop, the service
\* ends and nothing goes on running that was not reported.
ShutdownEnds ==
  shutdown # "none" ~>
    /\ shutdown = "returned" /\ state \in {"stopped", "failed"}
    /\ Up \subseteq pending
=============================================================================
