-------------------------- MODULE HttpClientProps --------------------------
(***************************************************************************)
(* What must hold of HttpClient.                                           *)
(***************************************************************************)
EXTENDS HttpClient

\* The variables have their shapes, and a call waits for what it has begun.
TypeOK ==
  /\ callerAborted \in BOOLEAN
  /\ listening \subseteq Signalled
  /\ pc \in [Calls -> {"idle", "onRequest", "fetch", "onResponse", "body", "delay", "done"}]
  /\ limit \in [Calls -> Nat] /\ tried \in [Calls -> Nat]
  /\ timer \in [Calls -> Nat \cup {None}]
  /\ aborted \in [Calls -> {"no", "timeout", "caller"}]
  /\ status \in [Calls -> Statuses \cup {None}] /\ replaced \subseteq Calls
  /\ result \in [Calls -> Results \cup {"none", "rejected"}]
  /\ sent \in [Calls -> Nat] /\ elapsed \in [Calls -> Nat]
  /\ \A c \in Calls :
       /\ pc[c] = "delay" => timer[c] \in Nat
       /\ pc[c] = "body" => status[c] \in Statuses

\* "listeners detached and the timer cleared once the attempt settles - a
\* long-lived caller signal reused across many requests never accumulates
\* listeners" (README of http-client): however an attempt ended.
NothingLeftBehind ==
  \A c \in Calls :
    /\ pc[c] \in {"idle", "delay", "done"} => c \notin listening
    /\ pc[c] \in {"idle", "done"} => timer[c] = None

\* "This signal never silently replaces the timeout" (types.ts:180): with or
\* without a signal of the caller, on any attempt, no time passes waiting for
\* fetch, or for the body of the response it returned, once timeoutMs have
\* gone since the attempt began.  The body of a response that onResponse put
\* in its place is left out: it is bound to no signal of the attempt
\* (client.ts:98-108), and waiting for it may take any time.
TimeoutBinds ==
  [][ \A c \in Calls :
        elapsed'[c] > elapsed[c] /\ Bound(c) => elapsed[c] < Timeout ]_vars

\* Once the caller has aborted, nothing goes out on any attempt that is left.
AbortSilences ==
  [][ \A c \in Calls :
        sent'[c] > sent[c] => ~(callerAborted /\ c \in Signalled) ]_vars

\* A request goes out again only after a failure that another try may mend,
\* and never more often than `attempts` (the first attempt is always made).
RetriesAreMeant ==
  [][ \A c \in Calls :
        sent'[c] > sent[c] =>
          /\ result[c] \in {"none", "network", "serverError"}
          /\ sent[c] = 0 \/ sent'[c] <= limit[c] ]_vars

\* Every call settles, although the network may never answer, unless it ends
\* up reading a response of onResponse's own whose body never ends: neither
\* the timeout nor the caller's abort reaches that one (client.ts:98-108).
CallSettles ==
  \A c \in Calls :
    pc[c] = "onRequest" ~> (pc[c] = "done" \/ [](pc[c] = "body" /\ c \in replaced))

\* "a network failure, a typed HTTP error, and a validation failure are all
\* distinct ApiResult variants, never a rejected promise" (client.ts:52).
NeverRejects == \A c \in Calls : result[c] # "rejected"

-----------------------------------------------------------------------------
(* What carries the theorems over a step.                                  *)

\* While nothing has aborted an attempt, its timer is what is left of timeoutMs.
TimerCounts ==
  \A c \in Calls :
    /\ InAttempt(c) /\ aborted[c] = "no" =>
         timer[c] \in Nat /\ timer[c] + elapsed[c] = Timeout
    /\ ~InAttempt(c) => elapsed[c] = 0

\* An attempt either still listens to its caller or knows of the abort.
CallerHeard ==
  \A c \in Signalled : InAttempt(c) =>
    IF callerAborted THEN aborted[c] # "no" ELSE c \in listening

\* Why a call is in an attempt at all, and how often it has sent.
Counted ==
  \A c \in Calls :
    /\ sent[c] <= tried[c]
    /\ pc[c] = "onRequest" => sent[c] < tried[c]
    /\ pc[c] = "idle" => tried[c] = 0 /\ result[c] = "none"
    /\ tried[c] > 1 => tried[c] <= limit[c]
    /\ InAttempt(c) => result[c] \in RetryOn \cup {"none"}
    /\ pc[c] = "delay" => tried[c] < limit[c] /\ result[c] \in RetryOn

IInv == TypeOK /\ NothingLeftBehind /\ TimerCounts /\ CallerHeard /\ Counted
=============================================================================
