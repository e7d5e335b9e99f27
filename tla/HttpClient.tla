----------------------------- MODULE HttpClient -----------------------------
(***************************************************************************)
(* createApiClient (http-client/src/client.ts) with internal/signal.ts and *)
(* internal/retry.ts: calls that share one long-lived AbortSignal of their *)
(* caller.  Each call makes attempts, one at a time; each attempt has a    *)
(* signal of its own, which the timeout and the caller's signal abort.     *)
(*                                                                         *)
(* pc names the promise a call waits for: the onRequest hook, fetch, the   *)
(* onResponse hook, the body, or the delay between two attempts.  Which    *)
(* headers, URL and body are sent, and what the errors say, is left out.   *)
(* A definition marked "Faulty" is a plausible mistake in the next one.    *)
(***************************************************************************)
EXTENDS Naturals

CONSTANTS
  Calls,
  Signalled,   \* the calls that are given the caller's signal
  Attempts,    \* bound: the retry limits callers choose
  Timeout,     \* timeoutMs
  BackoffMs,   \* backoffMs
  HooksThrow,  \* may onRequest or onResponse throw?
  None

ASSUME SignalledAssumption == Signalled \subseteq Calls
ASSUME AttemptsAssumption == Attempts \subseteq Nat
ASSUME TimesAssumption == Timeout \in Nat \ {0} /\ BackoffMs \in Nat
ASSUME HooksThrowAssumption == HooksThrow \in BOOLEAN
ASSUME NoneIsNoTime == None \notin Nat

VARIABLES
  callerAborted,  \* callerSignal.aborted
  listening,      \* the calls with a listener on the caller's signal
  pc,             \* the promise a call waits for
  limit,          \* its `attempts`
  tried,          \* attempts begun
  timer,          \* time left on its timeout, or on its delay
  aborted,        \* why the signal of the attempt is aborted
  status,         \* what kind of response it got
  replaced,       \* the calls that read a response of onResponse's own
  result,         \* the result of its last attempt
  sent,           \* history: requests that went out
  elapsed         \* history: time since the attempt began

callVars == << pc, limit, tried, status, replaced, result, sent >>
signalVars == << callerAborted, listening, timer, aborted, elapsed >>
vars == << callVars, signalVars >>

Statuses == {"success", "clientError", "serverError"}
Results == {"ok", "network", "validation", "clientError", "serverError"}

Init ==
  /\ callerAborted = FALSE
  /\ listening = {}
  /\ pc = [c \in Calls |-> "idle"]
  /\ limit = [c \in Calls |-> 1]
  /\ tried = [c \in Calls |-> 0]
  /\ timer = [c \in Calls |-> None]
  /\ aborted = [c \in Calls |-> "no"]
  /\ status = [c \in Calls |-> None]
  /\ replaced = {}
  /\ result = [c \in Calls |-> "none"]
  /\ sent = [c \in Calls |-> 0]
  /\ elapsed = [c \in Calls |-> 0]

-----------------------------------------------------------------------------
(* The signal of an attempt.                                               *)

\* Faulty: the caller's signal takes the place of the timeout.
SignalInstead(c) ==
  /\ timer' = [timer EXCEPT ![c] = IF c \in Signalled THEN None ELSE Timeout]
  /\ listening' = IF c \in Signalled THEN listening \cup {c} ELSE listening
  /\ aborted' = [aborted EXCEPT ![c] =
                   IF c \in Signalled /\ callerAborted THEN "caller" ELSE "no"]

\* Faulty: it is not looked at whether the caller has aborted already.
SignalUnlooked(c) ==
  /\ timer' = [timer EXCEPT ![c] = Timeout]
  /\ listening' = IF c \in Signalled THEN listening \cup {c} ELSE listening
  /\ aborted' = [aborted EXCEPT ![c] = "no"]

\* createCombinedSignal
CreateSignal(c) ==
  IF c \in Signalled /\ callerAborted
  THEN /\ timer' = [timer EXCEPT ![c] = None]
       /\ aborted' = [aborted EXCEPT ![c] = "caller"]
       /\ UNCHANGED listening
  ELSE /\ timer' = [timer EXCEPT ![c] = Timeout]
       /\ aborted' = [aborted EXCEPT ![c] = "no"]
       /\ listening' = IF c \in Signalled THEN listening \cup {c} ELSE listening

\* The timeout: setTimeout's callback, and onTimeout.
TimeoutFires(c) ==
  /\ pc[c] # "delay"
  /\ timer[c] = 0
  /\ timer' = [timer EXCEPT ![c] = None]
  /\ aborted' = [aborted EXCEPT ![c] = IF @ = "no" THEN "timeout" ELSE @]
  /\ UNCHANGED << callVars, callerAborted, listening, elapsed >>

\* The caller aborts; every listener (onCallerAbort) runs, once.
CallerAborts ==
  /\ ~callerAborted
  /\ callerAborted' = TRUE
  /\ aborted' = [c \in Calls |-> IF c \in listening /\ aborted[c] = "no"
                                 THEN "caller" ELSE aborted[c]]
  /\ listening' = {}
  /\ UNCHANGED << callVars, timer, elapsed >>

\* Faulty: the listener stays on the caller's signal.
StillListening(c) == listening

\* What removeEventListener leaves.
NotListening(c) == listening \ {c}

\* cleanup, and the end of what belongs to the attempt; a delay may start, of
\* which next is the length.
Cleanup(c, next) ==
  /\ timer' = [timer EXCEPT ![c] = next]
  /\ listening' = NotListening(c)
  /\ aborted' = [aborted EXCEPT ![c] = "no"]
  /\ status' = [status EXCEPT ![c] = None]
  /\ replaced' = replaced \ {c}
  /\ elapsed' = [elapsed EXCEPT ![c] = 0]

-----------------------------------------------------------------------------
(* An attempt.                                                             *)

Begin(c) ==
  /\ CreateSignal(c)
  /\ pc' = [pc EXCEPT ![c] = "onRequest"]
  /\ tried' = [tried EXCEPT ![c] = @ + 1]
  /\ UNCHANGED << callerAborted, status, replaced, result, sent, elapsed >>

\* performRequest, resolveRetryConfig and the first attempt.
Call(c) ==
  /\ pc[c] = "idle"
  /\ \E n \in Attempts : limit' = [limit EXCEPT ![c] = n]
  /\ Begin(c)

\* onRequest has resolved, or there is none: fetch is called, and sends
\* nothing on a signal that is aborted already.
Fetch(c) ==
  /\ pc[c] = "onRequest"
  /\ pc' = [pc EXCEPT ![c] = "fetch"]
  /\ sent' = [sent EXCEPT ![c] = IF aborted[c] = "no" THEN @ + 1 ELSE @]
  /\ UNCHANGED << limit, tried, status, replaced, result, signalVars >>

\* fetch resolves: the head of a response.
Respond(c) ==
  /\ pc[c] = "fetch"
  /\ aborted[c] = "no"
  /\ pc' = [pc EXCEPT ![c] = "onResponse"]
  /\ UNCHANGED << limit, tried, status, replaced, result, sent, signalVars >>

\* onResponse has resolved, with that response or with one of its own, such
\* as the answer to a request it issued itself, of which this attempt's
\* signal knows nothing.
ReadBody(c) ==
  /\ pc[c] = "onResponse"
  /\ replaced' \in {replaced, replaced \cup {c}}
  /\ \E s \in Statuses : status' = [status EXCEPT ![c] = s]
  /\ pc' = [pc EXCEPT ![c] = "body"]
  /\ UNCHANGED << limit, tried, result, sent, signalVars >>

\* defaultRetryOn
RetryOn == {"network", "serverError"}

\* Faulty: `attempts` counts the retries.
RetriesOneMore(c, r) == r \in RetryOn /\ tried[c] <= limit[c]

Retries(c, r) == r \in RetryOn /\ tried[c] < limit[c]

\* computeBackoffMs
Delays(c) == 0 .. (BackoffMs * 2 ^ (tried[c] - 1))

\* An attempt ends with result r, and executeWithRetry looks at it.
Conclude(c, r) ==
  /\ result' = [result EXCEPT ![c] = r]
  /\ \/ /\ Retries(c, r)
        /\ pc' = [pc EXCEPT ![c] = "delay"]
        /\ \E d \in Delays(c) : Cleanup(c, d)
     \/ /\ ~Retries(c, r)
        /\ pc' = [pc EXCEPT ![c] = "done"]
        /\ Cleanup(c, None)
  /\ UNCHANGED << limit, tried, sent, callerAborted >>

\* fetch rejects, because there is no connection or because it is aborted.
FetchRejects(c) ==
  /\ pc[c] = "fetch"
  /\ Conclude(c, "network")

BodyOf(s) == IF s = "success" THEN {"ok", "validation"} ELSE {s}

\* The body has been read, and a good one validated.
BodyArrives(c) ==
  /\ pc[c] = "body"
  /\ \E r \in BodyOf(status[c]) : Conclude(c, r)

\* What is thrown inside an attempt, other than by fetch, leaves it by way of
\* cleanup and rejects the promise of the call.
Reject(c) ==
  /\ pc' = [pc EXCEPT ![c] = "done"]
  /\ result' = [result EXCEPT ![c] = "rejected"]
  /\ Cleanup(c, None)
  /\ UNCHANGED << limit, tried, sent, callerAborted >>

\* The connection breaks while the body is read, or its signal is aborted.
BodyFails(c) ==
  /\ pc[c] = "body"
  /\ Reject(c)

HookThrows(c) ==
  /\ HooksThrow
  /\ pc[c] \in {"onRequest", "onResponse"}
  /\ Reject(c)

\* The delay is over: the next attempt.
DelayEnds(c) ==
  /\ pc[c] = "delay"
  /\ timer[c] = 0
  /\ Begin(c)
  /\ UNCHANGED limit

-----------------------------------------------------------------------------
\* What the attempt's signal ends: the request given to fetch, and the body
\* of the response that fetch itself returned.
Bound(c) == pc[c] = "fetch" \/ (pc[c] = "body" /\ c \notin replaced)

\* What happens before time passes: a timer that is due, and the rejection
\* that an aborted signal causes.
Urgent(c) ==
  \/ timer[c] = 0
  \/ Bound(c) /\ aborted[c] # "no"

InAttempt(c) == pc[c] \in {"onRequest", "fetch", "onResponse", "body"}

Tick ==
  /\ \A c \in Calls : ~Urgent(c)
  /\ timer' = [c \in Calls |-> IF timer[c] = None THEN None ELSE timer[c] - 1]
  /\ elapsed' = [c \in Calls |-> IF InAttempt(c) /\ elapsed[c] <= Timeout
                                 THEN elapsed[c] + 1 ELSE elapsed[c]]
  /\ UNCHANGED << callVars, callerAborted, listening, aborted >>

\* fetch or the body reader notices that the signal is aborted.
Abandon(c) ==
  Bound(c) /\ aborted[c] # "no" /\ (FetchRejects(c) \/ BodyFails(c))

Network(c) == Respond(c) \/ FetchRejects(c) \/ BodyArrives(c) \/ BodyFails(c)

Hooks(c) == Fetch(c) \/ ReadBody(c) \/ HookThrows(c)

Timers(c) == TimeoutFires(c) \/ DelayEnds(c)

Next ==
  \/ \E c \in Calls : Call(c) \/ Network(c) \/ Hooks(c) \/ Timers(c)
  \/ CallerAborts
  \/ Tick

\* Timers fire, hooks settle, and what an aborted signal ends is given up.
\* Nothing is assumed of the network: a response may never come, and a body
\* may never end.
Fairness ==
  /\ WF_vars(Tick)
  /\ \A c \in Calls : WF_vars(Timers(c)) /\ WF_vars(Hooks(c)) /\ WF_vars(Abandon(c))

Spec == Init /\ [][Next]_vars

FairSpec == Spec /\ Fairness
=============================================================================
